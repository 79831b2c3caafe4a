----------------------------- MODULE GateProofs -----------------------------
(***************************************************************************)
(* Theorems of AccessGate, for any students and cohorts and any number of  *)
(* calls in flight.                                                        *)
(***************************************************************************)
EXTENDS AccessGate, FiniteSetTheorems, TLAPS

(***************************************************************************)
(* What the pages and the calls in flight have in common                   *)
(***************************************************************************)

Flying(c) == calls[c] # None

Kinds == {"register", "lookup", "login", "logout", "work"}

IsForm(r) == r.kind \in {"register", "lookup"}

(* A call is of the page it was sent from, with the fields its form needs. *)
Founded(r, p) ==
  /\ r.kind = "register" => p = "register" /\ r.email \in Emails /\ r.code \in Codes
  /\ r.kind # "register" => p \in {"gate", "class"}
  /\ r.kind = "lookup" => /\ r.email \in Emails /\ r.password \in Emails
                          /\ ~r.crossed => p = "gate"
  /\ r.kind = "login" => r.email \in Emails /\ r.code \in Codes
  /\ r.kind = "work" => (r.ok => r.seat \in Seats) /\ (~r.crossed => p = "class")

PagesOK ==
  /\ page \in {"register", "starting", "gate", "class", "dead"}
  /\ email \in Maybe(Emails) /\ password \in Maybe(Emails) /\ code \in Maybe(Codes)
  /\ disabled \in BOOLEAN
  /\ timer \in BOOLEAN /\ (timer => page = "register" /\ hint \in Hints)
  /\ hint \in Maybe(Hints)
  /\ lookup \in Maybe(Lists) /\ picker \in Maybe(Lists)
  /\ student \in Maybe(Seats) /\ (page = "class" <=> student # None)
  /\ cookie \in Maybe(Seats)
  /\ enrolled \subseteq Seats
  /\ mixed \in BOOLEAN /\ revived \in BOOLEAN

CallsOK ==
  /\ calls \in [Calls -> Maybe(Requests)]
  /\ \A c \in Calls : Flying(c) => Founded(calls[c], page)
  /\ \A c, d \in Calls : Flying(c) /\ Flying(d) /\ IsForm(calls[c]) /\ IsForm(calls[d]) => c = d
  /\ \A c \in Calls : Flying(c) /\ IsForm(calls[c]) => disabled

GateInv == PagesOK /\ CallsOK

LEMMA Nulls ==
  /\ None \notin Emails /\ None \notin Codes /\ None \notin Seats
  /\ None \notin Requests
  /\ Enrolled \subseteq Seats
  BY GateAssumption, NullAssumption DEF Seats

(* There is one form in flight at most. *)
LEMMA GateInvTypes == GateInv => GateTypeOK
<1>. SUFFICES ASSUME GateInv  PROVE  GateTypeOK
  OBVIOUS
<1>1. \A c \in Submitted : c \in Calls /\ Flying(c) /\ IsForm(calls[c])
  BY DEF Submitted, InFlight, IsForm, Flying
<1>2. Submitted # {} => disabled
  BY <1>1 DEF GateInv, CallsOK
<1>3. Cardinality(Submitted) <= 1
  <2>1. CASE Submitted = {}
    BY <2>1, FS_EmptySet
  <2>2. CASE Submitted # {}
    <3>1. PICK c \in Submitted : TRUE
      BY <2>2
    <3>2. Submitted = {c}
      BY <1>1, <3>1 DEF GateInv, CallsOK
    <3>. QED
      BY <3>2, FS_Singleton
  <2>. QED
    BY <2>1, <2>2
<1>. QED
  BY <1>2, <1>3 DEF GateInv, PagesOK, CallsOK, GateTypeOK

LEMMA GateInitOK == Init => GateInv
  BY Nulls DEF Init, GateInv, PagesOK, CallsOK, Flying, Maybe

(***************************************************************************)
(* What becomes of the calls                                               *)
(***************************************************************************)

(* q is the call r, later: only its form may have been crossed. *)
Same(r, q) ==
  /\ q.kind = r.kind /\ q.email = r.email /\ q.password = r.password
  /\ q.code = r.code /\ q.seat = r.seat
  /\ ~q.crossed => ~r.crossed

SameAnswer(r, q) == q.phase = r.phase /\ q.ok = r.ok /\ q.codes = r.codes

(* The calls of set are those in flight, but for some that have ended. *)
Fewer(set) ==
  /\ set \in [Calls -> Maybe(Requests)]
  /\ \A c \in Calls : set[c] # None =>
       /\ Flying(c)
       /\ Same(calls[c], set[c]) /\ SameAnswer(calls[c], set[c])

LEMMA EndedFewer ==
  ASSUME CallsOK, NEW c \in Calls
  PROVE  Fewer(Ended(c)) /\ Ended(c)[c] = None
  BY DEF CallsOK, Fewer, Ended, Flying, Maybe, Same, SameAnswer

LEMMA EndedSame ==
  ASSUME CallsOK, NEW c \in Calls
  PROVE  \A d \in Calls : Ended(c)[d] # None => Ended(c)[d] = calls[d]
  BY DEF CallsOK, Ended

IsCrossed(r) == r.kind \in {"register", "lookup", "work"}

(* Forms and work in flight are crossed. *)
LEMMA CrossingFewer ==
  ASSUME NEW set, Fewer(set)
  PROVE  /\ Fewer(Crossing(set))
         /\ \A c \in Calls : Crossing(set)[c] # None <=> set[c] # None
         /\ \A c \in Calls : Crossing(set)[c] # None /\ IsCrossed(Crossing(set)[c])
               => Crossing(set)[c].crossed
<1>1. \A r \in Requests :
        /\ [r EXCEPT !.crossed = TRUE] \in Requests
        /\ [r EXCEPT !.crossed = TRUE].crossed
        /\ Same(r, [r EXCEPT !.crossed = TRUE]) /\ SameAnswer(r, [r EXCEPT !.crossed = TRUE])
  BY DEF Requests, Same, SameAnswer
<1>5. ASSUME NEW c \in Calls
      PROVE  /\ Crossing(set)[c] \in Maybe(Requests)
             /\ Crossing(set)[c] # None <=> set[c] # None
             /\ set[c] # None => /\ Same(set[c], Crossing(set)[c])
                                /\ SameAnswer(set[c], Crossing(set)[c])
             /\ set[c] # None /\ IsCrossed(set[c]) => Crossing(set)[c].crossed
  <2>1. CASE set[c] # None /\ IsCrossed(set[c])
    <3>. DEFINE q == [set[c] EXCEPT !.crossed = TRUE]
    <3>1. set[c] \in Requests
      BY <2>1 DEF Fewer, Maybe
    <3>2. q \in Requests /\ q.crossed /\ Same(set[c], q) /\ SameAnswer(set[c], q)
      BY <1>1, <3>1
    <3>3. Crossing(set)[c] = q
      BY <2>1 DEF Crossing, IsCrossed
    <3>. HIDE DEF q
    <3>. QED
      BY <2>1, <3>2, <3>3, Nulls DEF Maybe
  <2>2. CASE ~(set[c] # None /\ IsCrossed(set[c]))
    <3>1. Crossing(set)[c] = set[c]
      BY <2>2 DEF Crossing, IsCrossed
    <3>2. Same(set[c], set[c]) /\ SameAnswer(set[c], set[c])
      BY DEF Same, SameAnswer
    <3>. QED
      BY <2>2, <3>1, <3>2 DEF Fewer
  <2>. QED
    BY <2>1, <2>2
<1>6. Crossing(set) \in [Calls -> Maybe(Requests)]
  BY <1>5 DEF Crossing
<1>7. \A c \in Calls : Crossing(set)[c] # None =>
        /\ Flying(c)
        /\ Same(calls[c], Crossing(set)[c]) /\ SameAnswer(calls[c], Crossing(set)[c])
  BY <1>5 DEF Fewer, Same, SameAnswer
<1>8. \A c \in Calls : set[c] # None => (IsCrossed(Crossing(set)[c]) <=> IsCrossed(set[c]))
  BY <1>5 DEF Same, IsCrossed
<1>. QED
  BY <1>5, <1>6, <1>7, <1>8 DEF Fewer

LEMMA CallsFewer == CallsOK => Fewer(calls)
  BY DEF CallsOK, Fewer, Flying, Same, SameAnswer

LEMMA CrossingAll ==
  ASSUME CallsOK, calls' = Crossing(calls)
  PROVE  /\ Fewer(calls')
         /\ \A c \in Calls : Flying(c) <=> calls'[c] # None
         /\ \A c \in Calls : calls'[c] # None /\ IsForm(calls'[c]) => calls'[c].crossed
         /\ \A c \in Calls : Flying(c) /\ IsForm(calls[c]) => calls'[c].crossed
<1>1. /\ Fewer(calls')
      /\ \A c \in Calls : calls'[c] # None <=> calls[c] # None
      /\ \A c \in Calls : calls'[c] # None /\ IsCrossed(calls'[c]) => calls'[c].crossed
  BY CallsFewer, CrossingFewer
<1>2. \A c \in Calls : calls'[c] # None /\ IsForm(calls'[c]) => calls'[c].crossed
  BY <1>1 DEF IsForm, IsCrossed
<1>3. \A c \in Calls : Flying(c) => (IsForm(calls[c]) <=> IsForm(calls'[c]))
  BY <1>1 DEF Fewer, Same, IsForm, Flying
<1>. QED
  BY <1>1, <1>2, <1>3 DEF Flying

(* A call that is sent is of the fields. *)
LEMMA SendPuts ==
  ASSUME PagesOK, CallsOK, NEW c \in Calls,
         NEW kind \in Kinds,
         NEW x \in Maybe(Codes), Send(c, kind, x)
  PROVE  /\ calls' \in [Calls -> Maybe(Requests)]
         /\ \A d \in Calls \ {c} : calls'[d] = calls[d]
         /\ calls[c] = None /\ calls'[c] \in Requests
         /\ calls'[c].kind = kind /\ calls'[c].email = email
         /\ calls'[c].password = password /\ calls'[c].code = x
         /\ calls'[c].phase = "sent" /\ ~calls'[c].ok
         /\ calls'[c].seat = IF kind \in {"logout", "work"} THEN cookie ELSE None
<1>. DEFINE r == [kind |-> kind, email |-> email, password |-> password, code |-> x,
                  phase |-> "sent", ok |-> FALSE, codes |-> {}, crossed |-> FALSE,
                  seat |-> IF kind \in {"logout", "work"} THEN cookie ELSE None]
<1>1. r \in Requests
  BY DEF PagesOK, Requests, Maybe, Kinds
<1>2. calls' = [calls EXCEPT ![c] = r] /\ calls[c] = None
  BY DEF Send
<1>3. /\ r.kind = kind /\ r.email = email /\ r.password = password /\ r.code = x
      /\ r.phase = "sent" /\ ~r.ok
      /\ r.seat = IF kind \in {"logout", "work"} THEN cookie ELSE None
  OBVIOUS
<1>. HIDE DEF r
<1>. QED
  BY <1>1, <1>2, <1>3 DEF CallsOK, Maybe

(* Fewer calls of the same page, or of one where calls of the kinds left   *)
(* may be, are as good as before.                                          *)
LEMMA FewerOK ==
  ASSUME GateInv, Fewer(calls'),
         \/ page' = page
         \/ page' \in {"gate", "class"} /\ page \in {"gate", "class"},
         \A c \in Calls : calls'[c] # None /\ IsForm(calls'[c]) => disabled',
         page' = page \/ \A c \in Calls :
           calls'[c] # None /\ IsCrossed(calls'[c]) => calls'[c].crossed
  PROVE  CallsOK'
<1>1. \A c \in Calls : calls'[c] # None =>
        /\ Flying(c) /\ Founded(calls[c], page)
        /\ IsForm(calls'[c]) <=> IsForm(calls[c])
        /\ Founded(calls'[c], page')
  BY DEF GateInv, CallsOK, Fewer, Same, SameAnswer, Founded, IsForm, IsCrossed
<1>. QED
  BY <1>1 DEF GateInv, CallsOK, Fewer, Flying

LEMMA NoneOK ==
  ASSUME calls' = [c \in Calls |-> None]
  PROVE  CallsOK'
  BY DEF CallsOK, Flying, Maybe

(***************************************************************************)
(* Type correctness                                                        *)
(***************************************************************************)

LEMMA SendOK ==
  ASSUME GateInv, NEW c \in Calls, NEW x \in Maybe(Codes),
         NEW kind \in Kinds, Send(c, kind, x),
         UNCHANGED page, disabled => disabled',
         kind \in {"register", "lookup"} => ~disabled /\ disabled',
         kind = "register" => page = "register" /\ email # None /\ x # None,
         kind # "register" => page \in {"gate", "class"},
         kind = "lookup" => page = "gate" /\ email # None /\ password # None,
         kind = "login" => email # None /\ x # None,
         kind = "work" => page = "class"
  PROVE  CallsOK'
<1>1. /\ calls' \in [Calls -> Maybe(Requests)]
      /\ \A d \in Calls \ {c} : calls'[d] = calls[d]
      /\ calls'[c].kind = kind /\ calls'[c].email = email
      /\ calls'[c].password = password /\ calls'[c].code = x /\ ~calls'[c].ok
  BY SendPuts DEF GateInv
<1>2. Founded(calls'[c], page')
  BY <1>1 DEF Founded, GateInv, PagesOK, Maybe
<1>3. \A d \in Calls \ {c} : Flying(d) => Founded(calls[d], page')
  BY DEF GateInv, CallsOK
<1>4. \A d \in Calls \ {c} : Flying(d) /\ IsForm(calls[d]) => disabled
  BY DEF GateInv, CallsOK
<1>5. IsForm(calls'[c]) => ~disabled /\ disabled'
  BY <1>1 DEF IsForm
<1>. QED
  BY <1>1, <1>2, <1>3, <1>4, <1>5 DEF GateInv, CallsOK, Flying

(* The page opened by the browser is in its first state. *)
LEMMA OpenOK ==
  ASSUME GateInv, NEW p \in {"register", "starting"}, NEW h \in Maybe(Hints), Open(p, h)
  PROVE  GateInv'
<1>1. CallsOK'
  BY NoneOK DEF Open
<1>2. PagesOK'
  BY DEF Open, GateInv, PagesOK, Maybe
<1>. QED
  BY <1>1, <1>2 DEF GateInv

LEMMA RegisterPageOK ==
  ASSUME GateInv,
         \/ \E e \in Maybe(Emails), x \in Maybe(Codes) : EditRegistration(e, x)
         \/ \E c \in Calls : SubmitRegistration(c)
         \/ Redirect \/ Initialize \/ CourseFails \/ Navigate
  PROVE  GateInv'
<1>1. ASSUME NEW e \in Maybe(Emails), NEW x \in Maybe(Codes), EditRegistration(e, x)
      PROVE  GateInv'
  <2>1. Fewer(calls')
    BY <1>1, CrossingAll DEF EditRegistration, GateInv
  <2>2. CallsOK'
    <3>1. \A c \in Calls : calls'[c] # None /\ IsForm(calls'[c]) => disabled'
      BY <1>1, <2>1 DEF EditRegistration, GateInv, CallsOK, Fewer, Same, IsForm
    <3>. QED
      BY <1>1, <2>1, <3>1, FewerOK DEF EditRegistration
  <2>3. hint' \in Maybe(Hints) /\ (timer => hint' \in Hints)
    <3>1. \A h \in Hints : [h EXCEPT !.hasty = TRUE] \in Hints
      BY DEF Hints
    <3>. QED
      BY <1>1, <3>1 DEF EditRegistration, GateInv, PagesOK, Maybe
  <2>4. PagesOK'
    BY <1>1, <2>3 DEF EditRegistration, GateInv, PagesOK, access, history
  <2>. QED
    BY <2>2, <2>4 DEF GateInv
<1>2. ASSUME NEW c \in Calls, SubmitRegistration(c)
      PROVE  GateInv'
  <2>1. /\ Send(c, "register", code) /\ code \in Maybe(Codes)
        /\ UNCHANGED page /\ ~disabled /\ disabled'
        /\ page = "register" /\ email # None /\ code # None
    BY <1>2 DEF SubmitRegistration, GateInv, PagesOK
  <2>2. CallsOK'
    BY <2>1, SendOK DEF Kinds
  <2>3. PagesOK'
    BY <1>2 DEF SubmitRegistration, GateInv, PagesOK, fields, access, history
  <2>. QED
    BY <2>2, <2>3 DEF GateInv
<1>3. CASE Redirect
  <2>1. hint \in Hints /\ email \in Maybe(Emails) /\ code \in Maybe(Codes)
    BY <1>3 DEF Redirect, GateInv, PagesOK
  <2>2. [hint EXCEPT !.email = email, !.code = code] \in Maybe(Hints)
    BY <2>1 DEF Hints, Maybe
  <2>. QED
    BY <1>3, <2>2, OpenOK DEF Redirect
<1>4. CASE Initialize
  <2>1. page' \in {"class", "gate"} /\ UNCHANGED calls /\ page = "starting"
    BY <1>4 DEF Initialize, Restore, Anonymous
  <2>2. CallsOK'
    BY <2>1 DEF GateInv, CallsOK, Founded, Flying
  <2>3. hint \in Hints => hint.email \in Maybe(Emails)
    BY DEF Hints
  <2>4. PagesOK'
    <3>1. CASE Restore
      <4>1. cookie \in Seats
        BY <3>1 DEF Restore, GateInv, PagesOK, Maybe
      <4>2. cookie[1] \in Emails
        BY <4>1 DEF Seats
      <4>. QED
        BY <1>4, <3>1, <4>1, <4>2, Nulls DEF Restore, Initialize, GateInv, PagesOK, Maybe, history
    <3>2. CASE Anonymous
      <4>1. email' \in Maybe(Emails)
        BY <2>3, <3>2 DEF Anonymous, GateInv, PagesOK, Maybe
      <4>. QED
        BY <1>4, <3>2, <4>1 DEF Anonymous, Initialize, GateInv, PagesOK, Maybe, history
    <3>. QED
      BY <1>4, <3>1, <3>2 DEF Initialize
  <2>. QED
    BY <2>2, <2>4 DEF GateInv
<1>5. CASE CourseFails
  <2>1. CallsOK'
    BY <1>5 DEF CourseFails, GateInv, CallsOK, Founded, Flying
  <2>2. PagesOK'
    BY <1>5 DEF CourseFails, GateInv, PagesOK, fields, access, history
  <2>. QED
    BY <2>1, <2>2 DEF GateInv
<1>6. CASE Navigate
  BY <1>6, OpenOK DEF Navigate, Maybe
<1>. QED
  BY <1>1, <1>2, <1>3, <1>4, <1>5, <1>6

LEMMA LoginPageOK ==
  ASSUME GateInv,
         \/ \E e \in Maybe(Emails), p \in Maybe(Emails) : EditAccess(e, p)
         \/ \E c \in Calls : \/ SubmitLookup(c) \/ ClickLogout(c) \/ ClickWork(c)
                          \/ \E x \in Codes : EnterCohort(c, x)
  PROVE  GateInv'
<1>1. ASSUME NEW e \in Maybe(Emails), NEW p \in Maybe(Emails), EditAccess(e, p)
      PROVE  GateInv'
  <2>1. Fewer(calls')
    BY <1>1, CrossingAll DEF EditAccess, GateInv
  <2>2. CallsOK'
    <3>1. \A c \in Calls : calls'[c] # None /\ IsForm(calls'[c]) => disabled'
      BY <1>1, <2>1 DEF EditAccess, GateInv, CallsOK, Fewer, Same, IsForm
    <3>. QED
      BY <1>1, <2>1, <3>1, FewerOK DEF EditAccess
  <2>3. PagesOK'
    BY <1>1 DEF EditAccess, GateInv, PagesOK, Maybe, history
  <2>. QED
    BY <2>2, <2>3 DEF GateInv
<1>2. ASSUME NEW c \in Calls, SubmitLookup(c)
      PROVE  GateInv'
  <2>1. /\ Send(c, "lookup", None) /\ None \in Maybe(Codes)
        /\ UNCHANGED page /\ ~disabled /\ disabled'
        /\ page = "gate" /\ email # None /\ password # None
    BY <1>2 DEF SubmitLookup, Maybe
  <2>2. CallsOK'
    BY <2>1, SendOK DEF Kinds
  <2>3. PagesOK'
    BY <1>2 DEF SubmitLookup, GateInv, PagesOK, fields, Maybe, history
  <2>. QED
    BY <2>2, <2>3 DEF GateInv
<1>3. ASSUME NEW c \in Calls, NEW x \in Codes, EnterCohort(c, x)
      PROVE  GateInv'
  <2>1. /\ Send(c, "login", x) /\ x \in Maybe(Codes) /\ x # None
        /\ UNCHANGED <<page, disabled>> /\ page = "gate" /\ email # None
    BY <1>3, Nulls DEF EnterCohort, Maybe
  <2>2. CallsOK'
    BY <2>1, SendOK DEF Kinds
  <2>3. PagesOK'
    BY <1>3 DEF EnterCohort, GateInv, PagesOK, fields, access, history
  <2>. QED
    BY <2>2, <2>3 DEF GateInv
<1>4. ASSUME NEW c \in Calls, ClickLogout(c)
      PROVE  GateInv'
  <2>1. /\ Send(c, "logout", None) /\ None \in Maybe(Codes)
        /\ UNCHANGED <<page, disabled>> /\ page = "class"
    BY <1>4 DEF ClickLogout, Maybe
  <2>2. CallsOK'
    BY <2>1, SendOK DEF Kinds
  <2>3. PagesOK'
    BY <1>4 DEF ClickLogout, GateInv, PagesOK, fields, access, history
  <2>. QED
    BY <2>2, <2>3 DEF GateInv
<1>5. ASSUME NEW c \in Calls, ClickWork(c)
      PROVE  GateInv'
  <2>1. /\ Send(c, "work", None) /\ None \in Maybe(Codes)
        /\ UNCHANGED <<page, disabled>> /\ page = "class"
    BY <1>5 DEF ClickWork, Maybe
  <2>2. CallsOK'
    BY <2>1, SendOK DEF Kinds
  <2>3. PagesOK'
    BY <1>5 DEF ClickWork, GateInv, PagesOK, fields, access, history
  <2>. QED
    BY <2>2, <2>3 DEF GateInv
<1>. QED
  BY <1>1, <1>2, <1>3, <1>4, <1>5

(* The calls that are left when c has ended and the others are crossed. *)
LEMMA EndedCrossed ==
  ASSUME GateInv, NEW c \in Calls, calls' = Crossing(Ended(c))
  PROVE  /\ Fewer(calls')
         /\ calls'[c] = None
         /\ \A d \in Calls : calls'[d] # None /\ IsCrossed(calls'[d]) => calls'[d].crossed
<1>1. Fewer(Ended(c)) /\ Ended(c)[c] = None
  BY EndedFewer DEF GateInv
<1>. QED
  BY <1>1, CrossingFewer

LEMMA EndedOK ==
  ASSUME GateInv, NEW c \in Calls, Flying(c),
         calls' = Ended(c) \/ calls' = Crossing(Ended(c))
  PROVE  /\ Fewer(calls')
         /\ calls'[c] = None
         /\ IsForm(calls[c]) => \A d \in Calls : calls'[d] # None => ~IsForm(calls'[d])
<1>1. Fewer(calls') /\ calls'[c] = None
  BY EndedFewer, EndedCrossed DEF GateInv
<1>. QED
  BY <1>1 DEF Fewer, Same, IsForm, GateInv, CallsOK

LEMMA RegistrationOK ==
  ASSUME GateInv, NEW c \in Calls, Flying(c), calls[c].kind = "register",
         RegistrationAnswered(c)
  PROVE  GateInv'
<1>1. calls' = Ended(c) /\ IsForm(calls[c]) /\ UNCHANGED page
  BY DEF RegistrationAnswered, IsForm
<1>2. Fewer(calls') /\ \A d \in Calls : calls'[d] # None => ~IsForm(calls'[d])
  BY <1>1, EndedOK
<1>3. CallsOK'
  BY <1>1, <1>2, FewerOK
<1>4. page = "register" /\ calls[c].crossed \in BOOLEAN
  BY DEF GateInv, CallsOK, Founded, Flying, Maybe, Requests
<1>5. [email |-> None, code |-> None, hasty |-> calls[c].crossed] \in Hints
  BY <1>4 DEF Hints, Maybe
<1>6. PagesOK'
  BY <1>4, <1>5 DEF RegistrationAnswered, Registered, GateInv, PagesOK, fields, access, Maybe, history
<1>. QED
  BY <1>3, <1>6 DEF GateInv

LEMMA LookupOK ==
  ASSUME GateInv, NEW c \in Calls, Flying(c), calls[c].kind = "lookup",
         LookupAnswered(c)
  PROVE  GateInv'
<1>1. calls' = Ended(c) /\ IsForm(calls[c]) /\ UNCHANGED page
  BY DEF LookupAnswered, IsForm
<1>2. Fewer(calls') /\ \A d \in Calls : calls'[d] # None => ~IsForm(calls'[d])
  BY <1>1, EndedOK
<1>3. CallsOK'
  BY <1>1, <1>2, FewerOK
<1>4. calls[c] \in Requests /\ calls[c].email \in Emails
  BY DEF GateInv, CallsOK, Founded, Flying, Maybe
<1>5. [email |-> calls[c].email, codes |-> calls[c].codes, crossed |-> calls[c].crossed] \in Lists
  BY <1>4 DEF Lists, Requests
<1>6. PagesOK'
  BY <1>5 DEF LookupAnswered, GateInv, PagesOK, fields, Maybe, history
<1>. QED
  BY <1>3, <1>6 DEF GateInv

LEMMA LoginOK ==
  ASSUME GateInv, NEW c \in Calls, Flying(c), calls[c].kind = "login",
         LoginAnswered(c)
  PROVE  GateInv'
<1>1. /\ calls' = Ended(c) \/ calls' = Crossing(Ended(c))
      /\ ~IsForm(calls[c]) /\ UNCHANGED disabled
  BY DEF LoginAnswered, IsForm
<1>2. Fewer(calls')
  BY <1>1, EndedOK
<1>3. \A d \in Calls : calls'[d] # None /\ IsForm(calls'[d]) => disabled'
  BY <1>1, <1>2 DEF GateInv, CallsOK, Fewer, Same, IsForm
<1>4. /\ page \in {"gate", "class"}
      /\ calls[c].email \in Emails /\ calls[c].code \in Codes
  BY DEF GateInv, CallsOK, Founded, Flying
<1>5. page' = page \/ page' \in {"gate", "class"}
  BY DEF LoginAnswered, SignIn, Shows
<1>6. CallsOK'
  <2>1. page' = page \/ \A d \in Calls :
          calls'[d] # None /\ IsCrossed(calls'[d]) => calls'[d].crossed
    BY EndedCrossed DEF LoginAnswered
  <2>. QED
    BY <1>2, <1>3, <1>4, <1>5, <2>1, FewerOK
<1>7. PagesOK'
  <2>. DEFINE seat == <<calls[c].email, calls[c].code>>
  <2>1. seat \in Seats /\ seat # None /\ seat[1] \in Emails
    BY <1>4, Nulls DEF Seats
  <2>2. CASE SignIn(seat)
    <3>. HIDE DEF seat
    <3>. QED
      BY <1>4, <2>1, <2>2 DEF LoginAnswered, SignIn, Shows, GateInv, PagesOK, Maybe
  <2>3. CASE UNCHANGED <<page, email, password, access>>
    BY <2>3 DEF LoginAnswered, GateInv, PagesOK, access
  <2>. QED
    BY <2>2, <2>3 DEF LoginAnswered
<1>. QED
  BY <1>6, <1>7 DEF GateInv

LEMMA LogoutOK ==
  ASSUME GateInv, NEW c \in Calls, Flying(c), calls[c].kind = "logout",
         LogoutAnswered(c)
  PROVE  GateInv'
<1>1. /\ calls' = Crossing(Ended(c))
      /\ ~IsForm(calls[c]) /\ UNCHANGED disabled /\ page' = "gate"
  BY DEF LogoutAnswered, IsForm
<1>2. /\ Fewer(calls')
      /\ \A d \in Calls : calls'[d] # None /\ IsCrossed(calls'[d]) => calls'[d].crossed
  BY <1>1, EndedCrossed
<1>3. \A d \in Calls : calls'[d] # None /\ IsForm(calls'[d]) => disabled'
  BY <1>1, <1>2 DEF GateInv, CallsOK, Fewer, Same, IsForm
<1>4. page \in {"gate", "class"}
  BY DEF GateInv, CallsOK, Founded, Flying
<1>5. CallsOK'
  BY <1>1, <1>2, <1>3, <1>4, FewerOK
<1>6. PagesOK'
  BY <1>4 DEF LogoutAnswered, GateInv, PagesOK, Maybe
<1>. QED
  BY <1>5, <1>6 DEF GateInv

LEMMA WorkOK ==
  ASSUME GateInv, NEW c \in Calls, Flying(c), calls[c].kind = "work",
         WorkAnswered(c)
  PROVE  GateInv'
<1>1. /\ calls' = Ended(c) \/ calls' = Crossing(Ended(c))
      /\ ~IsForm(calls[c]) /\ UNCHANGED disabled /\ page' \in {page, "class"}
  BY DEF WorkAnswered, Shows, IsForm, access
<1>2. Fewer(calls')
  BY <1>1, EndedOK
<1>3. \A d \in Calls : calls'[d] # None /\ IsForm(calls'[d]) => disabled'
  BY <1>1, <1>2 DEF GateInv, CallsOK, Fewer, Same, IsForm
<1>4. /\ page \in {"gate", "class"} /\ calls[c].crossed \in BOOLEAN
      /\ calls[c].ok => calls[c].seat \in Seats
  BY DEF GateInv, CallsOK, Founded, Flying, Maybe, Requests
<1>5. CallsOK'
  <2>1. page' = page \/ calls' = Crossing(Ended(c))
    <3>1. calls[c].ok /\ student' = student => student # None
      BY <1>4, Nulls DEF WorkAnswered, Shows
    <3>. QED
      BY <3>1 DEF WorkAnswered, Shows, GateInv, PagesOK
  <2>2. page' = page \/ \A d \in Calls :
          calls'[d] # None /\ IsCrossed(calls'[d]) => calls'[d].crossed
    BY <2>1, EndedCrossed
  <2>. QED
    BY <1>1, <1>2, <1>3, <1>4, <2>2, FewerOK
<1>6. PagesOK'
  <2>. DEFINE seat == calls[c].seat
  <2>1. CASE calls[c].ok
    <3>1. seat \in Seats /\ seat # None /\ seat[1] \in Emails
      BY <1>4, <2>1, Nulls DEF Seats
    <3>2. Shows(seat)
      BY <2>1 DEF WorkAnswered
    <3>3. revived' \in BOOLEAN
      BY <2>1 DEF WorkAnswered
    <3>4. UNCHANGED <<password, code, disabled, timer, hint, cookie, enrolled, mixed>>
      BY DEF WorkAnswered
    <3>. HIDE DEF seat
    <3>. QED
      BY <1>4, <3>1, <3>2, <3>3, <3>4 DEF Shows, GateInv, PagesOK, Maybe
  <2>2. CASE ~calls[c].ok
    BY <2>2 DEF WorkAnswered, GateInv, PagesOK, access
  <2>. QED
    BY <2>1, <2>2
<1>. QED
  BY <1>5, <1>6 DEF GateInv

(* Only the call that is handled or received goes on, with the same form.  *)
LEMMA MovesOn ==
  ASSUME GateInv, NEW c \in Calls, Handle(c) \/ Receive(c)
  PROVE  /\ Flying(c)
         /\ calls' \in [Calls -> Maybe(Requests)]
         /\ \A d \in Calls \ {c} : calls'[d] = calls[d]
         /\ calls'[c] \in Requests /\ Same(calls[c], calls'[c])
         /\ Receive(c) => calls'[c].phase = "received" /\ calls'[c].ok = calls[c].ok
         /\ Handle(c) => /\ calls[c].phase = "sent" /\ calls'[c].phase = "handled"
                         /\ calls[c].kind = "lookup" /\ calls'[c].ok =>
                              calls[c].password = calls[c].email
                         /\ calls[c].kind = "work" /\ calls'[c].ok => calls[c].seat # None
                         /\ calls[c].kind = "register" /\ calls'[c].ok =>
                              <<calls[c].email, calls[c].code>> \in enrolled'
<1>1. calls \in [Calls -> Maybe(Requests)]
  BY DEF GateInv, CallsOK
<1>2. Flying(c) /\ calls[c] \in Requests
  BY <1>1 DEF Handle, Receive, Flying, Maybe
<1>3. CASE Receive(c)
  <2>. DEFINE q == [calls[c] EXCEPT !.phase = "received"]
  <2>1. /\ q \in Requests /\ Same(calls[c], q)
        /\ q.phase = "received" /\ q.ok = calls[c].ok
    BY <1>2 DEF Requests, Same
  <2>2. calls' = [calls EXCEPT ![c] = q]
    BY <1>3 DEF Receive
  <2>3. ~Handle(c)
    BY <1>3 DEF Receive, Handle
  <2>. HIDE DEF q
  <2>. QED
    BY <1>1, <1>2, <2>1, <2>2, <2>3 DEF Maybe
<1>4. CASE Handle(c)
  <2>1. PICK ok \in BOOLEAN, codes \in SUBSET Taught(calls[c].email) :
          /\ calls' = [calls EXCEPT ![c].phase = "handled", ![c].ok = ok, ![c].codes = codes]
          /\ calls[c].kind = "lookup" /\ ok => calls[c].password = calls[c].email
          /\ calls[c].kind = "work" /\ ok => calls[c].seat # None
          /\ enrolled' = IF calls[c].kind = "register" /\ ok
                         THEN enrolled \cup {<<calls[c].email, calls[c].code>>} ELSE enrolled
    BY <1>4 DEF Handle
  <2>. DEFINE q == [calls[c] EXCEPT !.phase = "handled", !.ok = ok, !.codes = codes]
  <2>2. codes \in SUBSET Codes
    BY DEF Taught
  <2>3. /\ q \in Requests /\ Same(calls[c], q)
        /\ q.phase = "handled" /\ q.ok = ok
    BY <1>2, <2>2 DEF Requests, Same
  <2>4. calls' = [calls EXCEPT ![c] = q]
    BY <1>1, <2>1
  <2>. HIDE DEF q
  <2>5. calls[c].phase = "sent" /\ ~Receive(c)
    BY <1>4 DEF Handle, Receive
  <2>. QED
    BY <1>1, <1>2, <2>1, <2>3, <2>4, <2>5 DEF Maybe
<1>. QED
  BY <1>3, <1>4

LEMMA ServerOK ==
  ASSUME GateInv, NEW c \in Calls, Handle(c) \/ Receive(c)
  PROVE  GateInv'
<1>1. UNCHANGED <<page, fields, disabled, timer, hint, access, history>>
  BY DEF Handle, Receive
<1>2. /\ Flying(c)
      /\ calls' \in [Calls -> Maybe(Requests)]
      /\ \A d \in Calls \ {c} : calls'[d] = calls[d]
      /\ calls'[c] \in Requests /\ Same(calls[c], calls'[c])
      /\ calls[c].kind = "work" /\ calls'[c].ok => calls[c].ok \/ calls[c].seat # None
  BY MovesOn
<1>3. /\ IsForm(calls'[c]) <=> IsForm(calls[c])
      /\ Founded(calls'[c], page')
  <2>1. calls'[c].seat \in Maybe(Seats)
    BY <1>2 DEF Requests
  <2>. QED
    BY <1>1, <1>2, <2>1, Nulls DEF Same, IsForm, Founded, GateInv, CallsOK, Maybe
<1>4. CallsOK'
  BY <1>1, <1>2, <1>3 DEF GateInv, CallsOK, Flying
<1>5. /\ calls[c].kind = "register" => <<calls[c].email, calls[c].code>> \in Seats
      /\ calls[c].kind = "login" => <<calls[c].email, calls[c].code>> \in Seats
  BY <1>2 DEF GateInv, CallsOK, Founded, Seats
<1>6. enrolled' \subseteq Seats
  BY <1>5 DEF Handle, Receive, GateInv, PagesOK
<1>7. cookie' \in Maybe(Seats)
  BY <1>5 DEF Handle, Receive, SetsCookie, GateInv, PagesOK, Maybe
<1>8. PagesOK'
  BY <1>1, <1>6, <1>7 DEF GateInv, PagesOK, fields, access, history
<1>. QED
  BY <1>4, <1>8 DEF GateInv

LEMMA AnswersOK ==
  ASSUME GateInv, NEW c \in Calls, Arrive(c) \/ CallFails(c)
  PROVE  GateInv'
<1>1. /\ Flying(c)
      /\ calls[c].kind \in Kinds
  BY DEF Arrive, CallFails, Flying, GateInv, CallsOK, Maybe, Requests, Kinds
<1>2. CASE Arrive(c)
  BY <1>1, <1>2, RegistrationOK, LookupOK, LoginOK, LogoutOK, WorkOK
     DEF Arrive, Answered, Kinds
<1>3. CASE CallFails(c) /\ calls[c].kind = "logout"
  BY <1>1, <1>3, LogoutOK DEF CallFails
<1>4. CASE CallFails(c) /\ calls[c].kind # "logout"
  <2>1. /\ calls' = Ended(c) /\ UNCHANGED page
        /\ disabled' = (disabled /\ calls[c].kind \in {"login", "work"})
    BY <1>4 DEF CallFails
  <2>2. /\ Fewer(calls')
        /\ IsForm(calls[c]) => \A d \in Calls : calls'[d] # None => ~IsForm(calls'[d])
    BY <1>1, <2>1, EndedOK
  <2>3. \A d \in Calls : calls'[d] # None /\ IsForm(calls'[d]) => disabled'
    BY <1>1, <1>4, <2>1, <2>2 DEF GateInv, CallsOK, Fewer, Same, IsForm, Kinds
  <2>4. CallsOK'
    BY <2>1, <2>2, <2>3, FewerOK
  <2>5. PagesOK'
    BY <1>4 DEF CallFails, GateInv, PagesOK, fields, history
  <2>. QED
    BY <2>4, <2>5 DEF GateInv
<1>. QED
  BY <1>2, <1>3, <1>4

LEMMA GateStepOK == GateInv /\ [Next]_vars => GateInv'
<1>1. ASSUME GateInv, UNCHANGED vars  PROVE  GateInv'
  BY <1>1 DEF vars, fields, access, GateInv, PagesOK, CallsOK, Flying, history
<1>2. ASSUME GateInv, Next  PROVE  GateInv'
  BY <1>2, RegisterPageOK, LoginPageOK, ServerOK, AnswersOK DEF Next, Settle
<1>. QED
  BY <1>1, <1>2

(* Every reachable state of the two pages is well typed; one form at most  *)
(* is in flight, with its button disabled.                                 *)
THEOREM GateTypeCorrect == Spec => []GateTypeOK
  BY GateInitOK, GateStepOK, GateInvTypes, PTL DEF Spec

(***************************************************************************)
(* The cohorts on the page                                                 *)
(***************************************************************************)

Looks(c) == Flying(c) /\ calls[c].kind = "lookup"

(* Without a lookup in flight the buttons are those of state.accessLookup; *)
(* during one there is none, and the form is the one it was sent with, or  *)
(* it counts as crossed.                                                   *)
PickerInv ==
  /\ page \notin {"gate", "class"} => picker = None /\ lookup = None
  /\ page = "gate" /\ (\A c \in Calls : ~Looks(c)) => picker = lookup
  /\ \A c \in Calls : Looks(c) =>
       /\ lookup = None
       /\ ~calls[c].crossed => calls[c].email = email /\ calls[c].password = password
       /\ calls[c].ok => calls[c].password = calls[c].email
  /\ page = "gate" /\ picker # None /\ ~picker.crossed /\ (\A c \in Calls : ~Looks(c))
       => email = picker.email /\ password = picker.email

LEMMA PickerAway ==
  ASSUME GateInv', page' \notin {"gate", "class"}, picker' = None, lookup' = None
  PROVE  PickerInv'
<1>1. \A c \in Calls : ~Looks(c)'
  BY DEF Looks, Flying, GateInv, CallsOK, Founded
<1>. QED
  BY <1>1 DEF PickerInv

LEMMA PickerCalm ==
  ASSUME PickerInv, UNCHANGED <<page, email, password, lookup, picker>>,
         \A c \in Calls : Looks(c) => calls'[c] # None /\ calls'[c].kind = "lookup",
         \A c \in Calls : calls'[c] # None /\ calls'[c].kind = "lookup" =>
           /\ Flying(c) /\ Same(calls[c], calls'[c])
           /\ calls'[c].ok => calls[c].ok \/ calls[c].password = calls[c].email
  PROVE  PickerInv'
<1>1. \A c \in Calls : Looks(c)' <=> calls'[c] # None /\ calls'[c].kind = "lookup"
  BY DEF Looks, Flying
<1>2. \A c \in Calls : Looks(c) <=> Looks(c)'
  BY <1>1 DEF Looks, Same
<1>3. ASSUME NEW c \in Calls, Looks(c)'
      PROVE  /\ lookup' = None
             /\ ~calls'[c].crossed => calls'[c].email = email' /\ calls'[c].password = password'
             /\ calls'[c].ok => calls'[c].password = calls'[c].email
  BY <1>1, <1>2, <1>3 DEF PickerInv, Same
<1>. QED
  BY <1>2, <1>3 DEF PickerInv

(* A page without a list, whose form, if one is in flight, is crossed.     *)
LEMMA PickerCleared ==
  ASSUME GateInv, PickerInv, Fewer(calls'), lookup' = None, picker' = None,
         \A c \in Calls : calls'[c] # None /\ IsForm(calls'[c]) => calls'[c].crossed
  PROVE  PickerInv'
<1>1. ASSUME NEW c \in Calls, Looks(c)'
      PROVE  /\ calls'[c].crossed
             /\ calls'[c].ok => calls'[c].password = calls'[c].email
  BY <1>1 DEF Looks, Flying, Fewer, Same, SameAnswer, IsForm, PickerInv
<1>. QED
  BY <1>1 DEF PickerInv

LEMMA PickerStep ==
  ASSUME GateInv, GateInv', PickerInv, Next
  PROVE  PickerInv'
<1>1. CASE \/ \E e \in Maybe(Emails), x \in Maybe(Codes) : EditRegistration(e, x)
           \/ \E c \in Calls : SubmitRegistration(c)
           \/ Redirect \/ CourseFails \/ Navigate
  <2>1. page' \notin {"gate", "class"} /\ picker' = None /\ lookup' = None
    <3>1. CASE \/ \E e \in Maybe(Emails), x \in Maybe(Codes) : EditRegistration(e, x)
               \/ \E c \in Calls : SubmitRegistration(c)
               \/ CourseFails
      BY <3>1 DEF EditRegistration, SubmitRegistration, CourseFails, PickerInv, access
    <3>2. CASE Redirect \/ Navigate
      BY <3>2 DEF Redirect, Navigate, Open
    <3>. QED
      BY <1>1, <3>1, <3>2
  <2>. QED
    BY <2>1, PickerAway
<1>2. CASE Initialize
  <2>1. page = "starting" /\ UNCHANGED <<lookup, picker, calls>>
    BY <1>2 DEF Initialize
  <2>2. \A c \in Calls : ~Flying(c)
    BY <2>1 DEF GateInv, CallsOK, Founded
  <2>3. Fewer(calls')
    BY <2>1, CallsFewer DEF GateInv
  <2>. QED
    BY <2>1, <2>2, <2>3, PickerCleared DEF PickerInv, Flying
<1>3. ASSUME NEW e \in Maybe(Emails), NEW p \in Maybe(Emails), EditAccess(e, p)
      PROVE  PickerInv'
  <2>1. /\ Fewer(calls')
        /\ \A c \in Calls : Flying(c) <=> calls'[c] # None
        /\ \A c \in Calls : Flying(c) /\ IsForm(calls[c]) => calls'[c].crossed
    BY <1>3, CrossingAll DEF EditAccess, GateInv
  <2>2. \A c \in Calls : calls'[c] # None /\ IsForm(calls'[c]) => calls'[c].crossed
    BY <2>1 DEF Fewer, Same, IsForm
  <2>3. CASE lookup # None
    BY <1>3, <2>1, <2>2, <2>3, PickerCleared DEF EditAccess
  <2>4. CASE lookup = None
    <3>1. \A c \in Calls : Looks(c) <=> Looks(c)'
      BY <2>1 DEF Looks, Fewer, Same, Flying
    <3>2. ASSUME NEW c \in Calls, Looks(c)'
          PROVE  /\ calls'[c].crossed
                 /\ calls'[c].ok => calls'[c].password = calls'[c].email
      BY <2>1, <3>1, <3>2 DEF Looks, Flying, Fewer, Same, SameAnswer, IsForm, PickerInv
    <3>3. UNCHANGED <<page, lookup, picker>>
      BY <1>3, <2>4 DEF EditAccess
    <3>. QED
      BY <2>4, <3>1, <3>2, <3>3 DEF PickerInv
  <2>. QED
    BY <2>3, <2>4
<1>4. ASSUME NEW c \in Calls, SubmitLookup(c)
      PROVE  PickerInv'
  <2>1. /\ Send(c, "lookup", None) /\ None \in Maybe(Codes) /\ page = "gate" /\ ~disabled
        /\ UNCHANGED <<page, email, password>> /\ lookup' = None
    BY <1>4 DEF SubmitLookup, Maybe, fields
  <2>2. /\ \A d \in Calls \ {c} : calls'[d] = calls[d]
        /\ calls'[c] \in Requests
        /\ calls'[c].kind = "lookup" /\ calls'[c].email = email
        /\ calls'[c].password = password /\ ~calls'[c].ok
    BY <2>1, SendPuts DEF GateInv, Kinds
  <2>3. calls'[c] # None
    BY <2>2, Nulls
  <2>4. \A d \in Calls \ {c} : ~Looks(d)
    BY <2>1 DEF Looks, GateInv, CallsOK, IsForm
  <2>5. \A d \in Calls : Looks(d)' <=> d = c
    BY <2>2, <2>3, <2>4 DEF Looks, Flying
  <2>. QED
    BY <2>1, <2>2, <2>5 DEF PickerInv
<1>5. ASSUME NEW c \in Calls, NEW x \in Maybe(Codes), NEW kind \in {"login", "logout", "work"},
             Send(c, kind, x), UNCHANGED <<page, email, password, lookup, picker>>
      PROVE  PickerInv'
  <2>1. /\ \A d \in Calls \ {c} : calls'[d] = calls[d]
        /\ calls[c] = None /\ calls'[c].kind = kind
    BY <1>5, SendPuts DEF GateInv, Kinds
  <2>2. \A d \in Calls : Looks(d) \/ (calls'[d] # None /\ calls'[d].kind = "lookup")
          => calls'[d] = calls[d]
    BY <2>1 DEF Looks, Flying
  <2>. QED
    BY <1>5, <2>2, PickerCalm DEF Looks, Flying, Same
<1>6. ASSUME NEW c \in Calls,
             ClickLogout(c) \/ ClickWork(c) \/ \E x \in Codes : EnterCohort(c, x)
      PROVE  PickerInv'
  <2>1. UNCHANGED <<page, email, password, lookup, picker>>
    BY <1>6 DEF ClickLogout, ClickWork, EnterCohort, fields, access
  <2>2. Codes \subseteq Maybe(Codes) /\ None \in Maybe(Codes)
    BY DEF Maybe
  <2>. QED
    BY <1>5, <1>6, <2>1, <2>2 DEF ClickLogout, ClickWork, EnterCohort
<1>7. ASSUME NEW c \in Calls, Handle(c) \/ Receive(c)
      PROVE  PickerInv'
  <2>1. UNCHANGED <<page, email, password, lookup, picker>>
    BY <1>7 DEF Handle, Receive, fields, access, history
  <2>2. /\ Flying(c) /\ calls'[c] \in Requests
        /\ \A d \in Calls \ {c} : calls'[d] = calls[d]
        /\ Same(calls[c], calls'[c])
        /\ calls'[c].ok => calls[c].ok \/ calls[c].kind # "lookup" \/ calls[c].password = calls[c].email
    BY <1>7, MovesOn
  <2>3. \A d \in Calls : Looks(d) => calls'[d] # None /\ calls'[d].kind = "lookup"
    BY <2>2, Nulls DEF Looks, Flying, Same
  <2>4. \A d \in Calls : calls'[d] # None /\ calls'[d].kind = "lookup" =>
           /\ Flying(d) /\ Same(calls[d], calls'[d])
           /\ calls'[d].ok => calls[d].ok \/ calls[d].password = calls[d].email
    BY <2>2 DEF Flying, Same
  <2>. QED
    BY <2>1, <2>3, <2>4, PickerCalm
<1>8. ASSUME NEW c \in Calls, Flying(c), calls[c].kind # "lookup", calls' = Ended(c),
             UNCHANGED <<page, email, password, lookup, picker>>
      PROVE  PickerInv'
  <2>1. \A d \in Calls : Looks(d) => calls'[d] = calls[d]
    BY <1>8 DEF Ended, Looks, GateInv, CallsOK
  <2>2. \A d \in Calls : calls'[d] # None => calls'[d] = calls[d]
    BY <1>8 DEF Ended, GateInv, CallsOK
  <2>. QED
    BY <1>8, <2>1, <2>2, PickerCalm DEF Looks, Flying, Same
<1>9. ASSUME NEW c \in Calls, Flying(c), calls[c].kind = "lookup", calls' = Ended(c),
             UNCHANGED <<page, email, password>>,
             \/ page = "class"
             \/ picker' = lookup' /\ (lookup' # None /\ ~lookup'.crossed =>
                                        email = lookup'.email /\ password = lookup'.email)
      PROVE  PickerInv'
  <2>1. \A d \in Calls : ~Looks(d)'
    BY <1>9, EndedOK DEF Looks, Flying, IsForm
  <2>2. page \in {"gate", "class"}
    BY <1>9 DEF GateInv, CallsOK, Founded
  <2>. QED
    BY <1>9, <2>1, <2>2 DEF PickerInv
<1>10. ASSUME NEW c \in Calls, Flying(c), calls[c].kind = "logout", LogoutAnswered(c)
       PROVE  PickerInv'
  <2>1. calls' = Crossing(Ended(c)) /\ lookup' = None /\ picker' = None
    BY <1>10 DEF LogoutAnswered
  <2>. QED
    BY <1>10, <2>1, EndedCrossed, PickerCleared DEF IsForm, IsCrossed
<1>11. ASSUME NEW c \in Calls, Flying(c), calls[c].kind = "login", LoginAnswered(c)
       PROVE  PickerInv'
  <2>1. CASE calls[c].ok
    <3>1. calls' = Crossing(Ended(c)) /\ lookup' = None /\ picker' = None
      BY <1>11, <2>1 DEF LoginAnswered, SignIn, Shows
    <3>. QED
      BY <1>11, <3>1, EndedCrossed, PickerCleared DEF IsForm, IsCrossed
  <2>2. CASE ~calls[c].ok
    <3>1. calls' = Ended(c) /\ UNCHANGED <<page, email, password, lookup, picker>>
      BY <1>11, <2>2 DEF LoginAnswered, access
    <3>. QED
      BY <1>8, <1>11, <3>1
  <2>. QED
    BY <2>1, <2>2
<1>12. ASSUME NEW c \in Calls, Flying(c), calls[c].kind = "lookup", LookupAnswered(c)
       PROVE  PickerInv'
  <2>1. calls' = Ended(c) /\ UNCHANGED <<page, email, password>>
    BY <1>12 DEF LookupAnswered, fields
  <2>2. CASE page = "class"
    BY <1>9, <1>12, <2>1, <2>2
  <2>3. CASE page # "class"
    <3>1. page = "gate" /\ student = None
      BY <1>12, <2>3 DEF GateInv, CallsOK, PagesOK, Founded
    <3>2. picker' = lookup'
      BY <1>12, <3>1 DEF LookupAnswered
    <3>3. CASE ~calls[c].ok
      BY <1>9, <1>12, <2>1, <3>2, <3>3 DEF LookupAnswered, PickerInv, Looks
    <3>4. CASE calls[c].ok
      <4>1. /\ lookup'.email = calls[c].email /\ lookup'.crossed = calls[c].crossed
        BY <1>12, <3>4 DEF LookupAnswered
      <4>2. ~calls[c].crossed => email = calls[c].email /\ password = calls[c].email
        BY <1>12, <3>4 DEF PickerInv, Looks
      <4>. QED
        BY <1>9, <1>12, <2>1, <3>2, <4>1, <4>2
    <3>. QED
      BY <3>3, <3>4
  <2>. QED
    BY <2>2, <2>3
<1>16. ASSUME NEW c \in Calls, Flying(c), calls[c].kind = "work", WorkAnswered(c)
       PROVE  PickerInv'
  <2>1. CASE ~calls[c].ok
    <3>1. calls' = Ended(c) /\ UNCHANGED <<page, email, password, lookup, picker>>
      BY <1>16, <2>1 DEF WorkAnswered, access
    <3>. QED
      BY <1>8, <1>16, <3>1
  <2>2. CASE calls[c].ok /\ calls' = Crossing(Ended(c))
    <3>1. lookup' = None /\ picker' = None
      BY <1>16, <2>2 DEF WorkAnswered, Shows
    <3>. QED
      BY <1>16, <2>2, <3>1, EndedCrossed, PickerCleared DEF IsForm, IsCrossed
  <2>3. CASE calls[c].ok /\ calls' = Ended(c) /\ student' = student
    <3>1. lookup' = None /\ picker' = None /\ student = calls[c].seat
      BY <1>16, <2>3 DEF WorkAnswered, Shows
    <3>2. page = "class"
      BY <1>16, <2>3, <3>1, Nulls DEF GateInv, PagesOK, CallsOK, Founded
    <3>3. Fewer(calls')
      BY <1>16, <2>3, EndedOK
    <3>4. \A d \in Calls : calls'[d] # None /\ IsForm(calls'[d]) => calls'[d].crossed
      BY <2>3, <3>2, EndedSame DEF GateInv, CallsOK, Founded, IsForm, Flying
    <3>. QED
      BY <3>1, <3>3, <3>4, PickerCleared
  <2>. QED
    BY <1>16, <2>1, <2>2, <2>3 DEF WorkAnswered
<1>13. ASSUME NEW c \in Calls, Flying(c), calls[c].kind = "register",
              calls' = Ended(c), UNCHANGED <<page, email, password, lookup, picker>>
       PROVE  PickerInv'
  BY <1>8, <1>13
<1>14. ASSUME NEW c \in Calls, Arrive(c)
       PROVE  PickerInv'
  <2>1. Flying(c) /\ calls[c].kind \in Kinds
    BY <1>14 DEF Arrive, Flying, GateInv, CallsOK, Maybe, Requests, Kinds
  <2>2. CASE calls[c].kind = "register"
    <3>1. RegistrationAnswered(c)
      BY <1>14, <2>2 DEF Arrive, Answered
    <3>. QED
      BY <1>13, <2>1, <2>2, <3>1 DEF RegistrationAnswered, fields, access, history
  <2>. QED
    BY <1>10, <1>11, <1>12, <1>14, <1>16, <2>1, <2>2 DEF Arrive, Answered, Kinds
<1>15. ASSUME NEW c \in Calls, CallFails(c)
       PROVE  PickerInv'
  <2>1. Flying(c)
    BY <1>15 DEF CallFails, Flying
  <2>2. CASE calls[c].kind = "logout"
    BY <1>10, <1>15, <2>1, <2>2 DEF CallFails
  <2>3. CASE calls[c].kind = "lookup"
    <3>1. /\ calls' = Ended(c) /\ UNCHANGED <<page, email, password, lookup>>
          /\ picker' = lookup
      BY <1>15, <2>3 DEF CallFails, fields
    <3>2. lookup = None
      BY <2>1, <2>3 DEF PickerInv, Looks
    <3>. QED
      BY <1>9, <2>1, <2>3, <3>1, <3>2
  <2>4. CASE calls[c].kind \notin {"lookup", "logout"}
    <3>1. calls' = Ended(c) /\ UNCHANGED <<page, email, password, lookup, picker>>
      BY <1>15, <2>4 DEF CallFails, fields
    <3>. QED
      BY <1>8, <2>1, <2>4, <3>1
  <2>. QED
    BY <2>2, <2>3, <2>4
<1>. QED
  BY <1>1, <1>2, <1>3, <1>4, <1>6, <1>7, <1>14, <1>15 DEF Next, Settle

(* The cohorts a student can pick are those of the credentials on the      *)
(* form, for any number of students, cohorts and calls in flight.          *)
THEOREM PickerOfForm == Spec => []PickerIsOfForm
<1>1. Init => PickerInv
  BY DEF Init, PickerInv, Looks, Flying
<1>2. GateInv /\ GateInv' /\ PickerInv /\ [Next]_vars => PickerInv'
  <2>1. ASSUME PickerInv, UNCHANGED vars  PROVE  PickerInv'
    BY <2>1 DEF vars, fields, access, PickerInv, Looks, Flying
  <2>. QED
    BY <2>1, PickerStep
<1>3. PickerInv => PickerIsOfForm
  BY DEF PickerInv, PickerIsOfForm, InFlight, Looks, Flying
<1>. QED
  BY <1>1, <1>2, <1>3, GateInitOK, GateStepOK, PTL DEF Spec

(***************************************************************************)
(* The redirect                                                            *)
(***************************************************************************)

Registering(c) == Flying(c) /\ calls[c].kind = "register"

(* While the redirect waits the fields are those of a registration that    *)
(* was made, unless they were edited, and so will they be when the answer  *)
(* of one that was granted arrives.                                        *)
HintInv ==
  /\ HintIsRegistered
  /\ timer /\ ~hint.hasty => <<email, code>> \in enrolled
  /\ \A c \in Calls : Registering(c) =>
       /\ ~calls[c].crossed => calls[c].email = email /\ calls[c].code = code
       /\ calls[c].ok => <<calls[c].email, calls[c].code>> \in enrolled

LEMMA HintAway ==
  ASSUME GateInv', page' \in {"gate", "class", "dead"}
  PROVE  HintInv'
<1>1. \A c \in Calls : ~Registering(c)'
  BY DEF Registering, Flying, GateInv, CallsOK, Founded
<1>2. ~timer'
  BY DEF GateInv, PagesOK
<1>. QED
  BY <1>1, <1>2 DEF HintInv, HintIsRegistered

LEMMA HintStep ==
  ASSUME GateInv, GateInv', HintInv, Next
  PROVE  HintInv'
<1>1. CASE page' \in {"gate", "class", "dead"}
  BY <1>1, HintAway
<1>2. CASE page = "register" /\ page' = "register"
  <2>1. ~HintIsRegistered' => FALSE
    BY <1>2 DEF HintIsRegistered
  <2>2. ASSUME NEW e \in Maybe(Emails), NEW x \in Maybe(Codes), EditRegistration(e, x)
        PROVE  HintInv'
    <3>1. /\ Fewer(calls')
          /\ \A c \in Calls : Flying(c) /\ IsForm(calls[c]) => calls'[c].crossed
      BY <2>2, CrossingAll DEF EditRegistration, GateInv
    <3>2. ASSUME NEW c \in Calls, Registering(c)'
          PROVE  /\ calls'[c].crossed
                 /\ calls'[c].ok => <<calls'[c].email, calls'[c].code>> \in enrolled'
      BY <2>2, <3>1, <3>2 DEF EditRegistration, Registering, Flying, Fewer, Same, SameAnswer,
                              IsForm, HintInv
    <3>3. timer' => hint'.hasty
      <4>1. \A h \in Hints : [h EXCEPT !.hasty = TRUE].hasty
        BY DEF Hints
      <4>. QED
        BY <2>2, <4>1 DEF EditRegistration, GateInv, PagesOK
    <3>. QED
      BY <2>1, <3>2, <3>3 DEF HintInv
  <2>3. ASSUME NEW c \in Calls, SubmitRegistration(c)
        PROVE  HintInv'
    <3>1. /\ Send(c, "register", code) /\ code \in Maybe(Codes)
          /\ UNCHANGED <<email, code, timer, hint, enrolled>>
      BY <2>3 DEF SubmitRegistration, GateInv, PagesOK, fields
    <3>2. /\ \A d \in Calls \ {c} : calls'[d] = calls[d]
          /\ calls'[c].email = email /\ calls'[c].code = code /\ ~calls'[c].ok
      BY <3>1, SendPuts DEF GateInv, Kinds
    <3>. QED
      BY <2>1, <3>1, <3>2 DEF HintInv, Registering, Flying
  <2>4. ASSUME NEW c \in Calls, Handle(c) \/ Receive(c)
        PROVE  HintInv'
    <3>1. UNCHANGED <<email, code, timer, hint>> /\ enrolled \subseteq enrolled'
      BY <2>4 DEF Handle, Receive, fields
    <3>2. /\ Flying(c) /\ Same(calls[c], calls'[c])
          /\ \A d \in Calls \ {c} : calls'[d] = calls[d]
          /\ calls'[c].ok => \/ calls[c].ok
                             \/ calls[c].kind # "register"
                             \/ <<calls[c].email, calls[c].code>> \in enrolled'
      BY <2>4, MovesOn
    <3>3. ASSUME NEW d \in Calls, Registering(d)'
          PROVE  /\ ~calls'[d].crossed => calls'[d].email = email' /\ calls'[d].code = code'
                 /\ calls'[d].ok => <<calls'[d].email, calls'[d].code>> \in enrolled'
      <4>1. CASE d = c
        BY <3>1, <3>2, <3>3, <4>1 DEF HintInv, Registering, Flying, Same
      <4>2. CASE d # c
        BY <3>1, <3>2, <3>3, <4>2 DEF HintInv, Registering, Flying
      <4>. QED
        BY <4>1, <4>2
    <3>4. timer' /\ ~hint'.hasty => <<email', code'>> \in enrolled'
      BY <3>1 DEF HintInv
    <3>. QED
      BY <2>1, <3>3, <3>4 DEF HintInv
  <2>5. ASSUME NEW c \in Calls, Arrive(c) \/ CallFails(c)
        PROVE  HintInv'
    <3>1. /\ Flying(c) /\ calls[c].kind = "register"
      BY <1>2, <2>5 DEF Arrive, CallFails, Flying, GateInv, CallsOK, Founded
    <3>2. calls' = Ended(c) /\ UNCHANGED <<email, code, enrolled>>
      BY <2>5, <3>1 DEF Arrive, Answered, RegistrationAnswered, CallFails, fields
    <3>3. \A d \in Calls : ~Registering(d)'
      BY <3>1, <3>2, EndedOK DEF Registering, Flying, IsForm
    <3>4. \/ UNCHANGED <<timer, hint>>
          \/ calls[c].ok /\ hint' = [email |-> None, code |-> None, hasty |-> calls[c].crossed]
      BY <2>5, <3>1 DEF Arrive, Answered, RegistrationAnswered, Registered, CallFails
    <3>5. timer' /\ ~hint'.hasty => <<email', code'>> \in enrolled'
      <4>1. CASE UNCHANGED <<timer, hint>>
        BY <3>2, <4>1 DEF HintInv
      <4>2. CASE calls[c].ok /\ hint' = [email |-> None, code |-> None, hasty |-> calls[c].crossed]
        <5>1. ~hint'.hasty => ~calls[c].crossed
          BY <4>2
        <5>. QED
          BY <3>1, <3>2, <4>2, <5>1 DEF HintInv, Registering
      <4>. QED
        BY <3>4, <4>1, <4>2
    <3>. QED
      BY <2>1, <3>3, <3>5 DEF HintInv
  <2>6. ASSUME NEW c \in Calls, NEW x \in Codes,
               SubmitLookup(c) \/ ClickLogout(c) \/ EnterCohort(c, x)
        PROVE  FALSE
    BY <1>2, <2>6 DEF SubmitLookup, ClickLogout, EnterCohort
  <2>7. ASSUME NEW c \in Calls, SubmitLookup(c) \/ ClickLogout(c) \/ ClickWork(c)
        PROVE  FALSE
    BY <1>2, <2>7 DEF SubmitLookup, ClickLogout, ClickWork
  <2>8. ASSUME NEW e \in Maybe(Emails), NEW p \in Maybe(Emails), EditAccess(e, p)
        PROVE  FALSE
    BY <1>2, <2>8 DEF EditAccess
  <2>9. ~Redirect /\ ~Initialize /\ ~CourseFails /\ ~Navigate
    BY <1>2 DEF Redirect, Initialize, CourseFails, Navigate, Open
  <2>. QED
    BY <2>2, <2>3, <2>4, <2>5, <2>6, <2>7, <2>8, <2>9 DEF Next, Settle
<1>3. CASE Redirect \/ Navigate
  <2>1. ~timer' /\ UNCHANGED enrolled /\ (\A c \in Calls : ~Registering(c)')
    BY <1>3 DEF Redirect, Navigate, Open, Registering, Flying
  <2>2. CASE Redirect
    <3>1. /\ timer /\ hint \in Hints
          /\ hint' = [hint EXCEPT !.email = email, !.code = code]
      BY <2>2 DEF Redirect, Open, GateInv, PagesOK
    <3>2. hint'.email = email /\ hint'.code = code
      BY <3>1 DEF Hints
    <3>3. hint'.hasty = hint.hasty
      BY <3>1 DEF Hints
    <3>. QED
      BY <2>1, <3>1, <3>2, <3>3 DEF HintInv, HintIsRegistered
  <2>3. CASE Navigate
    BY <2>1, <2>3 DEF Navigate, Open, HintInv, HintIsRegistered
  <2>. QED
    BY <1>3, <2>2, <2>3
<1>4. \/ page' \in {"gate", "class", "dead"}
      \/ page = "register" /\ page' = "register"
      \/ Redirect \/ Navigate
  <2>1. ASSUME NEW c \in Calls, Settle(c)
        PROVE  \/ page' \in {"gate", "class"}
               \/ page = "register" /\ page' = "register"
    <3>1. Flying(c) /\ page \in {"register", "gate", "class"}
      BY <2>1 DEF Settle, Handle, Receive, Arrive, CallFails, Flying, GateInv, CallsOK, PagesOK,
                  Founded
    <3>2. page' = page \/ page' \in {"gate", "class"}
      <4>1. CASE Arrive(c)
        <5>1. calls[c].kind \in Kinds
          BY <3>1 DEF Flying, GateInv, CallsOK, Maybe, Requests, Kinds
        <5>. QED
          BY <4>1, <5>1 DEF Arrive, Answered, RegistrationAnswered, LookupAnswered,
                            LoginAnswered, SignIn, Shows, LogoutAnswered, WorkAnswered, Kinds
      <4>2. CASE Handle(c) \/ Receive(c) \/ CallFails(c)
        BY <4>2 DEF Handle, Receive, CallFails, LogoutAnswered
      <4>. QED
        BY <2>1, <4>1, <4>2 DEF Settle
    <3>. QED
      BY <3>1, <3>2
  <2>2. ASSUME NEW c \in Calls,
               SubmitRegistration(c) \/ SubmitLookup(c) \/ ClickLogout(c)
                 \/ ClickWork(c) \/ \E x \in Codes : EnterCohort(c, x)
        PROVE  \/ page' \in {"gate", "class"}
               \/ page = "register" /\ page' = "register"
    BY <2>2 DEF SubmitRegistration, SubmitLookup, ClickLogout, ClickWork, EnterCohort
  <2>3. CASE \/ \E e \in Maybe(Emails), x \in Maybe(Codes) : EditRegistration(e, x)
             \/ \E e \in Maybe(Emails), p \in Maybe(Emails) : EditAccess(e, p)
             \/ Initialize \/ CourseFails
    BY <2>3 DEF EditRegistration, EditAccess, Initialize, Restore, Anonymous, CourseFails
  <2>. QED
    BY <2>1, <2>2, <2>3 DEF Next
<1>. QED
  BY <1>1, <1>2, <1>3, <1>4

(* The login page is opened for a registration that was made, unless the   *)
(* fields were edited while it was sent or while the redirect waited.      *)
THEOREM HintOfRegistration == Spec => []HintIsRegistered
<1>1. Init => HintInv
  BY DEF Init, HintInv, HintIsRegistered, Registering, Flying
<1>2. GateInv /\ GateInv' /\ HintInv /\ [Next]_vars => HintInv'
  <2>1. ASSUME HintInv, UNCHANGED vars  PROVE  HintInv'
    BY <2>1 DEF vars, fields, HintInv, HintIsRegistered, Registering, Flying
  <2>. QED
    BY <2>1, HintStep
<1>3. HintInv => HintIsRegistered
  BY DEF HintInv
<1>. QED
  BY <1>1, <1>2, <1>3, GateInitOK, GateStepOK, PTL DEF Spec

(***************************************************************************)
(* The student of the page and the session                                 *)
(***************************************************************************)

Enters(c) == Flying(c) /\ calls[c].kind = "login"

Leaves(c) == Flying(c) /\ calls[c].kind = "logout"

Works(c) == Flying(c) /\ calls[c].kind = "work"

(* As long as they do not overlap, a login is in flight before and a       *)
(* logout after its student is shown, and the cookie of a login that was   *)
(* received is still there when its script goes on.  Work of this turn is  *)
(* of the student of the page, who is there by a login or a restore unless *)
(* former work has put them there.                                         *)
CookieInv ==
  ~mixed =>
    /\ \A c, d \in Calls : (Enters(c) \/ Leaves(c)) /\ (Enters(d) \/ Leaves(d)) => c = d
    /\ \A c \in Calls : Enters(c) =>
         /\ page = "gate" \/ revived
         /\ calls[c].phase = "received" => cookie = <<calls[c].email, calls[c].code>>
    /\ \A c \in Calls : Leaves(c) => page = "class"
    /\ page = "class" /\ ~revived =>
         /\ cookie \in {student, None}
         /\ (\A c \in Calls : ~Leaves(c)) => cookie = student
    /\ \A c \in Calls : Works(c) /\ ~calls[c].crossed /\ ~revived =>
         calls[c].seat \in {student, None}

LEMMA CookieAway ==
  ASSUME GateInv', page' \notin {"gate", "class"}
  PROVE  CookieInv'
<1>1. \A c \in Calls : ~Enters(c)' /\ ~Leaves(c)' /\ ~Works(c)'
  BY DEF Enters, Leaves, Works, Flying, GateInv, CallsOK, Founded
<1>. QED
  BY <1>1 DEF CookieInv

(* Forms come and go; of the other calls some may end, but no logout.      *)
LEMMA CookieCalm ==
  ASSUME CookieInv, UNCHANGED <<page, student, cookie, mixed, revived>>,
         \A c \in Calls : calls'[c] # None /\ ~IsForm(calls'[c]) =>
           /\ Flying(c) /\ Same(calls[c], calls'[c])
           /\ calls[c].kind = "login" => calls'[c].phase = calls[c].phase,
         \A c \in Calls : Leaves(c) => Leaves(c)'
  PROVE  CookieInv'
<1>1. \A c \in Calls :
        /\ Enters(c)' => /\ Enters(c) /\ Same(calls[c], calls'[c])
                         /\ calls'[c].phase = calls[c].phase
        /\ Leaves(c)' <=> Leaves(c)
        /\ Works(c)' => Works(c) /\ Same(calls[c], calls'[c])
  BY DEF Enters, Leaves, Works, Flying, Same, IsForm
<1>. QED
  BY <1>1 DEF CookieInv, Same

(* When one of them ends no other is left. *)
LEMMA CookieEnded ==
  ASSUME GateInv, CookieInv, NEW c \in Calls, Enters(c) \/ Leaves(c), ~mixed,
         calls' = Ended(c) \/ calls' = Crossing(Ended(c))
  PROVE  \A d \in Calls : ~Enters(d)' /\ ~Leaves(d)'
<1>1. Flying(c)
  BY DEF Enters, Leaves
<1>2. Fewer(calls') /\ calls'[c] = None
  BY <1>1, EndedOK
<1>3. \A d \in Calls : Enters(d)' \/ Leaves(d)' => d # c /\ (Enters(d) \/ Leaves(d))
  BY <1>2 DEF Enters, Leaves, Flying, Fewer, Same
<1>. QED
  BY <1>3 DEF CookieInv

LEMMA CookieEnds ==
  ASSUME GateInv, CookieInv, UNCHANGED <<page, student, cookie, mixed, revived>>,
         NEW c \in Calls, Flying(c), ~Leaves(c), calls' = Ended(c)
  PROVE  CookieInv'
<1>1. \A d \in Calls : calls'[d] # None => calls'[d] = calls[d]
  BY EndedSame DEF GateInv
<1>2. \A d \in Calls : Leaves(d) => Leaves(d)'
  BY DEF Leaves, Flying, Ended, GateInv, CallsOK
<1>. QED
  BY <1>1, <1>2, CookieCalm DEF Flying, Same

(* An answer to work of this turn finds its student on the page; any other *)
(* one revives the student it names.                                       *)
LEMMA CookieWork ==
  ASSUME GateInv, GateInv', CookieInv, NEW c \in Calls, Works(c), WorkAnswered(c)
  PROVE  CookieInv'
<1>1. SUFFICES ASSUME ~mixed'  PROVE  CookieInv'
  BY DEF CookieInv
<1>2. /\ ~mixed /\ UNCHANGED <<cookie, mixed>> /\ Flying(c)
      /\ calls' = Ended(c) \/ calls' = Crossing(Ended(c))
  BY <1>1 DEF WorkAnswered, Works
<1>3. Fewer(calls') /\ calls'[c] = None
  BY <1>2, EndedOK
<1>4. \A d \in Calls :
        /\ Enters(d)' => /\ Enters(d) /\ Same(calls[d], calls'[d])
                         /\ calls'[d].phase = calls[d].phase
        /\ Leaves(d)' => Leaves(d)
  BY <1>3 DEF Enters, Leaves, Flying, Fewer, Same, SameAnswer
<1>5. CASE ~calls[c].ok
  <2>1. calls' = Ended(c) /\ UNCHANGED <<page, student, revived>>
    BY <1>5 DEF WorkAnswered, access
  <2>2. ~Leaves(c)
    BY DEF Works, Leaves
  <2>. QED
    BY <1>2, <2>1, <2>2, CookieEnds
<1>6. CASE calls[c].ok /\ revived'
  <2>1. page' = "class"
    BY <1>6 DEF WorkAnswered, Shows
  <2>. QED
    BY <1>2, <1>4, <1>6, <2>1 DEF CookieInv, Same
<1>7. CASE calls[c].ok /\ ~revived'
  <2>1. ~revived /\ ~calls[c].crossed
    BY <1>7 DEF WorkAnswered
  <2>2. calls[c].seat \in Seats /\ page = "class"
    BY <1>2, <1>7, <2>1 DEF Works, GateInv, CallsOK, Founded
  <2>3. calls[c].seat = student
    BY <1>2, <2>1, <2>2, Nulls DEF CookieInv
  <2>4. /\ calls' = Ended(c) /\ UNCHANGED <<page, student>>
    BY <1>7, <2>2, <2>3 DEF WorkAnswered, Shows
  <2>5. ~revived' /\ ~revived
    BY <1>7, <2>1
  <2>6. ~Leaves(c)
    BY DEF Works, Leaves
  <2>7. revived' = revived
    BY <2>5 DEF GateInv, PagesOK
  <2>. QED
    BY <1>2, <2>4, <2>6, <2>7, CookieEnds
<1>. QED
  BY <1>5, <1>6, <1>7

LEMMA CookieStep ==
  ASSUME GateInv, GateInv', CookieInv, Next
  PROVE  CookieInv'
<1>1. CASE page' \notin {"gate", "class"}
  BY <1>1, CookieAway
<1>2. CASE Initialize
  <2>1. \A c \in Calls : ~Enters(c)' /\ ~Leaves(c)' /\ ~Works(c)'
    BY <1>2 DEF Initialize, Enters, Leaves, Works, Flying, GateInv, CallsOK, Founded
  <2>2. page' = "class" => cookie' = student'
    BY <1>2 DEF Initialize, Restore, Anonymous
  <2>. QED
    BY <2>1, <2>2 DEF CookieInv
<1>3. ASSUME NEW e \in Maybe(Emails), NEW p \in Maybe(Emails), EditAccess(e, p)
      PROVE  CookieInv'
  <2>1. /\ Fewer(calls')
        /\ \A c \in Calls : Flying(c) <=> calls'[c] # None
    BY <1>3, CrossingAll DEF EditAccess, GateInv
  <2>2. /\ \A c \in Calls : calls'[c] # None =>
             Flying(c) /\ Same(calls[c], calls'[c]) /\ calls'[c].phase = calls[c].phase
        /\ \A c \in Calls : Leaves(c) => Leaves(c)'
    BY <2>1 DEF Leaves, Flying, Fewer, Same, SameAnswer
  <2>3. UNCHANGED <<page, student, cookie, mixed, revived>>
    BY <1>3 DEF EditAccess, history
  <2>. QED
    BY <2>2, <2>3, CookieCalm
<1>4. ASSUME NEW c \in Calls, SubmitLookup(c)
      PROVE  CookieInv'
  <2>1. Send(c, "lookup", None) /\ None \in Maybe(Codes)
    BY <1>4 DEF SubmitLookup, Maybe
  <2>2. /\ \A d \in Calls \ {c} : calls'[d] = calls[d]
        /\ calls[c] = None /\ IsForm(calls'[c])
    BY <2>1, SendPuts DEF GateInv, IsForm, Kinds
  <2>3. /\ \A d \in Calls : calls'[d] # None /\ ~IsForm(calls'[d]) =>
             Flying(d) /\ calls'[d] = calls[d]
        /\ \A d \in Calls : Leaves(d) => Leaves(d)'
    BY <2>2 DEF Leaves, Flying
  <2>4. UNCHANGED <<page, student, cookie, mixed, revived>>
    BY <1>4 DEF SubmitLookup, history
  <2>. QED
    BY <2>3, <2>4, CookieCalm DEF Same
<1>5. ASSUME NEW c \in Calls, NEW x \in Maybe(Codes), NEW kind \in {"login", "logout"},
             Send(c, kind, x), UNCHANGED <<page, student, cookie, revived>>,
             page = (IF kind = "login" THEN "gate" ELSE "class"),
             mixed' = (mixed \/ InFlight({"login", "logout"}) # {})
      PROVE  CookieInv'
  <2>1. SUFFICES ASSUME ~mixed'  PROVE  CookieInv'
    BY DEF CookieInv
  <2>2. ~mixed /\ \A d \in Calls : ~Enters(d) /\ ~Leaves(d)
    BY <1>5, <2>1 DEF InFlight, Enters, Leaves, Flying
  <2>3. /\ \A d \in Calls \ {c} : calls'[d] = calls[d]
        /\ calls'[c] # None /\ calls'[c].kind = kind /\ calls'[c].phase = "sent"
    BY <1>5, SendPuts, Nulls DEF GateInv, Kinds
  <2>4. \A d \in Calls : Enters(d)' \/ Leaves(d)' => d = c
    BY <2>2, <2>3 DEF Enters, Leaves, Flying
  <2>5. Enters(c)' => kind = "login"
    BY <2>3 DEF Enters
  <2>6. kind = "logout" => Leaves(c)'
    BY <2>3 DEF Leaves, Flying
  <2>7. Leaves(c)' => kind = "logout"
    BY <2>3 DEF Leaves
  <2>8. \A d \in Calls : Works(d)' => Works(d) /\ calls'[d] = calls[d]
    BY <2>3 DEF Works, Flying
  <2>. QED
    BY <1>5, <2>2, <2>3, <2>4, <2>5, <2>6, <2>7, <2>8 DEF CookieInv
<1>6. ASSUME NEW c \in Calls, NEW x \in Codes, EnterCohort(c, x)
      PROVE  CookieInv'
  <2>1. x \in Maybe(Codes) /\ UNCHANGED <<page, student, cookie, revived>>
    BY <1>6 DEF Maybe, EnterCohort, access
  <2>. QED
    BY <1>5, <1>6, <2>1 DEF EnterCohort
<1>7. ASSUME NEW c \in Calls, ClickLogout(c)
      PROVE  CookieInv'
  <2>1. None \in Maybe(Codes) /\ UNCHANGED <<page, student, cookie, revived>>
    BY <1>7 DEF Maybe, ClickLogout, access
  <2>. QED
    BY <1>5, <1>7, <2>1 DEF ClickLogout
<1>16. ASSUME NEW c \in Calls, ClickWork(c)
       PROVE  CookieInv'
  <2>1. SUFFICES ASSUME ~mixed'  PROVE  CookieInv'
    BY DEF CookieInv
  <2>2. /\ Send(c, "work", None) /\ None \in Maybe(Codes) /\ page = "class"
        /\ UNCHANGED <<page, student, cookie, mixed, revived>> /\ ~mixed
    BY <1>16, <2>1 DEF ClickWork, Maybe, access, history
  <2>3. /\ \A d \in Calls \ {c} : calls'[d] = calls[d]
        /\ calls[c] = None /\ calls'[c].kind = "work" /\ calls'[c].seat = cookie
    BY <2>2, SendPuts DEF GateInv, Kinds
  <2>4. \A d \in Calls : /\ Enters(d)' => Enters(d) /\ calls'[d] = calls[d]
                         /\ Leaves(d)' <=> Leaves(d)
    BY <2>3 DEF Enters, Leaves, Flying
  <2>5. ~revived => cookie \in {student, None}
    BY <2>2 DEF CookieInv
  <2>6. \A d \in Calls : Works(d)' => calls'[d].seat = cookie \/ (Works(d) /\ calls'[d] = calls[d])
    BY <2>3 DEF Works, Flying
  <2>. QED
    BY <2>2, <2>4, <2>5, <2>6 DEF CookieInv
<1>8. ASSUME NEW c \in Calls, Handle(c) \/ Receive(c)
      PROVE  CookieInv'
  <2>1. SUFFICES ASSUME ~mixed'  PROVE  CookieInv'
    BY DEF CookieInv
  <2>2. UNCHANGED <<page, student, mixed, revived>> /\ ~mixed
    <3>1. UNCHANGED <<page, access, history>>
      BY <1>8 DEF Handle, Receive
    <3>. QED
      BY <2>1, <3>1 DEF access, history
  <2>3. /\ Flying(c) /\ Same(calls[c], calls'[c]) /\ calls'[c] # None
        /\ \A d \in Calls \ {c} : calls'[d] = calls[d]
    BY <1>8, MovesOn, Nulls
  <2>4. \A d \in Calls : /\ Enters(d)' <=> Enters(d)
                         /\ Leaves(d)' <=> Leaves(d)
                         /\ Works(d)' => Works(d) /\ Same(calls[d], calls'[d])
    BY <2>3 DEF Enters, Leaves, Works, Flying, Same
  <2>5. \A d \in Calls : Works(d)' /\ ~calls'[d].crossed /\ ~revived' =>
          calls'[d].seat \in {student', None}
    BY <2>2, <2>4 DEF CookieInv, Same
  <2>6. CASE Leaves(c)
    <3>1. \A d \in Calls : ~Enters(d)
      BY <2>2, <2>6 DEF CookieInv, Enters, Leaves
    <3>2. cookie' = cookie \/ cookie' = None
      BY <1>8, <2>6 DEF Handle, Receive, Leaves
    <3>. QED
      BY <2>2, <2>4, <2>5, <2>6, <3>1, <3>2 DEF CookieInv
  <2>7. CASE Enters(c)
    <3>1. /\ page = "gate" \/ revived
          /\ \A d \in Calls : Enters(d) \/ Leaves(d) => d = c
      BY <2>2, <2>7 DEF CookieInv
    <3>2. calls'[c].phase = "received" => cookie' = <<calls'[c].email, calls'[c].code>>
      BY <1>8, <2>3, <2>7, MovesOn DEF Receive, Enters, Same
    <3>3. ~Leaves(c)
      BY <2>7 DEF Enters, Leaves
    <3>4. page = "gate" => page # "class"
      OBVIOUS
    <3>. QED
      BY <2>2, <2>4, <2>5, <3>1, <3>2, <3>3, <3>4 DEF CookieInv
  <2>8. CASE ~Enters(c) /\ ~Leaves(c)
    <3>1. UNCHANGED cookie
      BY <1>8, <2>3, <2>8 DEF Handle, Receive, SetsCookie, Enters, Leaves
    <3>2. \A d \in Calls : calls'[d] # None =>
            /\ Flying(d) /\ Same(calls[d], calls'[d])
            /\ calls[d].kind = "login" => calls'[d].phase = calls[d].phase
      BY <2>3, <2>8 DEF Same, Enters, Flying
    <3>. QED
      BY <2>2, <2>4, <3>1, <3>2, CookieCalm
  <2>. QED
    BY <2>6, <2>7, <2>8
<1>9. ASSUME NEW c \in Calls, Leaves(c), LogoutAnswered(c)
      PROVE  CookieInv'
  <2>1. SUFFICES ASSUME ~mixed'  PROVE  CookieInv'
    BY DEF CookieInv
  <2>2. \A d \in Calls : ~Enters(d)' /\ ~Leaves(d)'
    BY <1>9, <2>1, CookieEnded DEF LogoutAnswered
  <2>3. \A d \in Calls : Works(d)' => calls'[d].crossed
    BY <1>9, EndedCrossed DEF LogoutAnswered, Works, Flying, IsCrossed
  <2>. QED
    BY <1>9, <2>2, <2>3 DEF CookieInv, LogoutAnswered
<1>11. ASSUME NEW c \in Calls, Enters(c), LoginAnswered(c),
              calls[c].ok => calls[c].phase = "received"
       PROVE  CookieInv'
  <2>1. CASE ~calls[c].ok
    <3>1. calls' = Ended(c) /\ UNCHANGED <<page, student, cookie, mixed, revived>>
      BY <1>11, <2>1 DEF LoginAnswered, access
    <3>2. Flying(c) /\ ~Leaves(c)
      BY <1>11 DEF Enters, Leaves
    <3>. QED
      BY <3>1, <3>2, CookieEnds
  <2>2. CASE calls[c].ok
    <3>1. SUFFICES ASSUME ~mixed'  PROVE  CookieInv'
      BY DEF CookieInv
    <3>2. /\ ~mixed /\ UNCHANGED cookie /\ calls' = Crossing(Ended(c))
          /\ student' = <<calls[c].email, calls[c].code>>
      BY <1>11, <2>2, <3>1 DEF LoginAnswered, SignIn, Shows
    <3>3. \A d \in Calls : ~Enters(d)' /\ ~Leaves(d)'
      BY <1>11, <3>2, CookieEnded
    <3>4. cookie = <<calls[c].email, calls[c].code>>
      BY <1>11, <2>2, <3>2 DEF CookieInv
    <3>5. \A d \in Calls : Works(d)' => calls'[d].crossed
      BY <3>2, EndedCrossed DEF Works, Flying, IsCrossed
    <3>. QED
      BY <3>2, <3>3, <3>4, <3>5 DEF CookieInv
  <2>. QED
    BY <2>1, <2>2
<1>12. ASSUME NEW c \in Calls, Flying(c), calls[c].kind # "logout", calls' = Ended(c),
              UNCHANGED <<page, student, cookie, history>>
       PROVE  CookieInv'
  BY <1>12, CookieEnds DEF Leaves, history
<1>13. ASSUME NEW c \in Calls, Arrive(c)
       PROVE  CookieInv'
  <2>1. Flying(c) /\ calls[c].kind \in Kinds
    BY <1>13 DEF Arrive, Flying, GateInv, CallsOK, Maybe, Requests, Kinds
  <2>2. CASE calls[c].kind = "register"
    BY <1>12, <1>13, <2>1, <2>2 DEF Arrive, Answered, RegistrationAnswered, access
  <2>3. CASE calls[c].kind = "lookup"
    BY <1>12, <1>13, <2>1, <2>3 DEF Arrive, Answered, LookupAnswered
  <2>4. CASE calls[c].kind = "login"
    <3>1. LoginAnswered(c) /\ (calls[c].ok => calls[c].phase = "received")
      BY <1>13, <2>4 DEF Arrive, Answered, SetsCookie
    <3>. QED
      BY <1>11, <2>1, <2>4, <3>1 DEF Enters
  <2>5. CASE calls[c].kind = "logout"
    BY <1>9, <1>13, <2>1, <2>5 DEF Arrive, Answered, Leaves
  <2>6. CASE calls[c].kind = "work"
    BY <1>13, <2>1, <2>6, CookieWork DEF Arrive, Answered, Works
  <2>. QED
    BY <2>1, <2>2, <2>3, <2>4, <2>5, <2>6 DEF Kinds
<1>14. ASSUME NEW c \in Calls, CallFails(c)
       PROVE  CookieInv'
  <2>1. Flying(c)
    BY <1>14 DEF CallFails, Flying
  <2>2. CASE calls[c].kind = "logout"
    BY <1>9, <1>14, <2>1, <2>2 DEF CallFails, Leaves
  <2>3. CASE calls[c].kind # "logout"
    <3>1. calls' = Ended(c) /\ UNCHANGED <<page, student, cookie, history>>
      BY <1>14, <2>3 DEF CallFails
    <3>. QED
      BY <1>12, <2>1, <2>3, <3>1
  <2>. QED
    BY <2>2, <2>3
<1>15. page' \in {"gate", "class"} =>
         /\ \A e \in Maybe(Emails), x \in Maybe(Codes) : ~EditRegistration(e, x)
         /\ \A c \in Calls : ~SubmitRegistration(c)
         /\ ~Redirect /\ ~CourseFails /\ ~Navigate
  BY DEF EditRegistration, SubmitRegistration, Redirect, CourseFails, Navigate, Open
<1>. QED
  BY <1>1, <1>2, <1>3, <1>4, <1>6, <1>7, <1>8, <1>13, <1>14, <1>15, <1>16 DEF Next, Settle

(* The student the page shows is the one of the session, unless logins and *)
(* logouts of one page overlap or the student is there by an answer to     *)
(* work of an earlier turn.                                                *)
THEOREM PageOfSession == Spec => []PageIsCookie
<1>1. Init => CookieInv
  BY DEF Init, CookieInv, Enters, Leaves, Works, Flying
<1>2. GateInv /\ GateInv' /\ CookieInv /\ [Next]_vars => CookieInv'
  <2>1. ASSUME CookieInv, UNCHANGED vars  PROVE  CookieInv'
    BY <2>1 DEF vars, fields, access, history, CookieInv, Enters, Leaves, Works, Flying
  <2>. QED
    BY <2>1, CookieStep
<1>3. CookieInv => PageIsCookie
  BY DEF CookieInv, PageIsCookie, InFlight, Leaves, Flying
<1>. QED
  BY <1>1, <1>2, <1>3, GateInitOK, GateStepOK, PTL DEF Spec

(***************************************************************************)
(* What is left on the form                                                *)
(***************************************************************************)

(* There is a password on the login form only, unless it was typed before  *)
(* former work brought its student back.                                   *)
PasswordInv == page # "gate" /\ ~revived => password = None

(* The page of a call, and what it leaves on the form when it ends. *)
LEMMA SettleLeaves ==
  ASSUME GateInv, NEW c \in Calls, Settle(c)
  PROVE  \/ UNCHANGED <<page, password, revived>>
         \/ page' = "class" /\ (revived' \/ password' = None)
         \/ /\ page' = "gate" /\ UNCHANGED password
            /\ email' = None /\ lookup' = None /\ picker' = None
<1>1. CASE Handle(c) \/ Receive(c)
  BY <1>1 DEF Handle, Receive, fields, history
<1>2. CASE CallFails(c)
  BY <1>2 DEF CallFails, LogoutAnswered, fields, history
<1>3. CASE Arrive(c) /\ calls[c].kind = "work"
  <2>1. Flying(c) /\ WorkAnswered(c)
    BY <1>3 DEF Arrive, Answered, Flying
  <2>2. CASE ~calls[c].ok
    BY <2>1, <2>2 DEF WorkAnswered
  <2>3. CASE calls[c].ok /\ ~revived'
    <3>1. ~calls[c].crossed /\ ~revived
      BY <2>1, <2>3 DEF WorkAnswered
    <3>2. page = "class"
      BY <1>3, <2>1, <3>1 DEF GateInv, CallsOK, Founded
    <3>3. page' = "class" /\ UNCHANGED password
      BY <2>1, <2>3 DEF WorkAnswered, Shows
    <3>4. revived' = revived
      BY <2>1, <2>3, <3>1 DEF GateInv, PagesOK, WorkAnswered, CallsOK, Maybe, Requests, Flying
    <3>. QED
      BY <3>2, <3>3, <3>4
  <2>4. CASE calls[c].ok /\ revived'
    BY <2>1, <2>4 DEF WorkAnswered, Shows
  <2>. QED
    BY <2>2, <2>3, <2>4
<1>4. CASE Arrive(c) /\ calls[c].kind # "work"
  <2>1. calls[c].kind \in Kinds \ {"work"}
    BY <1>4 DEF Arrive, GateInv, CallsOK, Maybe, Requests, Kinds
  <2>. QED
    BY <1>4, <2>1 DEF Arrive, Answered, RegistrationAnswered, LookupAnswered, LoginAnswered,
                      SignIn, Shows, LogoutAnswered, fields, history, Kinds
<1>. QED
  BY <1>1, <1>2, <1>3, <1>4 DEF Settle

LEMMA PasswordStep ==
  ASSUME GateInv, PasswordInv, Next
  PROVE  /\ PasswordInv'
         /\ page = "class" /\ page' = "gate" /\ ~revived =>
              email' = None /\ password' = None /\ lookup' = None /\ picker' = None
<1>1. ASSUME NEW c \in Calls, Settle(c)
      PROVE  /\ PasswordInv'
             /\ page = "class" /\ page' = "gate" /\ ~revived =>
                  email' = None /\ password' = None /\ lookup' = None /\ picker' = None
  BY <1>1, SettleLeaves DEF PasswordInv
<1>2. ASSUME NEW c \in Calls,
             SubmitRegistration(c) \/ SubmitLookup(c) \/ ClickLogout(c) \/ ClickWork(c)
               \/ \E x \in Codes : EnterCohort(c, x)
      PROVE  UNCHANGED <<page, password, revived>>
  BY <1>2 DEF SubmitRegistration, SubmitLookup, ClickLogout, ClickWork, EnterCohort,
              fields, history
<1>3. CASE \/ \E e \in Maybe(Emails), x \in Maybe(Codes) : EditRegistration(e, x)
           \/ CourseFails
  BY <1>3 DEF EditRegistration, CourseFails, fields, history, PasswordInv
<1>4. CASE \E e \in Maybe(Emails), p \in Maybe(Emails) : EditAccess(e, p)
  BY <1>4 DEF EditAccess, PasswordInv
<1>5. CASE Initialize
  BY <1>5 DEF Initialize, Restore, Anonymous, history, PasswordInv
<1>6. CASE Redirect \/ Navigate
  BY <1>6 DEF Redirect, Navigate, Open, PasswordInv
<1>. QED
  BY <1>1, <1>2, <1>3, <1>4, <1>5, <1>6 DEF Next, PasswordInv

(* Who leaves the classroom leaves neither their e-mail nor their password *)
(* nor their cohorts on the form, whether or not the logout is answered,   *)
(* unless they were there by an answer to work of an earlier turn.         *)
THEOREM NothingLeft == Spec => LeavesNothing
<1>1. Init => PasswordInv
  BY DEF Init, PasswordInv
<1>2. GateInv /\ PasswordInv /\ [Next]_vars => PasswordInv'
  <2>1. ASSUME PasswordInv, UNCHANGED vars  PROVE  PasswordInv'
    BY <2>1 DEF vars, fields, history, PasswordInv
  <2>. QED
    BY <2>1, PasswordStep
<1>3. GateInv /\ PasswordInv /\ [Next]_vars =>
        [page = "class" /\ page' = "gate" /\ ~revived =>
           /\ email' = None /\ password' = None
           /\ lookup' = None /\ picker' = None]_vars
  BY PasswordStep
<1>. QED
  BY <1>1, <1>2, <1>3, GateInitOK, GateStepOK, PTL DEF Spec, LeavesNothing

=============================================================================
