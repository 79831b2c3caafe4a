----------------------------- MODULE PageProofs -----------------------------
(***************************************************************************)
(* Theorems of StudentPage, for any students, laboratories and limit, and  *)
(* any number of requests in flight.                                       *)
(***************************************************************************)
EXTENDS StudentPage, TLAPS

(***************************************************************************)
(* Type correctness                                                        *)
(***************************************************************************)

(* An answer that is used later is that of a student, and a dashboard is   *)
(* there when it is said to be; only a login is accepted.                  *)
Founded ==
  {r \in Calls :
     /\ r.answer \in {"accepted", "dashboard"} =>
          r.board \in Dashboards /\ r.cookie \in Students
     /\ r.answer = "accepted" => r.what = "login"
     /\ r.answer \in {"persisted", "limit"} => r.cookie \in Students /\ r.what # "login"}

TypeInv ==
  /\ PageTypeOK
  /\ calls \in [Slots -> Founded \cup {None}]

LEMMA Nulls ==
  /\ None \notin Students
  /\ None \notin Rows
  /\ None \notin Founded
  /\ Limit \in Nat /\ Excess \in Nat /\ Limit + Excess \in Nat
  BY PageAssumption, NullAssumption DEF Founded

LEMMA EmptyTyped ==
  ASSUME NEW l \in Labs
  PROVE  /\ Empty(l) \in Pages
         /\ Empty(l).student = None
         /\ Empty(l).lab = l
         /\ \A m \in Labs : /\ Empty(l).drafts[m] = None
                            /\ Empty(l).verdict[m] = None
                            /\ Empty(l).count[m] = 0
  BY Nulls DEF Empty, Pages, Owners, Counts

(* syncStateFromDashboard, laboratory by laboratory. *)
LEMMA SyncStateIs ==
  ASSUME NEW p \in Pages, NEW s \in Students, NEW board \in Dashboards
  PROVE  /\ SyncState(p, s, board) \in Pages
         /\ SyncState(p, s, board).student = s
         /\ \A l \in Labs :
              /\ SyncState(p, s, board).count[l] = Attempts(board[l])
              /\ \/ board[l] # None /\ SyncState(p, s, board).drafts[l] = board[l].draft
                 \/ p.student \in {None, s} /\ SyncState(p, s, board).drafts[l] = p.drafts[l]
                 \/ SyncState(p, s, board).drafts[l] = None
              /\ \/ board[l] # None /\ SyncState(p, s, board).verdict[l] \in {s, board[l].verdict}
                 \/ p.student \in {None, s} /\ SyncState(p, s, board).verdict[l] = p.verdict[l]
                 \/ SyncState(p, s, board).verdict[l] = None
<1>. DEFINE base == IF p.student \in {None, s} THEN p ELSE Empty(p.lab)
<1>. DEFINE listed == {l \in Labs : board[l] # None}
<1>. DEFINE drafts == [l \in Labs |-> IF l \in listed THEN board[l].draft ELSE base.drafts[l]]
<1>. DEFINE verdict == [l \in Labs |-> IF l \in listed THEN ShownVerdict(s, board[l])
                                       ELSE base.verdict[l]]
<1>. DEFINE count == [l \in Labs |-> IF l \in listed THEN board[l].count ELSE 0]
<1>1. SyncState(p, s, board) =
        [base EXCEPT !.student = s, !.drafts = drafts, !.verdict = verdict, !.count = count]
  BY DEF SyncState
<1>2. base \in Pages
  BY EmptyTyped DEF Pages
<1>3. \A l \in Labs : board[l] # None =>
        /\ board[l].draft \in Owners
        /\ board[l].count \in Counts
        /\ ShownVerdict(s, board[l]) \in {s, board[l].verdict}
        /\ board[l].verdict \in Owners
  BY DEF Dashboards, Rows, ShownVerdict
<1>4. drafts \in [Labs -> Owners]
  BY <1>2, <1>3 DEF Pages
<1>5. verdict \in [Labs -> Owners]
  BY <1>2, <1>3 DEF Pages, Owners
<1>6. count \in [Labs -> Counts]
  BY <1>3, Nulls DEF Counts
<1>7. \A l \in Labs :
        \/ /\ p.student \in {None, s}
           /\ base.drafts[l] = p.drafts[l] /\ base.verdict[l] = p.verdict[l]
        \/ base.drafts[l] = None /\ base.verdict[l] = None
  BY EmptyTyped DEF Pages
<1>. HIDE DEF base
<1>8. /\ SyncState(p, s, board).student = s
      /\ SyncState(p, s, board).drafts = drafts
      /\ SyncState(p, s, board).verdict = verdict
      /\ SyncState(p, s, board).count = count
      /\ SyncState(p, s, board) \in Pages
  BY <1>1, <1>2, <1>4, <1>5, <1>6 DEF Pages, Owners
<1>9. \A l \in Labs :
        /\ drafts[l] = IF board[l] # None THEN board[l].draft ELSE base.drafts[l]
        /\ verdict[l] = IF board[l] # None THEN ShownVerdict(s, board[l]) ELSE base.verdict[l]
        /\ count[l] = IF board[l] # None THEN board[l].count ELSE 0
  OBVIOUS
<1>10. \A l \in Labs : count[l] = Attempts(board[l])
  BY <1>9 DEF Attempts
<1>. HIDE DEF drafts, verdict, count
<1>. QED
  BY <1>3, <1>7, <1>8, <1>9, <1>10

Whats == {"save", "validate", "refresh", "login", "logout"}

LEMMA FoundedCalls ==
  ASSUME NEW cs \in [Slots -> Founded \cup {None}]
  PROVE  cs \in [Slots -> Calls \cup {None}]
  BY DEF Founded

(* A request is sent. *)
LEMMA SendPuts ==
  ASSUME TypeInv, NEW k \in Slots, NEW what \in Whats, NEW who \in Owners,
         NEW draft \in Owners, NEW verdict \in Owners,
         Send(k, what, who, draft, verdict)
  PROVE  /\ calls' \in [Slots -> Founded \cup {None}]
         /\ \A c \in Slots \ {k} : calls'[c] = calls[c]
         /\ calls'[k].what = what /\ calls'[k].answer = "none"
         /\ calls'[k].cookie = who /\ calls'[k].verdict = verdict
         /\ calls'[k].draft = draft
<1>. DEFINE r == [what |-> what, answer |-> "none", board |-> None, cookie |-> who,
                  lab |-> page.lab, draft |-> draft, verdict |-> verdict,
                  stale |-> FALSE]
<1>1. r \in Founded
  BY DEF TypeInv, PageTypeOK, Pages, Founded, Calls, Whats
<1>2. calls' = [calls EXCEPT ![k] = r]
  BY DEF Send
<1>3. /\ r.what = what /\ r.answer = "none" /\ r.cookie = who
      /\ r.verdict = verdict /\ r.draft = draft
  OBVIOUS
<1>. HIDE DEF r
<1>. QED
  BY <1>1, <1>2, <1>3 DEF TypeInv

(* The answer to a request. *)
LEMMA AnswerPuts ==
  ASSUME TypeInv, NEW k \in Slots, calls[k] # None,
         NEW a \in {"persisted", "limit", "accepted", "dashboard", "ended"}, NEW board,
         Answer(k, a, board),
         board \in Dashboards \cup {None},
         a \in {"accepted", "dashboard"} => board \in Dashboards /\ Who(k) \in Students,
         a = "accepted" => calls[k].what = "login",
         a \in {"persisted", "limit"} => Who(k) \in Students /\ calls[k].what # "login"
  PROVE  /\ calls' \in [Slots -> Founded \cup {None}]
         /\ \A c \in Slots \ {k} : calls'[c] = calls[c]
         /\ calls'[k] # None
         /\ calls'[k].answer = a /\ calls'[k].board = board
         /\ calls'[k].what = calls[k].what /\ calls'[k].stale = calls[k].stale
         /\ calls'[k].cookie = calls[k].cookie
<1>. DEFINE r == [calls[k] EXCEPT !.answer = a, !.board = board,
                                  !.draft = None, !.verdict = None]
<1>1. calls[k] \in Calls
  BY DEF TypeInv, Founded
<1>2. r \in Founded
  BY <1>1 DEF Founded, Calls, Owners, Who
<1>3. calls' = [calls EXCEPT ![k] = r]
  BY DEF Answer, TypeInv
<1>4. /\ r.answer = a /\ r.board = board /\ r.what = calls[k].what
      /\ r.stale = calls[k].stale /\ r.cookie = calls[k].cookie
  BY <1>1 DEF Calls
<1>. HIDE DEF r
<1>. QED
  BY <1>2, <1>3, <1>4, Nulls DEF TypeInv

(* The headers of an answer have come in. *)
LEMMA ReceivedPuts ==
  ASSUME TypeInv, NEW k \in Slots, CookieReceived(k)
  PROVE  /\ calls' \in [Slots -> Founded \cup {None}]
         /\ \A c \in Slots \ {k} : calls'[c] = calls[c]
         /\ calls[k] # None /\ calls'[k] # None
         /\ \/ /\ calls[k].answer = "accepted" /\ calls'[k].answer = "dashboard"
               /\ calls[k].what = "login" /\ cookie' = Who(k)
            \/ /\ calls[k].answer = "ended" /\ calls'[k].answer = "bye"
               /\ cookie' = None
         /\ calls'[k].board = calls[k].board /\ calls'[k].cookie = calls[k].cookie
         /\ calls'[k].what = calls[k].what /\ calls'[k].stale = calls[k].stale
<1>1. calls[k] # None /\ calls[k] \in Founded
  BY DEF CookieReceived, Arrives, TypeInv
<1>2. PICK a \in {"dashboard", "bye"} :
        /\ calls' = [calls EXCEPT ![k].answer = a]
        /\ \/ calls[k].answer = "accepted" /\ a = "dashboard" /\ cookie' = Who(k)
           \/ calls[k].answer = "ended" /\ a = "bye" /\ cookie' = None
  BY DEF CookieReceived, Arrives
<1>. DEFINE r == [calls[k] EXCEPT !.answer = a]
<1>3. r \in Founded
  BY <1>1, <1>2 DEF Founded, Calls
<1>4. /\ r.answer = a /\ r.board = calls[k].board /\ r.what = calls[k].what
      /\ r.stale = calls[k].stale /\ r.cookie = calls[k].cookie
  BY <1>1 DEF Founded, Calls
<1>5. calls' = [calls EXCEPT ![k] = r]
  BY <1>2
<1>6. calls[k].answer = "accepted" => calls[k].what = "login"
  BY <1>1 DEF Founded
<1>. HIDE DEF r
<1>. QED
  BY <1>1, <1>2, <1>3, <1>4, <1>5, <1>6, Nulls DEF TypeInv

(* The other requests are marked when the page is cleared. *)
LEMMA StalePuts ==
  ASSUME TypeInv, NEW k \in Slots, OthersStale(k)
  PROVE  /\ calls' \in [Slots -> Founded \cup {None}]
         /\ \A c \in Slots : calls'[c] # None =>
              /\ c # k /\ calls[c] # None /\ calls'[c].stale
              /\ calls'[c].answer = calls[c].answer /\ calls'[c].board = calls[c].board
              /\ calls'[c].cookie = calls[c].cookie /\ calls'[c].what = calls[c].what
              /\ calls'[c].draft = calls[c].draft
              /\ calls'[c].verdict = calls[c].verdict
<1>1. \A r \in Founded :
        /\ [r EXCEPT !.stale = TRUE] \in Founded
        /\ [r EXCEPT !.stale = TRUE].answer = r.answer
        /\ [r EXCEPT !.stale = TRUE].board = r.board
        /\ [r EXCEPT !.stale = TRUE].cookie = r.cookie
        /\ [r EXCEPT !.stale = TRUE].what = r.what
        /\ [r EXCEPT !.stale = TRUE].draft = r.draft
        /\ [r EXCEPT !.stale = TRUE].verdict = r.verdict
  BY DEF Founded, Calls
<1>2. \A r \in Founded : [r EXCEPT !.stale = TRUE].stale
  BY DEF Founded, Calls
<1>3. \A c \in Slots : /\ calls[c] = None \/ calls[c] \in Founded
                       /\ calls'[c] = IF c = k \/ calls[c] = None THEN None
                                      ELSE [calls[c] EXCEPT !.stale = TRUE]
  BY DEF OthersStale, TypeInv
<1>. QED
  BY <1>1, <1>2, <1>3 DEF OthersStale, TypeInv

LEMMA PageInitTyped == Init => TypeInv
<1>1. ASSUME Init  PROVE  page \in Pages
  BY <1>1, EmptyTyped DEF Init
<1>. QED
  BY <1>1 DEF Init, TypeInv, PageTypeOK, Owners

(* What is stored and what the requests carry. *)
LEMMA StateTyped ==
  ASSUME TypeInv
  PROVE  /\ rows \in [Students -> [Labs -> Rows \cup {None}]]
         /\ \A s \in Students : rows[s] \in Dashboards
         /\ page \in Pages /\ page.student \in Owners /\ page.lab \in Labs
         /\ page.drafts[page.lab] \in Owners /\ page.verdict[page.lab] \in Owners
         /\ cookie \in Owners /\ None \in Owners /\ Students \subseteq Owners
         /\ cookie # None => cookie \in Students
         /\ Signed => page.student \in Students
         /\ calls \in [Slots -> Founded \cup {None}]
         /\ late \in BOOLEAN /\ mixed \in BOOLEAN
  BY DEF TypeInv, PageTypeOK, Owners, Pages, Dashboards, Signed

LEMMA CallTyped ==
  ASSUME TypeInv, NEW k \in Slots, calls[k] # None
  PROVE  /\ calls[k] \in Calls
         /\ Who(k) \in Owners
         /\ Who(k) # None => Who(k) \in Students
         /\ calls[k].lab \in Labs
         /\ calls[k].draft \in Owners /\ calls[k].verdict \in Owners
         /\ calls[k].stale \in BOOLEAN
         /\ calls[k].answer \in {"accepted", "dashboard"} =>
              calls[k].board \in Dashboards /\ Who(k) \in Students
         /\ calls[k].answer \in {"persisted", "limit"} =>
              Who(k) \in Students /\ calls[k].what # "login"
<1>1. calls[k] \in Founded
  BY DEF TypeInv
<1>2. calls[k] \in Calls
  BY <1>1 DEF Founded
<1>3. Who(k) \in Owners /\ (Who(k) # None => Who(k) \in Students)
  BY <1>2 DEF Calls, Who, Owners
<1>. QED
  BY <1>1, <1>2, <1>3 DEF Founded, Calls, Who

LEMMA AttemptsTyped ==
  /\ \A row \in Rows \cup {None} : Attempts(row) \in Counts /\ Attempts(row) \in Nat
  /\ \A row \in Rows : Attempts(row) = row.count
  /\ \A n \in Counts : n \in Nat
  BY Nulls DEF Attempts, Rows, Counts

(***************************************************************************)
(* What the steps do                                                       *)
(***************************************************************************)

(* A row is written. *)
Puts(s, l, row) == rows' = [rows EXCEPT ![s][l] = row]

LEMMA RowPut ==
  ASSUME TypeInv, NEW s \in Students, NEW l \in Labs, NEW row \in Rows,
         Puts(s, l, row)
  PROVE  /\ rows' \in [Students -> [Labs -> Rows \cup {None}]]
         /\ rows'[s][l] = row
         /\ \A t \in Students, m \in Labs : t # s \/ m # l => rows'[t][m] = rows[t][m]
  BY DEF TypeInv, PageTypeOK, Puts

(* Where what a row holds comes from: the student on another device, or a  *)
(* request that carries the student's session.                             *)
Sourced(s, row) ==
  \/ row.draft = s /\ row.verdict = s
  \/ \E k \in Slots :
       /\ calls[k] # None /\ calls[k].answer = "none"
       /\ calls[k].what \in {"save", "validate"}
       /\ Who(k) = s
       /\ row.draft = calls[k].draft /\ row.verdict \in {s, calls[k].verdict}

Written ==
  \/ UNCHANGED rows
  \/ \E s \in Students, l \in Labs, row \in Rows :
       Puts(s, l, row) /\ Attempts(rows[s][l]) <= row.count /\ Sourced(s, row)

(* Saves, validations and other devices write one row, with no fewer       *)
(* attempts than before.                                                   *)
LEMMA ServerWrites ==
  ASSUME TypeInv, Next
  PROVE  Written
<1>1. ASSUME NEW k \in Slots, HandleSave(k)
      PROVE  Written
  <2>. DEFINE s == Who(k)
  <2>. DEFINE l == calls[k].lab
  <2>. DEFINE n == Attempts(rows[s][l])
  <2>. DEFINE row == [draft |-> calls[k].draft, verdict |-> calls[k].verdict, count |-> n]
  <2>1. calls[k] # None /\ calls[k].answer = "none" /\ calls[k].what = "save"
        /\ s \in Students /\ l \in Labs
    BY <1>1, CallTyped DEF HandleSave, Waits
  <2>2. n \in Counts /\ n \in Nat
    BY <2>1, StateTyped, AttemptsTyped
  <2>3. row \in Rows
    BY <2>1, <2>2, CallTyped DEF Rows
  <2>4. Puts(s, l, row)
    BY <1>1, <2>1, StateTyped DEF HandleSave, Puts
  <2>5. n <= row.count
    BY <2>2
  <2>6. Sourced(s, row)
    BY <2>1 DEF Sourced
  <2>. HIDE DEF s, l, row
  <2>. QED
    BY <2>1, <2>3, <2>4, <2>5, <2>6 DEF Written
<1>2. ASSUME NEW k \in Slots, HandleValidate(k)
      PROVE  Written
  <2>. DEFINE s == Who(k)
  <2>. DEFINE l == calls[k].lab
  <2>. DEFINE used == Attempts(rows[s][l])
  <2>. DEFINE row(n) == [draft |-> calls[k].draft, verdict |-> s, count |-> n]
  <2>1. calls[k] # None /\ calls[k].answer = "none" /\ calls[k].what = "validate"
        /\ s \in Students /\ l \in Labs
    BY <1>2, CallTyped DEF HandleValidate, Waits
  <2>2. used \in Counts /\ used \in Nat
    BY <2>1, StateTyped, AttemptsTyped
  <2>3. \/ UNCHANGED rows
        \/ \E n \in Counts : Puts(s, l, row(n)) /\ used <= n
    <3>1. CASE used < Limit + Excess /\ Puts(s, l, row(used + 1))
      <4>1. used + 1 \in Counts /\ used <= used + 1
        BY <2>2, <3>1, Nulls DEF Counts
      <4>. QED
        BY <3>1, <4>1
    <3>2. CASE Puts(s, l, row(used))
      BY <2>2, <3>2
    <3>3. \/ used < Limit + Excess /\ Puts(s, l, row(used + 1))
          \/ Puts(s, l, row(used))
          \/ UNCHANGED rows
      BY <1>2 DEF HandleValidate, Puts
    <3>. QED
      BY <3>1, <3>2, <3>3
  <2>4. ASSUME NEW n \in Counts
        PROVE  row(n) \in Rows /\ row(n).count = n /\ Sourced(s, row(n))
    <3>1. row(n) \in Rows
      BY <2>1, <2>4, CallTyped DEF Rows
    <3>. QED
      BY <2>1, <3>1 DEF Sourced
  <2>. HIDE DEF s, l, row, used
  <2>. QED
    BY <2>1, <2>3, <2>4 DEF Written, used
<1>3. ASSUME NEW s \in Students, NEW l \in Labs, Elsewhere(s, l)
      PROVE  Written
  <2>. DEFINE used == Attempts(rows[s][l])
  <2>. DEFINE row == [draft |-> s, verdict |-> s, count |-> used + 1]
  <2>1. used \in Counts /\ used \in Nat /\ used < Limit + Excess
    BY <1>3, StateTyped, AttemptsTyped DEF Elsewhere
  <2>2. used + 1 \in Counts /\ used <= used + 1
    BY <2>1, Nulls DEF Counts
  <2>3. row \in Rows /\ Sourced(s, row)
    BY <2>2 DEF Rows, Owners, Sourced
  <2>4. Puts(s, l, row)
    BY <1>3, StateTyped DEF Elsewhere, Puts
  <2>. QED
    BY <2>2, <2>3, <2>4 DEF Written
<1>4. \/ UNCHANGED rows
      \/ \E k \in Slots : HandleSave(k) \/ HandleValidate(k)
      \/ \E s \in Students, l \in Labs : Elsewhere(s, l)
  BY DEF Next, SwitchLab, Edit, Click, ClickSave, ClickValidate, ClickLogin, ClickLogout,
         Reload, Expire, Handle, HandleDashboard, HandleLogout,
         Arrive, CookieReceived, ArriveError, ArriveDashboard, ArriveResult, ArriveLogout
<1>. QED
  BY <1>1, <1>2, <1>3, <1>4 DEF Written

LEMMA WrittenTyped ==
  ASSUME TypeInv, Written
  PROVE  rows' \in [Students -> [Labs -> Rows \cup {None}]]
  BY RowPut, StateTyped DEF Written

(* The requests that a click sends. *)
LEMMA ClickSends ==
  ASSUME TypeInv, NEW k \in Slots, Click(k)
  PROVE  /\ UNCHANGED <<rows, cookie, page, late>>
         /\ \E what \in Whats, who \in Owners, draft \in Owners, verdict \in Owners :
              /\ Send(k, what, who, draft, verdict)
              /\ \/ /\ what \in {"save", "validate"} /\ Signed /\ who = cookie
                    /\ draft = page.drafts[page.lab]
                    /\ verdict \in {page.verdict[page.lab], None}
                    /\ UNCHANGED mixed
                 \/ what = "login" /\ ~Signed /\ Mixes
                 \/ what = "logout" /\ Signed /\ who = cookie /\ Mixes
<1>. USE StateTyped DEF Whats
<1>1. CASE ClickSave(k)
  BY <1>1 DEF ClickSave
<1>2. CASE ClickValidate(k)
  BY <1>2 DEF ClickValidate
<1>3. ASSUME NEW s \in Students, ClickLogin(k, s)
      PROVE  /\ UNCHANGED <<rows, cookie, page, late>>
             /\ s \in Owners /\ Send(k, "login", s, None, None) /\ ~Signed /\ Mixes
  BY <1>3 DEF ClickLogin
<1>4. CASE ClickLogout(k)
  BY <1>4 DEF ClickLogout
<1>. QED
  BY <1>1, <1>2, <1>3, <1>4 DEF Click

(* The answers of the server: a dashboard is that of the moment. *)
LEMMA HandleAnswers ==
  ASSUME TypeInv, NEW k \in Slots, Handle(k)
  PROVE  /\ calls[k] # None /\ calls[k].answer = "none"
         /\ UNCHANGED <<page, late, mixed>> /\ cookie' \in {cookie, None}
         /\ \E a \in {"persisted", "limit", "accepted", "dashboard", "ended"} : \E board :
              /\ Answer(k, a, board)
              /\ board \in {None, rows'[Who(k)]}
              /\ a \in {"accepted", "dashboard"} =>
                   board = rows'[Who(k)] /\ Who(k) \in Students
              /\ board # None => Who(k) \in Students
              /\ a = "accepted" => calls[k].what = "login"
              /\ a = "dashboard" => calls[k].what # "login"
              /\ a \in {"persisted", "limit"} => Who(k) \in Students /\ calls[k].what # "login"
<1>1. CASE HandleSave(k)
  BY <1>1, CallTyped DEF HandleSave, Waits
<1>2. CASE HandleValidate(k)
  BY <1>2, CallTyped DEF HandleValidate, Waits
<1>3. CASE HandleDashboard(k)
  BY <1>3, CallTyped DEF HandleDashboard, Waits
<1>4. CASE HandleLogout(k)
  BY <1>4, CallTyped DEF HandleLogout, Waits
<1>. QED
  BY <1>1, <1>2, <1>3, <1>4 DEF Handle

(* A request is over. *)
LEMMA DonePuts ==
  ASSUME TypeInv, NEW k \in Slots, Done(k)
  PROVE  /\ calls' \in [Slots -> Founded \cup {None}]
         /\ \A c \in Slots : calls'[c] # None => c # k /\ calls'[c] = calls[c]
  BY DEF Done, TypeInv

LEMMA ReloadPage ==
  ASSUME TypeInv, Reload
  PROVE  /\ \A c \in Slots : calls'[c] = None
         /\ calls' \in [Slots -> Founded \cup {None}]
         /\ \/ page' = Empty(page.lab)
            \/ \E p \in Pages :
                 /\ cookie \in Students /\ p.student = cookie
                 /\ p.drafts = page.drafts /\ p.verdict = page.verdict
                 /\ page' = SyncState(p, cookie, rows[cookie])
<1>1. ASSUME cookie # None
      PROVE  /\ [page EXCEPT !.student = cookie] \in Pages
             /\ [page EXCEPT !.student = cookie].student = cookie
             /\ [page EXCEPT !.student = cookie].drafts = page.drafts
             /\ [page EXCEPT !.student = cookie].verdict = page.verdict
  BY StateTyped DEF Pages
<1>. QED
  BY <1>1, StateTyped DEF Reload

(***************************************************************************)
(* Types                                                                   *)
(***************************************************************************)

LEMMA StepTyped ==
  ASSUME TypeInv, Next
  PROVE  TypeInv'
<1>0. rows' \in [Students -> [Labs -> Rows \cup {None}]]
  BY ServerWrites, WrittenTyped
<1>1. ASSUME calls' \in [Slots -> Founded \cup {None}],
             page' \in Pages, cookie' \in Owners, late' \in BOOLEAN, mixed' \in BOOLEAN
      PROVE  TypeInv'
  BY <1>0, <1>1, FoundedCalls DEF TypeInv, PageTypeOK
<1>. USE StateTyped
<1>2. ASSUME NEW l \in Labs, SwitchLab(l)
      PROVE  TypeInv'
  BY <1>1, <1>2 DEF SwitchLab, Pages
<1>3. CASE Edit
  BY <1>1, <1>3 DEF Edit, Pages
<1>4. CASE Reload
  <2>1. page' \in Pages
    BY <1>4, ReloadPage, EmptyTyped, SyncStateIs
  <2>. QED
    BY <1>1, <1>4, <2>1, ReloadPage DEF Reload
<1>5. CASE Expire \/ \E s \in Students, l \in Labs : Elsewhere(s, l)
  BY <1>1, <1>5 DEF Expire, Elsewhere
<1>6. ASSUME NEW k \in Slots, Click(k)
      PROVE  TypeInv'
  <2>1. mixed' \in BOOLEAN
    BY <1>6, ClickSends DEF Mixes
  <2>. QED
    BY <1>1, <1>6, <2>1, ClickSends, SendPuts
<1>7. ASSUME NEW k \in Slots, Handle(k)
      PROVE  TypeInv'
  <2>1. \A s \in Students : rows'[s] \in Dashboards
    BY <1>0 DEF Dashboards
  <2>2. calls' \in [Slots -> Founded \cup {None}]
    BY <1>7, <2>1, HandleAnswers, AnswerPuts
  <2>. QED
    BY <1>1, <1>7, <2>2, HandleAnswers
<1>8. ASSUME NEW k \in Slots, Arrive(k)
      PROVE  TypeInv'
  <2>1. CASE CookieReceived(k)
    <3>1. cookie' \in Owners
      BY <2>1, ReceivedPuts, CallTyped
    <3>. QED
      BY <1>1, <2>1, <3>1, ReceivedPuts DEF CookieReceived
  <2>2. CASE ArriveError(k)
    BY <1>1, <2>2, DonePuts DEF ArriveError
  <2>3. CASE ArriveDashboard(k)
    <3>1. calls[k] # None /\ calls[k].answer = "dashboard"
      BY <2>3 DEF ArriveDashboard, Arrives
    <3>2. page' \in Pages /\ late' \in BOOLEAN
      BY <2>3, <3>1, CallTyped, SyncStateIs DEF ArriveDashboard, Used
    <3>. QED
      BY <1>1, <2>3, <3>2, DonePuts DEF ArriveDashboard
  <2>4. CASE ArriveResult(k)
    <3>1. calls[k] # None /\ calls[k].answer \in {"persisted", "limit"}
      BY <2>4 DEF ArriveResult, Arrives
    <3>2. page' \in Pages
      BY <2>4, <3>1, CallTyped DEF ArriveResult, Pages
    <3>3. late' \in BOOLEAN
      BY <2>4, <3>1, CallTyped DEF ArriveResult, Used
    <3>4. calls' \in [Slots -> Founded \cup {None}]
      BY <2>4, SendPuts, DonePuts DEF ArriveResult, Whats
    <3>. QED
      BY <1>1, <2>4, <3>2, <3>3, <3>4 DEF ArriveResult
  <2>5. CASE ArriveLogout(k)
    BY <1>1, <2>5, StalePuts, EmptyTyped DEF ArriveLogout
  <2>. QED
    BY <1>8, <2>1, <2>2, <2>3, <2>4, <2>5 DEF Arrive
<1>. QED
  BY <1>2, <1>3, <1>4, <1>5, <1>6, <1>7, <1>8 DEF Next

LEMMA TypeStep == TypeInv /\ [Next]_vars => TypeInv'
<1>1. ASSUME TypeInv, UNCHANGED vars  PROVE  TypeInv'
  BY <1>1 DEF vars, TypeInv, PageTypeOK
<1>. QED
  BY <1>1, StepTyped

(* What the page keeps stays within its types, and so do the requests in   *)
(* flight and the rows: a count exceeds the limit of the server by no more *)
(* than racing validations do, which Bounded of SubmissionsProofs bounds.  *)
THEOREM PageTypeCorrect == Spec => []PageTypeOK
<1>1. TypeInv => PageTypeOK
  BY DEF TypeInv
<1>. QED
  BY <1>1, PageInitTyped, TypeStep, PTL DEF Spec

(***************************************************************************)
(* CountNeverAhead.  A count that is shown was once on record, and so were *)
(* the counts of every dashboard on its way: the counts on record only     *)
(* grow, so an old one is never ahead.                                     *)
(***************************************************************************)

CountInv ==
  /\ Signed => \A l \in Labs : page.count[l] <= Attempts(rows[page.student][l])
  /\ \A k \in Slots : calls[k] # None /\ calls[k].answer \in {"accepted", "dashboard"} =>
       \A l \in Labs : Attempts(calls[k].board[l]) <= Attempts(rows[Who(k)][l])

LEMMA AttemptsGrow ==
  ASSUME TypeInv, Next
  PROVE  \A t \in Students, m \in Labs :
           /\ Attempts(rows[t][m]) \in Nat /\ Attempts(rows'[t][m]) \in Nat
           /\ Attempts(rows[t][m]) <= Attempts(rows'[t][m])
<1>1. /\ rows \in [Students -> [Labs -> Rows \cup {None}]]
      /\ rows' \in [Students -> [Labs -> Rows \cup {None}]]
      /\ Written
  BY StateTyped, ServerWrites, WrittenTyped
<1>2. \A t \in Students, m \in Labs :
        Attempts(rows[t][m]) \in Nat /\ Attempts(rows'[t][m]) \in Nat
  BY <1>1, AttemptsTyped
<1>3. CASE UNCHANGED rows
  BY <1>2, <1>3
<1>4. ASSUME NEW s \in Students, NEW l \in Labs, NEW row \in Rows,
             Puts(s, l, row), Attempts(rows[s][l]) <= row.count,
             NEW t \in Students, NEW m \in Labs
      PROVE  Attempts(rows[t][m]) <= Attempts(rows'[t][m])
  <2>1. CASE t = s /\ m = l
    BY <1>4, <2>1, RowPut, AttemptsTyped
  <2>2. CASE ~(t = s /\ m = l)
    BY <1>2, <1>4, <2>2, RowPut
  <2>. QED
    BY <2>1, <2>2
<1>. QED
  BY <1>1, <1>2, <1>3, <1>4 DEF Written

LEMMA CountStep ==
  ASSUME TypeInv, CountInv, Next
  PROVE  CountInv'
<1>1. \A k \in Slots : calls[k] # None /\ calls[k].answer \in {"accepted", "dashboard"} =>
        /\ Who(k) \in Students /\ calls[k].board \in Dashboards
        /\ \A l \in Labs : /\ Attempts(calls[k].board[l]) \in Nat
                           /\ Attempts(calls[k].board[l]) <= Attempts(rows'[Who(k)][l])
  <2>1. \A board \in Dashboards, l \in Labs : Attempts(board[l]) \in Nat
    BY AttemptsTyped DEF Dashboards
  <2>. QED
    BY <2>1, CallTyped, AttemptsGrow DEF CountInv
<1>2. ASSUME Signed
      PROVE  \A l \in Labs : page.count[l] <= Attempts(rows'[page.student][l])
  <2>1. page.student \in Students /\ \A l \in Labs : page.count[l] \in Nat
    BY <1>2, StateTyped, AttemptsTyped DEF Pages
  <2>. QED
    BY <1>2, <2>1, AttemptsGrow DEF CountInv
<1>. DEFINE PageFine ==
       \/ page'.student = None
       \/ page'.student = page.student /\ page'.count = page.count
       \/ \A l \in Labs : page'.count[l] <= Attempts(rows'[page'.student][l])
<1>. DEFINE CallFine(k) ==
       calls'[k] # None /\ calls'[k].answer \in {"accepted", "dashboard"} =>
         \/ /\ calls[k] # None /\ calls[k].answer \in {"accepted", "dashboard"}
            /\ calls'[k].board = calls[k].board /\ calls'[k].cookie = calls[k].cookie
         \/ calls'[k].cookie \in Students /\ calls'[k].board = rows'[calls'[k].cookie]
<1>3. ASSUME PageFine, \A k \in Slots : CallFine(k)
      PROVE  CountInv'
  <2>1. Signed' => \A l \in Labs : page'.count[l] <= Attempts(rows'[page'.student][l])
    BY <1>2, <1>3 DEF Signed
  <2>2. ASSUME NEW k \in Slots, calls'[k] # None,
               calls'[k].answer \in {"accepted", "dashboard"}, NEW l \in Labs
        PROVE  Attempts(calls'[k].board[l]) <= Attempts(rows'[calls'[k].cookie][l])
    <3>1. CASE calls'[k].cookie \in Students /\ calls'[k].board = rows'[calls'[k].cookie]
      BY <2>2, <3>1, AttemptsGrow
    <3>2. CASE /\ calls[k] # None /\ calls[k].answer \in {"accepted", "dashboard"}
               /\ calls'[k].board = calls[k].board /\ calls'[k].cookie = calls[k].cookie
      BY <1>1, <2>2, <3>2 DEF Who
    <3>. QED
      BY <1>3, <2>2, <3>1, <3>2
  <2>. QED
    BY <2>1, <2>2 DEF CountInv, Who
<1>4. ASSUME UNCHANGED page  PROVE  PageFine
  BY <1>4
<1>5. ASSUME UNCHANGED calls  PROVE  \A k \in Slots : CallFine(k)
  BY <1>5
<1>6. ASSUME NEW k \in Slots, \A c \in Slots \ {k} : calls'[c] = calls[c] \/ calls'[c] = None,
             CallFine(k)
      PROVE  \A c \in Slots : CallFine(c)
  BY <1>6
<1>7. ASSUME NEW p \in Pages, NEW s \in Students, NEW board \in Dashboards,
             \A l \in Labs : Attempts(board[l]) <= Attempts(rows'[s][l]),
             page' = SyncState(p, s, board)
      PROVE  PageFine
  <2>1. page'.student = s /\ \A l \in Labs : page'.count[l] = Attempts(board[l])
    BY <1>7, SyncStateIs
  <2>. QED
    BY <1>7, <2>1
<1>8. ASSUME \/ \E l \in Labs : SwitchLab(l)
             \/ Edit
      PROVE  PageFine
  BY <1>8, StateTyped DEF SwitchLab, Edit, Pages
<1>9. CASE Reload
  <2>1. PageFine
    <3>1. CASE page' = Empty(page.lab)
      BY <3>1, StateTyped, EmptyTyped
    <3>2. ASSUME NEW p \in Pages, cookie \in Students,
                 page' = SyncState(p, cookie, rows[cookie])
          PROVE  PageFine
      BY <1>7, <3>2, StateTyped, AttemptsGrow
    <3>. QED
      BY <1>9, <3>1, <3>2, ReloadPage
  <2>2. \A c \in Slots : CallFine(c)
    BY <1>9, ReloadPage
  <2>. HIDE DEF PageFine, CallFine
  <2>. QED
    BY <1>3, <2>1, <2>2
<1>10. ASSUME NEW k \in Slots, Click(k)
       PROVE  CountInv'
  <2>1. CallFine(k) /\ \A c \in Slots \ {k} : calls'[c] = calls[c]
    BY <1>10, ClickSends, SendPuts
  <2>2. UNCHANGED page
    BY <1>10, ClickSends
  <2>. HIDE DEF PageFine, CallFine
  <2>. QED
    BY <1>3, <1>4, <1>6, <2>1, <2>2
<1>11. ASSUME NEW k \in Slots, Handle(k)
       PROVE  CountInv'
  <2>1. CallFine(k) /\ \A c \in Slots \ {k} : calls'[c] = calls[c]
    <3>1. \A s \in Students : rows'[s] \in Dashboards
      BY ServerWrites, WrittenTyped DEF Dashboards
    <3>. QED
      BY <1>11, <3>1, HandleAnswers, AnswerPuts DEF Who
  <2>2. UNCHANGED page
    BY <1>11, HandleAnswers
  <2>. HIDE DEF PageFine, CallFine
  <2>. QED
    BY <1>3, <1>4, <1>6, <2>1, <2>2
<1>12. ASSUME NEW k \in Slots, Arrive(k)
       PROVE  CountInv'
  <2>1. CASE CookieReceived(k)
    <3>1. CallFine(k) /\ \A c \in Slots \ {k} : calls'[c] = calls[c]
      BY <2>1, ReceivedPuts
    <3>2. UNCHANGED page
      BY <2>1 DEF CookieReceived
    <3>. HIDE DEF PageFine, CallFine
    <3>. QED
      BY <1>3, <1>4, <1>6, <3>1, <3>2
  <2>2. ASSUME Done(k)
        PROVE  \A c \in Slots : CallFine(c)
    BY <2>2, DonePuts
  <2>3. CASE ArriveError(k)
    <3>. HIDE DEF PageFine, CallFine
    <3>. QED
      BY <1>3, <1>4, <2>2, <2>3 DEF ArriveError
  <2>4. CASE ArriveDashboard(k)
    <3>1. calls[k] # None /\ calls[k].answer = "dashboard"
          /\ page' = SyncState(page, Who(k), calls[k].board)
      BY <2>4 DEF ArriveDashboard, Arrives
    <3>2. PageFine
      BY <1>1, <1>7, <3>1, StateTyped
    <3>. HIDE DEF PageFine, CallFine
    <3>. QED
      BY <1>3, <2>2, <2>4, <3>2 DEF ArriveDashboard
  <2>5. CASE ArriveResult(k)
    <3>1. PageFine
      BY <2>5, StateTyped DEF ArriveResult, Pages
    <3>2. \A c \in Slots : CallFine(c)
      <4>1. CASE Send(k, "refresh", cookie, None, None)
        BY <4>1, StateTyped, SendPuts DEF Whats
      <4>. QED
        BY <2>2, <2>5, <4>1 DEF ArriveResult
    <3>. HIDE DEF PageFine, CallFine
    <3>. QED
      BY <1>3, <3>1, <3>2
  <2>6. CASE ArriveLogout(k)
    <3>1. PageFine
      BY <2>6, StateTyped, EmptyTyped DEF ArriveLogout
    <3>2. \A c \in Slots : CallFine(c)
      BY <2>6, StalePuts DEF ArriveLogout
    <3>. HIDE DEF PageFine, CallFine
    <3>. QED
      BY <1>3, <3>1, <3>2
  <2>. QED
    BY <1>12, <2>1, <2>3, <2>4, <2>5, <2>6 DEF Arrive
<1>13. CASE \/ \E l \in Labs : SwitchLab(l)
            \/ Edit \/ Expire
            \/ \E s \in Students, l \in Labs : Elsewhere(s, l)
  <2>1. UNCHANGED calls
    BY <1>13 DEF SwitchLab, Edit, Expire, Elsewhere
  <2>2. PageFine
    <3>. HIDE DEF PageFine
    <3>. QED
      BY <1>4, <1>8, <1>13 DEF Expire, Elsewhere
  <2>. HIDE DEF PageFine, CallFine
  <2>. QED
    BY <1>3, <1>5, <2>1, <2>2
<1>. QED
  BY <1>9, <1>10, <1>11, <1>12, <1>13 DEF Next

(* The page never shows more attempts than are on record for the student   *)
(* it names, so it never refuses on its own what the server would accept:  *)
(* whatever answers arrive, however late, of whichever student.            *)
THEOREM CountIsNeverAhead == Spec => []CountNeverAhead
<1>1. Init => CountInv
  <2>1. ASSUME Init  PROVE  page.student = None
    BY <2>1, EmptyTyped DEF Init
  <2>. QED
    BY <2>1 DEF Init, CountInv, Signed
<1>2. TypeInv /\ CountInv /\ [Next]_vars => CountInv'
  <2>1. ASSUME CountInv, UNCHANGED vars  PROVE  CountInv'
    BY <2>1 DEF vars, CountInv, Signed, Who
  <2>. QED
    BY <2>1, CountStep
<1>3. CountInv => CountNeverAhead
  BY DEF CountInv, CountNeverAhead
<1>. QED
  BY <1>1, <1>2, <1>3, PageInitTyped, TypeStep, PTL DEF Spec

(***************************************************************************)
(* WorkIsOwn.  As long as no stale answer is used and no login or logout   *)
(* overlaps another one, everything that is on its way between the page    *)
(* and the server belongs to the student on the page or to the session     *)
(* that carries it, and the two are the same.                              *)
(***************************************************************************)

Of(s) == {s, None}

RowsOwn(board, s) ==
  \A l \in Labs : board[l] # None =>
    board[l].draft \in Of(s) /\ board[l].verdict \in Of(s)

PageOwn(p) ==
  \A l \in Labs : p.drafts[l] \in Of(p.student) /\ p.verdict[l] \in Of(p.student)

(* A login has a page without a student to itself; any other request of    *)
(* this turn is of the student on the page; what a request carries is of   *)
(* the session it carries, and so is its dashboard.                        *)
RequestOwn(c, student) ==
  /\ c.what = "login" => student = None
  /\ ~c.stale /\ c.what # "login" => student # None /\ c.cookie \in Of(student)
  /\ c.answer \in {"accepted", "dashboard"} => RowsOwn(c.board, c.cookie)
  /\ c.answer = "none" /\ c.cookie # None /\ c.what \in {"save", "validate"} =>
       c.draft \in Of(c.cookie) /\ c.verdict \in Of(c.cookie)

InOut(k) == calls[k] # None /\ calls[k].what \in {"login", "logout"}

(* Between the headers of a login and its script the cookie is ahead of    *)
(* the page; no other login or logout can touch it then.                   *)
Entering ==
  /\ \A k, m \in Slots : InOut(k) /\ InOut(m) => k = m
  /\ \A k \in Slots :
       calls[k] # None /\ calls[k].what = "login" /\ calls[k].answer = "dashboard" =>
         cookie \in Of(Who(k))

Own ==
  /\ PageOwn(page)
  /\ Signed => cookie \in Of(page.student)
  /\ \A s \in Students : RowsOwn(rows[s], s)
  /\ \A k \in Slots : calls[k] # None => RequestOwn(calls[k], page.student)
  /\ Entering

OwnInv == ~late /\ ~mixed => Own

(* The page after a dashboard. *)
LEMMA SyncOwn ==
  ASSUME NEW p \in Pages, NEW s \in Students, NEW board \in Dashboards,
         RowsOwn(board, s), p.student \in {None, s} => PageOwn(p)
  PROVE  PageOwn(SyncState(p, s, board))
  BY SyncStateIs DEF PageOwn, RowsOwn, Of

(* What is written is the student's own. *)
LEMMA RowsStayOwn ==
  ASSUME TypeInv, Own, Next
  PROVE  \A t \in Students : RowsOwn(rows'[t], t)
<1>1. ASSUME NEW s \in Students, NEW l \in Labs, NEW row \in Rows,
             Puts(s, l, row), Sourced(s, row)
      PROVE  \A t \in Students : RowsOwn(rows'[t], t)
  <2>1. row.draft \in Of(s) /\ row.verdict \in Of(s)
    BY <1>1, Nulls DEF Sourced, Own, RequestOwn, Who, Of
  <2>2. /\ rows'[s][l] = row
        /\ \A t \in Students, m \in Labs : t # s \/ m # l => rows'[t][m] = rows[t][m]
    BY <1>1, RowPut
  <2>3. ASSUME NEW t \in Students, NEW m \in Labs, rows'[t][m] # None
        PROVE  rows'[t][m].draft \in Of(t) /\ rows'[t][m].verdict \in Of(t)
    <3>1. CASE t = s /\ m = l
      BY <2>1, <2>2, <3>1
    <3>2. CASE ~(t = s /\ m = l)
      BY <2>2, <2>3, <3>2 DEF Own, RowsOwn
    <3>. QED
      BY <3>1, <3>2
  <2>. QED
    BY <2>3 DEF RowsOwn
<1>2. CASE UNCHANGED rows
  BY <1>2 DEF Own
<1>. QED
  BY <1>1, <1>2, ServerWrites DEF Written

(* Requests that only end, or only change in what does not matter here.    *)
LEMMA RequestsStayOwn ==
  ASSUME TypeInv, Own, cookie' \in {cookie, None},
         \A c \in Slots : calls'[c] # None =>
           /\ calls[c] # None /\ calls'[c].what = calls[c].what
           /\ \/ calls'[c] = calls[c]
              \/ /\ calls'[c].stale = calls[c].stale /\ calls'[c].cookie = calls[c].cookie
                 /\ calls'[c].answer # "none"
                 /\ calls'[c].answer = "dashboard" => calls[c].what # "login"
                 /\ calls'[c].answer \in {"accepted", "dashboard"} =>
                      RowsOwn(calls'[c].board, calls'[c].cookie)
  PROVE  /\ \A c \in Slots : calls'[c] # None => RequestOwn(calls'[c], page.student)
         /\ Entering'
<1>1. ASSUME NEW c \in Slots, calls'[c] # None
      PROVE  RequestOwn(calls'[c], page.student)
  BY <1>1 DEF Own, RequestOwn
<1>2. \A k \in Slots : InOut(k)' => InOut(k)
  BY DEF InOut
<1>3. ASSUME NEW k \in Slots, calls'[k] # None, calls'[k].what = "login",
             calls'[k].answer = "dashboard"
      PROVE  cookie' \in Of(calls'[k].cookie)
  BY <1>3 DEF Own, Entering, Who, Of
<1>. QED
  BY <1>1, <1>2, <1>3 DEF Own, Entering, Who

LEMMA OwnClick ==
  ASSUME TypeInv, Own, Next, NEW k \in Slots, Click(k), ~mixed'
  PROVE  Own'
<1>1. UNCHANGED <<rows, cookie, page, late>>
  BY ClickSends
<1>2. PICK what \in Whats, who \in Owners, draft \in Owners, verdict \in Owners :
        /\ Send(k, what, who, draft, verdict)
        /\ \/ /\ what \in {"save", "validate"} /\ Signed /\ who = cookie
              /\ draft = page.drafts[page.lab]
              /\ verdict \in {page.verdict[page.lab], None}
           \/ what = "login" /\ ~Signed /\ ~InFlight({"login", "logout"})
           \/ what = "logout" /\ Signed /\ who = cookie /\ ~InFlight({"login", "logout"})
  BY ClickSends DEF Mixes
<1>3. /\ \A c \in Slots \ {k} : calls'[c] = calls[c]
      /\ calls'[k].what = what /\ calls'[k].answer = "none"
      /\ calls'[k].cookie = who /\ calls'[k].verdict = verdict
      /\ calls'[k].draft = draft
  BY <1>2, SendPuts
<1>4. what # "login" =>
        page.student # None /\ who \in Of(page.student)
  BY <1>2 DEF Own, Signed
<1>5. what \in {"save", "validate"} /\ who # None => draft \in Of(who) /\ verdict \in Of(who)
  BY <1>2, <1>4, StateTyped DEF Own, PageOwn, Of
<1>6. RequestOwn(calls'[k], page.student)
  BY <1>2, <1>3, <1>4, <1>5 DEF RequestOwn, Signed
<1>7. Entering'
  <2>1. CASE what \in {"save", "validate"}
    BY <1>1, <1>3, <2>1 DEF Own, Entering, InOut, Who
  <2>2. CASE ~InFlight({"login", "logout"})
    <3>1. \A c \in Slots \ {k} : ~InOut(c)'
      BY <1>3, <2>2 DEF InFlight, InOut
    <3>. QED
      BY <1>3, <3>1 DEF Entering, InOut
  <2>. QED
    BY <1>2, <2>1, <2>2
<1>. QED
  BY <1>1, <1>3, <1>6, <1>7 DEF Own, Signed

LEMMA OwnHandle ==
  ASSUME TypeInv, Own, Next, NEW k \in Slots, Handle(k)
  PROVE  Own'
<1>1. /\ calls[k] # None /\ calls[k].answer = "none"
      /\ UNCHANGED <<page, late, mixed>> /\ cookie' \in {cookie, None}
  BY HandleAnswers
<1>2. \A s \in Students : rows'[s] \in Dashboards /\ RowsOwn(rows'[s], s)
  BY RowsStayOwn, ServerWrites, WrittenTyped DEF Dashboards
<1>3. /\ \A c \in Slots \ {k} : calls'[c] = calls[c]
      /\ calls'[k].what = calls[k].what /\ calls'[k].stale = calls[k].stale
      /\ calls'[k].cookie = calls[k].cookie /\ calls'[k].answer # "none"
      /\ calls'[k].answer = "dashboard" => calls[k].what # "login"
      /\ calls'[k].answer \in {"accepted", "dashboard"} =>
           RowsOwn(calls'[k].board, calls'[k].cookie)
  BY <1>1, <1>2, HandleAnswers, AnswerPuts DEF Who
<1>4. /\ \A c \in Slots : calls'[c] # None => RequestOwn(calls'[c], page.student)
      /\ Entering'
  BY <1>1, <1>3, RequestsStayOwn
<1>. QED
  BY <1>1, <1>2, <1>4 DEF Own, Signed, Of

LEMMA OwnArrive ==
  ASSUME TypeInv, Own, Next, NEW k \in Slots, Arrive(k), ~late'
  PROVE  Own'
<1>1. /\ UNCHANGED rows /\ \A s \in Students : RowsOwn(rows'[s], s)
  BY RowsStayOwn DEF Arrive, CookieReceived, ArriveError, ArriveDashboard, ArriveResult,
     ArriveLogout
<1>2. \A c \in Slots : calls[c] # None => RequestOwn(calls[c], page.student)
  BY DEF Own
<1>3. CASE CookieReceived(k)
  <2>1. UNCHANGED page /\ calls[k] # None
    BY <1>3, ReceivedPuts DEF CookieReceived
  <2>2. \A c \in Slots : calls'[c] # None => RequestOwn(calls'[c], page.student)
    BY <1>2, <1>3, <2>1, ReceivedPuts DEF RequestOwn
  <2>3. CASE cookie' = None
    <3>1. Entering'
      BY <1>3, <2>3, ReceivedPuts DEF Own, Entering, InOut, Of
    <3>. QED
      BY <1>1, <2>1, <2>2, <2>3, <3>1 DEF Own, Signed, Of
  <2>4. CASE calls[k].what = "login" /\ cookie' = Who(k)
    <3>1. page.student = None
      BY <1>2, <2>1, <2>4 DEF RequestOwn
    <3>2. \A c \in Slots \ {k} : ~InOut(c)' /\ InOut(k)'
      BY <1>3, <2>1, <2>4, ReceivedPuts DEF Own, Entering, InOut
    <3>3. Entering'
      <4>1. \A c \in Slots : calls'[c] # None /\ calls'[c].what = "login" => c = k
        BY <3>2 DEF InOut
      <4>2. \A c, m \in Slots : InOut(c)' /\ InOut(m)' => c = m
        BY <3>2
      <4>3. calls'[k].cookie = Who(k)
        BY <1>3, ReceivedPuts DEF Who
      <4>. QED
        BY <2>4, <4>1, <4>2, <4>3 DEF Entering, Who, Of
    <3>. QED
      BY <1>1, <2>1, <2>2, <3>1, <3>3 DEF Own, Signed
  <2>. QED
    BY <1>3, <2>3, <2>4, ReceivedPuts
<1>4. ASSUME Done(k), cookie' = cookie
      PROVE  /\ \A c \in Slots : calls'[c] # None => RequestOwn(calls'[c], page.student)
             /\ Entering'
  BY <1>4, DonePuts, RequestsStayOwn
<1>5. CASE ArriveError(k)
  BY <1>1, <1>4, <1>5 DEF ArriveError, Own, Signed
<1>6. CASE ArriveDashboard(k)
  <2>1. /\ calls[k] # None /\ calls[k].answer = "dashboard" /\ ~calls[k].stale
        /\ page' = SyncState(page, Who(k), calls[k].board)
        /\ Done(k) /\ UNCHANGED cookie
    BY <1>6 DEF ArriveDashboard, Arrives, Used
  <2>2. /\ Who(k) \in Students /\ calls[k].board \in Dashboards
        /\ RowsOwn(calls[k].board, Who(k))
        /\ \/ calls[k].what = "login" /\ page.student = None
           \/ /\ calls[k].what # "login"
              /\ page.student # None /\ Who(k) \in Of(page.student)
    BY <1>2, <2>1, CallTyped DEF RequestOwn, Who
  <2>3. PageOwn(page') /\ page'.student = Who(k)
    BY <2>1, <2>2, StateTyped, SyncOwn, SyncStateIs DEF Own
  <2>4. CASE calls[k].what = "login"
    <3>1. \A c \in Slots : calls'[c] # None =>
            c # k /\ calls[c] # None /\ calls'[c] = calls[c] /\ calls[c].what # "login"
      BY <2>1, <2>4, DonePuts DEF Own, Entering, InOut
    <3>2. \A c \in Slots : calls'[c] # None => RequestOwn(calls'[c], page'.student)
      BY <1>2, <2>2, <2>4, <3>1 DEF RequestOwn
    <3>3. cookie' \in Of(page'.student)
      BY <2>1, <2>3, <2>4 DEF Own, Entering
    <3>. QED
      BY <1>1, <1>4, <2>1, <2>3, <3>2, <3>3 DEF Own
  <2>5. CASE calls[k].what # "login"
    <3>1. page'.student = page.student /\ page.student # None
      BY <2>2, <2>3, <2>5, Nulls DEF Of
    <3>. QED
      BY <1>1, <1>4, <2>1, <2>3, <3>1 DEF Own, Signed
  <2>. QED
    BY <2>4, <2>5
<1>7. CASE ArriveResult(k)
  <2>1. /\ calls[k] # None /\ calls[k].answer \in {"persisted", "limit"} /\ ~calls[k].stale
    BY <1>7 DEF ArriveResult, Arrives, Used
  <2>2. /\ Who(k) \in Students /\ calls[k].what # "login" /\ calls[k].lab \in Labs
        /\ page.student # None /\ Who(k) = page.student
    BY <1>2, <2>1, CallTyped, Nulls DEF RequestOwn, Who, Of
  <2>3. /\ page'.student = page.student /\ page'.drafts = page.drafts
        /\ \A l \in Labs : page'.verdict[l] \in {page.verdict[l], page.student}
    BY <1>7, <2>2, StateTyped DEF ArriveResult, Pages
  <2>4. PageOwn(page')
    BY <2>3 DEF Own, PageOwn, Of
  <2>5. Send(k, "refresh", cookie, None, None) /\ UNCHANGED cookie
    BY <1>7, <2>2 DEF ArriveResult, Signed
  <2>6. /\ \A c \in Slots \ {k} : calls'[c] = calls[c]
        /\ calls'[k].what = "refresh" /\ calls'[k].answer = "none"
        /\ calls'[k].cookie = cookie
    BY <2>5, StateTyped, SendPuts DEF Whats
  <2>7. RequestOwn(calls'[k], page.student)
    BY <2>2, <2>6 DEF Own, Signed, RequestOwn
  <2>8. Entering'
    BY <2>5, <2>6 DEF Own, Entering, InOut, Who
  <2>. QED
    BY <1>1, <1>2, <2>2, <2>3, <2>4, <2>5, <2>6, <2>7, <2>8 DEF Own, Signed
<1>8. CASE ArriveLogout(k)
  <2>1. InOut(k) /\ page' = Empty(page.lab) /\ OthersStale(k) /\ UNCHANGED cookie
    BY <1>8 DEF ArriveLogout, InOut
  <2>2. \A c \in Slots : calls'[c] # None => RequestOwn(calls'[c], None)
    BY <1>2, <2>1, StalePuts DEF RequestOwn
  <2>3. \A c \in Slots : ~InOut(c)'
    BY <2>1, StalePuts DEF Own, Entering, InOut
  <2>4. Entering'
    BY <2>3 DEF Entering, InOut
  <2>5. PageOwn(page') /\ page'.student = None
    BY <2>1, StateTyped, EmptyTyped DEF PageOwn, Of
  <2>. QED
    BY <1>1, <2>2, <2>4, <2>5 DEF Own, Signed
<1>. QED
  BY <1>3, <1>5, <1>6, <1>7, <1>8 DEF Arrive

LEMMA OwnRest ==
  ASSUME TypeInv, Own, Next,
         \/ \E l \in Labs : SwitchLab(l)
         \/ Edit \/ Reload \/ Expire
         \/ \E s \in Students, l \in Labs : Elsewhere(s, l)
  PROVE  Own'
<1>1. \A s \in Students : RowsOwn(rows'[s], s)
  BY RowsStayOwn
<1>2. ASSUME UNCHANGED calls, cookie' \in {cookie, None}
      PROVE  /\ \A c \in Slots : calls'[c] # None => RequestOwn(calls'[c], page.student)
             /\ Entering'
  BY <1>2, RequestsStayOwn
<1>3. ASSUME NEW l \in Labs, SwitchLab(l)
      PROVE  Own'
  <2>1. /\ page'.student = page.student
        /\ page'.drafts = page.drafts /\ page'.verdict = page.verdict
    BY <1>3, StateTyped DEF SwitchLab, Pages
  <2>. QED
    BY <1>1, <1>2, <1>3, <2>1 DEF SwitchLab, Own, PageOwn, Signed
<1>4. CASE Edit
  <2>1. /\ page'.student = page.student /\ page'.verdict = page.verdict
        /\ \A l \in Labs : page'.drafts[l] \in {page.drafts[l], page.student}
    BY <1>4, StateTyped DEF Edit, Pages
  <2>2. PageOwn(page')
    BY <2>1 DEF Own, PageOwn, Of
  <2>. QED
    BY <1>1, <1>2, <1>4, <2>1, <2>2 DEF Edit, Own, Signed
<1>5. CASE Reload
  <2>1. Entering'
    BY <1>5, ReloadPage DEF Entering, InOut
  <2>2. CASE page' = Empty(page.lab)
    <3>1. PageOwn(page') /\ page'.student = None
      BY <2>2, StateTyped, EmptyTyped DEF PageOwn, Of
    <3>. QED
      BY <1>1, <1>5, <2>1, <3>1, ReloadPage DEF Own, Signed
  <2>3. ASSUME NEW p \in Pages, cookie \in Students, p.student = cookie,
               p.drafts = page.drafts, p.verdict = page.verdict,
               page' = SyncState(p, cookie, rows[cookie])
        PROVE  Own'
    <3>1. PageOwn(p)
      <4>1. page.student \in {None, cookie}
        BY <2>3, Nulls, StateTyped DEF Own, Signed, Of
      <4>2. \A l \in Labs : p.drafts[l] \in Of(page.student) /\ p.verdict[l] \in Of(page.student)
        BY <2>3 DEF Own, PageOwn
      <4>. QED
        BY <2>3, <4>1, <4>2 DEF PageOwn, Of
    <3>2. PageOwn(page') /\ page'.student = cookie
      BY <2>3, <3>1, StateTyped, SyncOwn, SyncStateIs DEF Own
    <3>. QED
      BY <1>1, <1>5, <2>1, <3>2, ReloadPage DEF Reload, Own, Of
  <2>. QED
    BY <1>5, <2>2, <2>3, ReloadPage
<1>6. CASE Expire
  BY <1>1, <1>2, <1>6 DEF Expire, Own, Signed, Of
<1>7. CASE \E s \in Students, l \in Labs : Elsewhere(s, l)
  <2>1. UNCHANGED <<cookie, page, calls>>
    BY <1>7 DEF Elsewhere
  <2>. QED
    BY <1>1, <1>2, <2>1 DEF Own, Signed
<1>. QED
  BY <1>3, <1>4, <1>5, <1>6, <1>7

(* No text and no result of one student is ever stored for another one, as *)
(* long as no answer to a request of an earlier turn is used and no login  *)
(* or logout overlaps another: for any number of students that take turns  *)
(* at one browser, of laboratories and of requests in flight.              *)
THEOREM WorkStaysOwn == Spec => []WorkIsOwn
<1>1. Init => OwnInv
  <2>1. ASSUME Init  PROVE  Own
    BY <2>1, EmptyTyped DEF Init, Own, PageOwn, RowsOwn, Signed, Of, Entering, InOut
  <2>. QED
    BY <2>1 DEF OwnInv
<1>2. TypeInv /\ OwnInv /\ [Next]_vars => OwnInv'
  <2>1. ASSUME Own, UNCHANGED vars  PROVE  Own'
    BY <2>1 DEF vars, Own, Signed, Entering, InOut, Who
  <2>2. ASSUME TypeInv, Own, Next, ~late', ~mixed'  PROVE  Own'
    BY <2>2, OwnClick, OwnHandle, OwnArrive, OwnRest DEF Next
  <2>3. [Next]_vars => (late => late') /\ (mixed => mixed')
    <3>1. CASE UNCHANGED vars
      BY <3>1 DEF vars
    <3>2. CASE Reload \/ Edit \/ Expire \/ \E l \in Labs : SwitchLab(l)
      BY <3>2 DEF Reload, Edit, Expire, SwitchLab
    <3>3. CASE \E s \in Students, l \in Labs : Elsewhere(s, l)
      BY <3>3 DEF Elsewhere
    <3>4. ASSUME NEW k \in Slots, Click(k)
          PROVE  (late => late') /\ (mixed => mixed')
      <4>1. late' = late /\ (mixed' = mixed \/ Mixes)
        BY <3>4 DEF Click, ClickSave, ClickValidate, ClickLogin, ClickLogout
      <4>2. Mixes => (mixed => mixed')
        BY Zenon DEF Mixes
      <4>3. mixed' = mixed => (mixed => mixed')
        BY SMT
      <4>4. late' = late => (late => late')
        BY SMT
      <4>. QED
        BY <4>1, <4>2, <4>3, <4>4, Zenon
    <3>5. ASSUME NEW k \in Slots, Handle(k)
          PROVE  UNCHANGED <<late, mixed>>
      BY <3>5 DEF Handle, HandleSave, HandleValidate, HandleDashboard, HandleLogout
    <3>6. ASSUME NEW k \in Slots, Arrive(k)
          PROVE  (late => late') /\ (mixed => mixed')
      <4>1. mixed' = mixed /\ (late' = late \/ Used(k))
        BY <3>6 DEF Arrive, CookieReceived, ArriveError, ArriveDashboard, ArriveResult,
                    ArriveLogout
      <4>2. Used(k) => (late => late')
        BY Zenon DEF Used
      <4>3. mixed' = mixed => (mixed => mixed')
        BY SMT
      <4>4. late' = late => (late => late')
        BY SMT
      <4>. QED
        BY <4>1, <4>2, <4>3, <4>4, Zenon
    <3>. QED
      BY <3>1, <3>2, <3>3, <3>4, <3>5, <3>6 DEF Next
  <2>. QED
    BY <2>1, <2>2, <2>3 DEF OwnInv
<1>3. OwnInv => WorkIsOwn
  BY DEF OwnInv, Own, RowsOwn, Of, WorkIsOwn
<1>. QED
  BY <1>1, <1>2, <1>3, PageInitTyped, TypeStep, PTL DEF Spec

=============================================================================
