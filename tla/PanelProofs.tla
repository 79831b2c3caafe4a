---------------------------- MODULE PanelProofs -----------------------------
(***************************************************************************)
(* Theorems of TerminalPanel, for any laboratories and any number of       *)
(* openings that overlap.                                                  *)
(***************************************************************************)
EXTENDS TerminalPanel, TLAPS

(***************************************************************************)
(* Helpers of the page                                                     *)
(***************************************************************************)

LEMMA OpeningTyped ==
  ASSUME NEW l \in Labs, NEW p \in Phases
  PROVE  /\ Opening(l, p) \in Terminals
         /\ Opening(l, p).lab = l
         /\ Opening(l, p).phase = p
  BY DEF Opening, Terminals

(* disconnectRuntimeTerminal closes one terminal and no other.             *)
LEMMA HangUpCloses ==
  ASSUME PanelTypeOK
  PROVE  /\ HangUp \in [Conns -> Terminals]
         /\ \A c \in Conns :
              /\ HangUp[c].lab = conn[c].lab
              /\ HangUp[c].phase \in Live => HangUp[c] = conn[c] /\ c # runtime.socket
              /\ HangUp[c].phase # conn[c].phase => HangUp[c].phase = "closing"
<1>1. \A c \in Conns : conn[c] \in Terminals /\ conn[c].lab \in Labs
  BY DEF PanelTypeOK, Terminals
<1>2. \A c \in Conns : /\ Opening(conn[c].lab, "closing") \in Terminals
                       /\ Opening(conn[c].lab, "closing").lab = conn[c].lab
                       /\ Opening(conn[c].lab, "closing").phase = "closing"
  BY <1>1, OpeningTyped DEF Phases
<1>. QED
  BY <1>1, <1>2 DEF HangUp, Live

LEMMA DisconnectedTyped ==
  /\ Disconnected \in Runtimes
  /\ Disconnected.session = None /\ Disconnected.socket = None
  /\ Disconnected.connected = FALSE /\ Disconnected.pending = None
  BY DEF Disconnected, NoRuntime, Runtimes

(* What is typed reaches one terminal, and changes neither its laboratory  *)
(* nor its phase.                                                          *)
LEMMA TypeKeeps ==
  ASSUME PanelTypeOK, NEW input \in Commands \cup {Interrupt}, Type(input)
  PROVE  /\ conn' \in [Conns -> Terminals]
         /\ \A c \in Conns : conn'[c].lab = conn[c].lab /\ conn'[c].phase = conn[c].phase
<1>. USE DEF PanelTypeOK, Type
<1>1. CASE runtime.socket \in Conns
  <2>1. conn[runtime.socket] \in Terminals
    BY <1>1
  <2>2. Append(conn[runtime.socket].shell, input) \in Seq(Commands \cup {Interrupt})
    BY <2>1 DEF Terminals
  <2>. QED
    BY <1>1, <2>1, <2>2 DEF Terminals
<1>2. CASE runtime.socket \notin Conns
  BY <1>2
<1>. QED
  BY <1>1, <1>2

LEMMA TrackedTyped ==
  ASSUME PanelTypeOK, NEW cmd \in Commands
  PROVE  /\ Tracked(cmd) \in Commands \cup {None}
         /\ Tracked(cmd) # None /\ Tracked(cmd).kind # "other" =>
              Tracked(cmd).lab = runtime.session
         /\ xterm /\ runtime.socket = None => Tracked(cmd) = None
<1>. USE PanelAssumption DEF PanelTypeOK
<1>1. CASE SessionOnScreen /\ cmd.lab = runtime.session
  BY <1>1 DEF Tracked, SessionOnScreen
<1>2. CASE SessionOnScreen /\ cmd.lab # runtime.session
  <2>1. runtime.session \in Labs
    BY <1>2 DEF SessionOnScreen
  <2>2. Tracked(cmd) = [lab |-> runtime.session, kind |-> "other"]
    BY <1>2 DEF Tracked
  <2>. QED
    BY <2>1, <2>2 DEF Commands
<1>3. CASE ~SessionOnScreen
  BY <1>3 DEF Tracked
<1>. QED
  BY <1>1, <1>2, <1>3

(* What the page knows of a terminal; PendingIsSession is why the output   *)
(* credits the right laboratory.                                           *)
LiveIsSession ==
  \A c \in Conns : conn[c].phase \in Live => conn[c].lab = runtime.session

PendingIsSession ==
  runtime.pending # None /\ runtime.pending.kind # "other"
    => runtime.pending.lab = runtime.session

LEMMA SendKeeps ==
  ASSUME PanelTypeOK, NEW cmd \in Commands, SendCommand(cmd)
  PROVE  /\ conn' \in [Conns -> Terminals]
         /\ runtime' \in Runtimes
         /\ \A c \in Conns : conn'[c].lab = conn[c].lab /\ conn'[c].phase = conn[c].phase
         /\ runtime'.session = runtime.session
         /\ runtime'.socket = runtime.socket
         /\ runtime'.connected = runtime.connected
         /\ xterm /\ runtime.socket = None => runtime'.pending = None
         /\ PendingIsSession'
<1>. USE TrackedTyped DEF PanelTypeOK
<1>1. /\ runtime' = [runtime EXCEPT !.pending = Tracked(cmd)]
         \/ runtime' = [runtime EXCEPT !.pending = Tracked(cmd),
                                      !.streaming = (cmd.kind = "watch")]
      /\ conn' = conn \/ Type(cmd)
  BY DEF SendCommand
<1>2. /\ runtime' \in Runtimes
      /\ runtime'.session = runtime.session
      /\ runtime'.socket = runtime.socket
      /\ runtime'.connected = runtime.connected
      /\ runtime'.pending = Tracked(cmd)
  BY <1>1 DEF Runtimes
<1>3. /\ conn' \in [Conns -> Terminals]
      /\ \A c \in Conns : conn'[c].lab = conn[c].lab /\ conn'[c].phase = conn[c].phase
  BY <1>1, TypeKeeps
<1>. QED
  BY <1>2, <1>3 DEF PendingIsSession

(***************************************************************************)
(* Type correctness                                                        *)
(***************************************************************************)

LEMMA PanelInitTyped == Init => PanelTypeOK
<1>. SUFFICES ASSUME Init  PROVE  PanelTypeOK
  OBVIOUS
<1>1. conn \in [Conns -> Terminals]
  BY OpeningTyped DEF Init, Phases
<1>2. runtime \in Runtimes /\ runtime.session = None /\ runtime.pending = None
  BY DEF Init, NoRuntime, Runtimes
<1>. QED
  BY <1>1, <1>2 DEF Init, PanelTypeOK

LEMMA PageTyped ==
  ASSUME PanelTypeOK, Page
  PROVE  PanelTypeOK'
<1>. USE DEF PanelTypeOK, access
<1>1. ASSUME NEW l \in Labs, SwitchLab(l)
      PROVE  PanelTypeOK'
  BY <1>1, HangUpCloses, DisconnectedTyped DEF SwitchLab, Blocked
<1>2. CASE Render \/ SessionStarts \/ SessionEnds \/ Enter
  <2>1. CASE Render \/ Enter
    <3>1. (active \in LocalLabs \/ ~student) \in BOOLEAN /\ (active \in LocalLabs) \in BOOLEAN
      OBVIOUS
    <3>2. CASE Render
      BY <3>1, <3>2 DEF Render, Blocked
    <3>3. CASE Enter
      BY <3>1, <3>3 DEF Enter, Blocked
    <3>. QED
      BY <2>1, <3>2, <3>3
  <2>2. CASE SessionStarts
    <3>1. (outlived \/ ~student) \in BOOLEAN
      OBVIOUS
    <3>. QED
      BY <2>2, <3>1 DEF SessionStarts
  <2>3. CASE SessionEnds
    BY <2>3 DEF SessionEnds
  <2>. QED
    BY <1>2, <2>1, <2>2, <2>3
<1>3. CASE Logout \/ ChangeStudent
  BY <1>3, HangUpCloses, DisconnectedTyped DEF Logout, ChangeStudent, Blocked
<1>4. ASSUME NEW t \in Tasks, ToggleTask(t)
      PROVE  PanelTypeOK'
  BY <1>4 DEF ToggleTask, Checklist
<1>5. CASE NoteStep
  BY <1>5 DEF NoteStep, Tasks
<1>6. ASSUME NEW k \in Kinds, ClickStep(k)
      PROVE  PanelTypeOK'
  <2>1. [lab |-> active, kind |-> k] \in Commands
    BY <1>6 DEF ClickStep, Guide, Kinds, Commands
  <2>. QED
    BY <1>6, <2>1, SendKeeps DEF ClickStep
<1>7. ASSUME NEW k \in Kinds, ClickStepInterrupting(k)
      PROVE  PanelTypeOK'
  <2>1. [lab |-> active, kind |-> k] \in Commands
    BY <1>7 DEF ClickStepInterrupting, Guide, Kinds, Commands
  <2>2. /\ runtime' = [runtime EXCEPT !.streaming = FALSE, !.pending = None]
        /\ waiting' \subseteq Commands
        /\ conn' \in [Conns -> Terminals]
    BY <1>7, <2>1, TypeKeeps DEF ClickStepInterrupting
  <2>3. runtime' \in Runtimes /\ runtime'.session = runtime.session
        /\ runtime'.socket = runtime.socket /\ runtime'.pending = None
    BY <2>2 DEF Runtimes
  <2>. QED
    BY <1>7, <2>2, <2>3 DEF ClickStepInterrupting
<1>8. ASSUME NEW cmd \in waiting, SendWaiting(cmd)
      PROVE  PanelTypeOK'
  BY <1>8, SendKeeps DEF SendWaiting
<1>9. ASSUME NEW k \in {"run", "watch", "other"}, TypeLine(k)
      PROVE  PanelTypeOK'
  <2>. DEFINE cmd == [lab |-> conn[runtime.socket].lab, kind |-> k]
  <2>1. runtime.socket \in Conns
    BY <1>9 DEF TypeLine, SocketOpen, Runtimes
  <2>2. cmd \in Commands
    BY <2>1 DEF Terminals, Commands
  <2>. HIDE DEF cmd
  <2>3. PICK p \in {Tracked(cmd), runtime.pending} :
          Type(cmd) /\ runtime' = [runtime EXCEPT !.pending = p]
    BY <1>9 DEF TypeLine, cmd
  <2>4. runtime' \in Runtimes /\ runtime'.socket = runtime.socket
    BY <2>2, <2>3, TrackedTyped DEF Runtimes
  <2>. QED
    BY <1>9, <2>1, <2>2, <2>3, <2>4, PanelAssumption, TypeKeeps DEF TypeLine
<1>10. CASE TypeInterrupt
  <2>1. /\ runtime' = [runtime EXCEPT !.streaming = FALSE, !.pending = None]
        /\ conn' \in [Conns -> Terminals]
    BY <1>10, TypeKeeps DEF TypeInterrupt
  <2>2. runtime' \in Runtimes /\ runtime'.session = runtime.session
        /\ runtime'.socket = runtime.socket /\ runtime'.pending = None
    BY <2>1 DEF Runtimes
  <2>. QED
    BY <1>10, <2>1, <2>2 DEF TypeInterrupt
<1>. QED
  BY <1>1, <1>2, <1>3, <1>4, <1>5, <1>6, <1>7, <1>8, <1>9, <1>10 DEF Page

LEMMA RestOfShell ==
  ASSUME NEW T, NEW q \in Seq(T), NEW i \in DOMAIN q
  PROVE  SubSeq(q, i + 1, Len(q)) \in Seq(T)
  OBVIOUS

LEMMA RestOfOutput ==
  ASSUME NEW T, NEW q \in Seq(T), q # << >>
  PROVE  Tail(q) \in Seq(T)
  OBVIOUS

LEMMA NetworkTyped ==
  ASSUME PanelTypeOK, NEW c \in Conns, Network(c)
  PROVE  PanelTypeOK'
<1>. USE DEF PanelTypeOK, access
<1>0. conn[c] \in Terminals /\ conn[c].lab \in Labs
  BY DEF Terminals
<1>1. CASE PressOpen(c)
  BY <1>1, OpeningTyped DEF PressOpen, Phases
<1>2. CASE OpenAnswer(c)
  <2>1. conn' \in [Conns -> Terminals]
    <3>. DEFINE h == HangUp
    <3>1. h \in [Conns -> Terminals]
      BY HangUpCloses
    <3>2. conn' = [h EXCEPT ![c].phase = "connecting"]
      BY <1>2 DEF OpenAnswer
    <3>. HIDE DEF h
    <3>. QED
      BY <3>1, <3>2 DEF Terminals, Phases
  <2>2. runtime' \in Runtimes /\ runtime'.socket = c
    BY <1>0, <1>2, DisconnectedTyped DEF OpenAnswer, Runtimes
  <2>. QED
    BY <1>2, <2>1, <2>2, PanelAssumption DEF OpenAnswer, Blocked
<1>3. CASE OpenFails(c) \/ SocketAccepted(c)
  <2>1. CASE OpenFails(c)
    BY <2>1 DEF OpenFails, Terminals, Phases, Blocked
  <2>2. CASE SocketAccepted(c)
    BY <2>2 DEF SocketAccepted, Terminals, Phases
  <2>. QED
    BY <1>3, <2>1, <2>2
<1>4. CASE SocketOpens(c)
  <2>1. conn' \in [Conns -> Terminals]
    <3>1. <<Prompt>> \in Seq(BOOLEAN)
      BY DEF Prompt
    <3>2. [conn[c] EXCEPT !.phase = "open", !.output = <<Prompt>>] \in Terminals
      BY <1>0, <3>1 DEF Terminals, Phases
    <3>3. conn' = [conn EXCEPT ![c].phase = "open", ![c].output = <<Prompt>>]
      BY <1>4 DEF SocketOpens
    <3>. QED
      BY <3>2, <3>3
  <2>2. /\ runtime' \in Runtimes
        /\ runtime'.session = runtime.session
        /\ runtime'.socket = runtime.socket
        /\ runtime'.pending = runtime.pending
    BY <1>4 DEF SocketOpens, Runtimes
  <2>3. completed' \in [Labs -> SUBSET Tasks]
    BY <1>4 DEF SocketOpens, Tasks
  <2>. QED
    BY <1>4, <2>1, <2>2, <2>3 DEF SocketOpens, Blocked
<1>5. CASE SocketEnds(c)
  <2>1. conn' \in [Conns -> Terminals]
    BY <1>0, <1>5, OpeningTyped DEF SocketEnds, Phases
  <2>2. /\ runtime' \in Runtimes
        /\ runtime'.session = runtime.session
        /\ runtime'.socket = runtime.socket
        /\ runtime'.pending = None
    BY <1>5 DEF SocketEnds, Runtimes
  <2>. QED
    BY <1>5, <2>1, <2>2 DEF SocketEnds, Blocked
<1>6. CASE Collect(c)
  BY <1>6 DEF Collect, Terminals, Phases
<1>7. ASSUME NEW ok \in BOOLEAN, ShellEnds(c, ok)
      PROVE  PanelTypeOK'
  <2>1. Tail(conn[c].shell) \in Seq(Commands \cup {Interrupt})
    BY <1>0, <1>7 DEF ShellEnds, Terminals
  <2>2. Append(conn[c].output, ok) \in Seq(BOOLEAN)
    BY <1>0 DEF Terminals
  <2>. QED
    BY <1>7, <2>1, <2>2 DEF ShellEnds, Terminals
<1>8. CASE ShellInterrupted(c)
  <2>1. PICK i \in DOMAIN conn[c].shell :
          conn' = [conn EXCEPT ![c].shell = SubSeq(@, i + 1, Len(@)),
                               ![c].output = Append(@, Prompt)]
    BY <1>8 DEF ShellInterrupted
  <2>2. SubSeq(conn[c].shell, i + 1, Len(conn[c].shell)) \in Seq(Commands \cup {Interrupt})
    BY <1>0, RestOfShell DEF Terminals
  <2>3. Append(conn[c].output, Prompt) \in Seq(BOOLEAN)
    BY <1>0 DEF Terminals, Prompt
  <2>4. conn' \in [Conns -> Terminals]
    <3>1. conn[c] \in Terminals /\ conn \in [Conns -> Terminals]
      BY <1>0
    <3>2. [conn[c] EXCEPT !.shell = SubSeq(@, i + 1, Len(@)), !.output = Append(@, Prompt)]
            \in Terminals
      BY <2>2, <2>3, <3>1 DEF Terminals
    <3>. QED
      BY <2>1, <3>1, <3>2
  <2>. QED
    BY <1>8, <2>4 DEF ShellInterrupted
<1>9. CASE Receive(c)
  <2>1. Tail(conn[c].output) \in Seq(BOOLEAN)
    BY <1>0, <1>9, RestOfOutput DEF Receive, Terminals
  <2>2. conn' \in [Conns -> Terminals]
    BY <1>9, <2>1 DEF Receive, Terminals
  <2>3. /\ runtime' \in Runtimes
        /\ runtime'.session = runtime.session
        /\ runtime'.socket = runtime.socket
        /\ runtime'.pending = None
    BY <1>9 DEF Receive, Runtimes
  <2>4. completed' \in [Labs -> SUBSET Tasks]
    BY <1>9 DEF Receive, Tasks
  <2>. QED
    BY <1>9, <2>2, <2>3, <2>4 DEF Receive
<1>10. CASE OpenBreaks(c)
  <2>1. conn' \in [Conns -> Terminals]
    BY <1>0, <1>10 DEF OpenBreaks, Terminals, Phases
  <2>2. runtime' \in Runtimes /\ ~xterm'
    BY <1>0, <1>10 DEF OpenBreaks, Runtimes, access
  <2>. QED
    BY <1>10, <2>1, <2>2 DEF OpenBreaks, Blocked
<1>. QED
  BY <1>1, <1>2, <1>3, <1>4, <1>5, <1>6, <1>7, <1>8, <1>9, <1>10 DEF Network

LEMMA PanelStepTyped == PanelTypeOK /\ [Next]_vars => PanelTypeOK'
<1>1. PanelTypeOK /\ UNCHANGED vars => PanelTypeOK'
  BY DEF PanelTypeOK, access, vars
<1>. QED
  BY <1>1, PageTyped, NetworkTyped DEF Next

(* Every reachable state of the panel is well typed, however openings,     *)
(* closes and laboratories overlap (the runtime half of app.js).           *)
THEOREM PanelTypeCorrect == Spec => []PanelTypeOK
  BY PanelInitTyped, PanelStepTyped, PTL DEF Spec

(***************************************************************************)
(* The terminal on the page                                                *)
(***************************************************************************)

(* Without xterm.js a session is noted but no terminal ever starts, so     *)
(* that nothing can be typed.                                              *)
Unloaded ==
  ~xterm =>
    /\ runtime.socket = None /\ runtime.pending = None /\ waiting = {}
    /\ \A c \in Conns : conn[c].phase \in {"unused", "posting"}

(* With nobody on the page, and no session since, the server accepts no    *)
(* socket, and none that it accepted is left.                              *)
SignedOut ==
  ~student /\ ~outlived =>
    ~cookie /\ \A c \in Conns : conn[c].phase \notin {"accepted", "open"}

(* ConnectedIsOpen and SignedOut rest on OneTerminal, which tells the      *)
(* socket that opens, or is closed, from all others; LiveIsSession gives   *)
(* its laboratory, also where OpenBreaks notes another one (Unloaded).     *)
PanelInv ==
  /\ OneTerminal
  /\ LiveIsSession
  /\ ConnectedIsOpen
  /\ PendingIsSession
  /\ Unloaded
  /\ SignedOut

(* What leaves the phases alone leaves the terminal of the page alone. *)
LEMMA CalmKeepsPanel ==
  ASSUME PanelTypeOK, PanelInv, PendingIsSession', Unloaded', SignedOut',
         \A c \in Conns : conn'[c].lab = conn[c].lab /\ conn'[c].phase = conn[c].phase,
         runtime'.session = runtime.session,
         runtime'.socket = runtime.socket,
         runtime'.connected = runtime.connected
  PROVE  PanelInv'
<1>. USE DEF PanelInv
<1>1. OneTerminal' /\ LiveIsSession'
  BY DEF OneTerminal, LiveIsSession
<1>2. ConnectedIsOpen'
  <2>1. runtime.connected => runtime.socket \in Conns
    BY DEF ConnectedIsOpen, SocketOpen, PanelTypeOK, Runtimes
  <2>. QED
    BY <2>1 DEF ConnectedIsOpen, SocketOpen
<1>. QED
  BY <1>1, <1>2

(* A terminal is hung up, and nothing takes its place. *)
LEMMA HangUpKeepsPanel ==
  ASSUME PanelTypeOK, PanelInv, conn' = HangUp, runtime' = Disconnected,
         waiting' = waiting, xterm' = xterm, cookie' = cookie,
         ~student' /\ ~outlived' => ~cookie
  PROVE  PanelInv'
<1>1. \A c \in Conns : conn'[c].phase \notin Live
  BY HangUpCloses DEF PanelInv, OneTerminal
<1>2. Unloaded'
  <2>1. ~xterm => /\ waiting = {}
                  /\ \A c \in Conns : conn[c].phase \in {"unused", "posting"}
    BY DEF PanelInv, Unloaded
  <2>2. ~xterm => HangUp = conn
    BY <2>1 DEF HangUp, PanelTypeOK, Live
  <2>. QED
    <3>1. SUFFICES ASSUME ~xterm
                   PROVE  /\ runtime'.socket = None /\ runtime'.pending = None
                          /\ waiting' = {}
                          /\ \A c \in Conns : conn'[c].phase \in {"unused", "posting"}
      BY DEF Unloaded
    <3>2. conn' = conn
      BY <2>2, <3>1
    <3>3. runtime'.socket = None /\ runtime'.pending = None
      BY DisconnectedTyped
    <3>4. waiting' = {}
      BY <2>1, <3>1
    <3>5. \A c \in Conns : conn'[c].phase \in {"unused", "posting"}
      <4>1. \A c \in Conns : conn[c].phase \in {"unused", "posting"}
        BY <2>1, <3>1
      <4>. QED
        BY <3>2, <4>1
    <3>. QED
      BY <3>3, <3>4, <3>5
<1>3. SignedOut'
  BY <1>1 DEF SignedOut, Live
<1>. QED
  BY <1>1, <1>2, <1>3, DisconnectedTyped DEF PanelInv, OneTerminal, LiveIsSession,
     ConnectedIsOpen, PendingIsSession

LEMMA PageKeepsPanel ==
  ASSUME PanelTypeOK, PanelInv, Page
  PROVE  PanelInv'
<1>0. PendingIsSession /\ Unloaded /\ SignedOut
  BY DEF PanelInv
<1>1. ASSUME NEW l \in Labs, SwitchLab(l)
      PROVE  PanelInv'
  <2>1. UNCHANGED <<student, cookie, xterm, outlived, waiting>>
    BY <1>1 DEF SwitchLab, access
  <2>2. CASE conn' = HangUp /\ runtime' = Disconnected
    BY <1>0, <2>1, <2>2, HangUpKeepsPanel DEF SignedOut
  <2>3. CASE conn' = conn /\ runtime' = runtime
    BY <1>0, <2>1, <2>3, CalmKeepsPanel DEF PendingIsSession, Unloaded, SignedOut
  <2>. QED
    BY <1>1, <2>2, <2>3 DEF SwitchLab
<1>2. CASE \/ Render \/ NoteStep \/ SessionStarts \/ SessionEnds \/ Enter
           \/ \E t \in Tasks : ToggleTask(t)
  <2>1. UNCHANGED <<conn, runtime, waiting, xterm>>
    BY <1>2 DEF Render, NoteStep, SessionStarts, SessionEnds, Enter, ToggleTask, access
  <2>2. SignedOut'
    <3>1. CASE SessionStarts
      BY <1>0, <3>1 DEF SessionStarts, SignedOut, PanelTypeOK
    <3>2. CASE SessionEnds \/ Enter
      BY <1>0, <3>2 DEF SessionEnds, Enter, SignedOut
    <3>3. CASE Render \/ NoteStep \/ \E t \in Tasks : ToggleTask(t)
      BY <1>0, <3>3 DEF Render, NoteStep, ToggleTask, access, SignedOut
    <3>. QED
      BY <1>2, <3>1, <3>2, <3>3
  <2>. QED
    BY <1>0, <2>1, <2>2, CalmKeepsPanel DEF PendingIsSession, Unloaded
<1>3. CASE Logout \/ ChangeStudent
  <2>1. /\ conn' = HangUp /\ runtime' = Disconnected
        /\ UNCHANGED <<cookie, xterm, waiting>>
        /\ ~student' /\ ~outlived' => ~cookie
    <3>1. CASE Logout
      BY <3>1 DEF Logout
    <3>2. CASE ChangeStudent
      BY <3>2 DEF ChangeStudent, access
    <3>. QED
      BY <1>3, <3>1, <3>2
  <2>. QED
    BY <2>1, HangUpKeepsPanel
<1>4. ASSUME NEW k \in Kinds, ClickStep(k)
      PROVE  PanelInv'
  <2>1. [lab |-> active, kind |-> k] \in Commands
    BY <1>4 DEF ClickStep, Guide, Kinds, Commands, PanelTypeOK
  <2>2. xterm /\ xterm' = xterm
    BY <1>4 DEF ClickStep, PanelInv, ConnectedIsOpen, SocketOpen, Unloaded, access
  <2>3. Unloaded'
    BY <2>2 DEF Unloaded
  <2>4. /\ SendCommand([lab |-> active, kind |-> k])
        /\ UNCHANGED <<student, cookie, outlived>>
    BY <1>4 DEF ClickStep, access
  <2>. QED
    BY <1>0, <2>1, <2>3, <2>4, SendKeeps, CalmKeepsPanel DEF SignedOut
<1>5. ASSUME NEW cmd \in waiting, SendWaiting(cmd)
      PROVE  PanelInv'
  <2>1. Unloaded'
    BY <1>0, <1>5 DEF SendWaiting, Unloaded, access
  <2>2. SendCommand(cmd) /\ UNCHANGED <<student, cookie, outlived>>
    BY <1>5 DEF SendWaiting, access
  <2>. QED
    BY <1>0, <2>1, <2>2, SendKeeps, CalmKeepsPanel DEF PanelTypeOK, SignedOut
<1>6. ASSUME NEW k \in Kinds, ClickStepInterrupting(k) \/ TypeInterrupt
      PROVE  PanelInv'
  <2>1. /\ Type(Interrupt)
        /\ runtime' = [runtime EXCEPT !.streaming = FALSE, !.pending = None]
        /\ UNCHANGED <<student, cookie, xterm, outlived>>
        /\ xterm
    BY <1>6 DEF ClickStepInterrupting, TypeInterrupt, access, PanelInv, ConnectedIsOpen,
       SocketOpen, Unloaded
  <2>2. /\ runtime'.session = runtime.session
        /\ runtime'.socket = runtime.socket
        /\ runtime'.connected = runtime.connected
        /\ runtime'.pending = None
    BY <2>1 DEF PanelTypeOK, Runtimes
  <2>. QED
    BY <1>0, <2>1, <2>2, TypeKeeps, CalmKeepsPanel DEF PendingIsSession, Unloaded, SignedOut
<1>7. ASSUME NEW k \in {"run", "watch", "other"}, TypeLine(k)
      PROVE  PanelInv'
  <2>. DEFINE cmd == [lab |-> conn[runtime.socket].lab, kind |-> k]
  <2>1. runtime.socket \in Conns
    BY <1>7 DEF TypeLine, SocketOpen, PanelTypeOK, Runtimes
  <2>2. cmd \in Commands
    BY <2>1 DEF PanelTypeOK, Terminals, Commands
  <2>. HIDE DEF cmd
  <2>3. PICK p \in {Tracked(cmd), runtime.pending} :
          /\ Type(cmd)
          /\ runtime' = [runtime EXCEPT !.pending = p]
          /\ UNCHANGED <<student, cookie, xterm, outlived>>
          /\ xterm
    BY <1>0, <1>7 DEF TypeLine, cmd, access, SocketOpen, Unloaded
  <2>4. /\ runtime'.session = runtime.session
        /\ runtime'.socket = runtime.socket
        /\ runtime'.connected = runtime.connected
        /\ runtime'.pending = p
    BY <2>3 DEF PanelTypeOK, Runtimes
  <2>5. PendingIsSession'
    BY <1>0, <2>2, <2>4, TrackedTyped DEF PendingIsSession
  <2>. QED
    BY <1>0, <2>2, <2>3, <2>4, <2>5, TypeKeeps, CalmKeepsPanel DEF Unloaded, SignedOut
<1>. QED
  BY <1>1, <1>2, <1>3, <1>4, <1>5, <1>6, <1>7 DEF Page, Kinds

(* Phases of terminals that are not live need no account. *)
LEMMA NetworkKeepsPanel ==
  ASSUME PanelTypeOK, PanelInv, NEW c \in Conns, Network(c)
  PROVE  PanelInv'
<1>0. PendingIsSession /\ Unloaded /\ SignedOut /\ conn[c] \in Terminals
  BY DEF PanelInv, PanelTypeOK
<1>. USE PanelAssumption DEF PanelTypeOK
<1>1. CASE PressOpen(c) \/ OpenFails(c) \/ OpenBreaks(c) \/ Collect(c)
  <2>1. /\ \A d \in Conns \ {c} : conn'[d] = conn[d]
        /\ conn'[c].phase \in {"posting", "unused"}
        /\ conn[c].phase \in {"posting", "unused", "closed"}
        /\ UNCHANGED <<student, cookie, xterm, outlived, waiting>>
    <3>1. CASE PressOpen(c)
      <4>1. Opening(active, "posting").phase = "posting"
        BY OpeningTyped DEF Phases
      <4>. QED
        BY <3>1, <4>1 DEF PressOpen, access
    <3>2. CASE OpenFails(c) \/ Collect(c)
      BY <1>0, <3>2 DEF OpenFails, Collect, Terminals, access
    <3>3. CASE OpenBreaks(c)
      BY <1>0, <3>3 DEF OpenBreaks, Terminals, access
    <3>. QED
      BY <1>1, <3>1, <3>2, <3>3
  <2>2. /\ \/ runtime' = runtime
           \/ ~xterm /\ runtime' = [runtime EXCEPT !.session = conn[c].lab]
    BY <1>1 DEF PressOpen, OpenFails, OpenBreaks, Collect
  <2>3. /\ runtime'.socket = runtime.socket /\ runtime'.connected = runtime.connected
        /\ runtime'.pending = runtime.pending
    BY <2>2 DEF Runtimes
  <2>4. OneTerminal' /\ Unloaded' /\ SignedOut'
    BY <1>0, <2>1, <2>3 DEF PanelInv, OneTerminal, Unloaded, SignedOut, Live
  <2>5. CASE runtime' = runtime
    <3>1. LiveIsSession'
      BY <2>1, <2>5 DEF PanelInv, LiveIsSession, Live
    <3>2. ConnectedIsOpen'
      BY <2>1, <2>5 DEF PanelInv, ConnectedIsOpen, SocketOpen, Runtimes
    <3>. QED
      BY <1>0, <2>4, <2>5, <3>1, <3>2 DEF PanelInv, PendingIsSession
  <2>6. CASE ~xterm
    <3>1. runtime'.socket = None /\ runtime'.pending = None /\ ~runtime'.connected
      BY <1>0, <2>3, <2>6 DEF Unloaded, PanelInv, ConnectedIsOpen, SocketOpen
    <3>2. \A d \in Conns : conn'[d].phase \notin Live
      BY <2>1, <2>4, <2>6 DEF Unloaded, Live
    <3>. QED
      BY <2>4, <3>1, <3>2 DEF PanelInv, LiveIsSession, ConnectedIsOpen, PendingIsSession
  <2>. QED
    BY <2>2, <2>5, <2>6
<1>2. CASE OpenAnswer(c)
  <2>. DEFINE h == HangUp
  <2>1. h \in [Conns -> Terminals] /\ \A d \in Conns : h[d].lab = conn[d].lab
    BY HangUpCloses
  <2>2. \A d \in Conns : h[d].phase \notin Live
    BY HangUpCloses DEF PanelInv, OneTerminal
  <2>3. conn' = [h EXCEPT ![c].phase = "connecting"]
    BY <1>2 DEF OpenAnswer
  <2>. HIDE DEF h
  <2>4. /\ \A d \in Conns \ {c} : conn'[d].phase \notin Live
        /\ conn'[c].phase = "connecting" /\ conn'[c].lab = conn[c].lab
    BY <2>1, <2>2, <2>3 DEF Terminals
  <2>5. /\ runtime'.session = conn[c].lab /\ runtime'.socket = c
        /\ runtime'.connected = FALSE /\ runtime'.pending = None
    BY <1>2, DisconnectedTyped DEF OpenAnswer, Runtimes
  <2>6. Unloaded' /\ SignedOut'
    BY <1>0, <1>2, <2>4 DEF OpenAnswer, access, Unloaded, SignedOut, Live
  <2>. QED
    BY <2>4, <2>5, <2>6 DEF PanelInv, OneTerminal, LiveIsSession, ConnectedIsOpen,
       PendingIsSession
<1>3. CASE SocketOpens(c) \/ SocketAccepted(c)
  <2>1. /\ \A d \in Conns \ {c} : conn'[d] = conn[d]
        /\ conn'[c].lab = conn[c].lab
        /\ conn[c].phase \in {"connecting", "accepted"}
        /\ conn'[c].phase \in {"accepted", "open"}
        /\ SocketOpens(c) => conn'[c].phase = "open"
        /\ conn[c].phase = "accepted" \/ cookie
        /\ UNCHANGED <<student, cookie, xterm, outlived>>
    BY <1>0, <1>3 DEF SocketOpens, SocketAccepted, Terminals, access
  <2>2. /\ runtime'.session = runtime.session
        /\ runtime'.socket = runtime.socket
        /\ runtime'.pending = runtime.pending
        /\ SocketOpens(c) \/ runtime' = runtime
    BY <1>3 DEF SocketOpens, SocketAccepted, Runtimes
  <2>3. runtime.socket = c /\ conn[c].lab = runtime.session
    BY <2>1 DEF PanelInv, OneTerminal, LiveIsSession, Live
  <2>4. Unloaded' /\ SignedOut'
    BY <1>0, <2>1, <2>2 DEF Unloaded, SignedOut
  <2>5. ConnectedIsOpen'
    BY <2>1, <2>2, <2>3 DEF PanelInv, ConnectedIsOpen, SocketOpen
  <2>. QED
    BY <2>1, <2>2, <2>3, <2>4, <2>5 DEF PanelInv, OneTerminal, LiveIsSession,
       PendingIsSession, Live
<1>4. CASE SocketEnds(c)
  <2>1. /\ \A d \in Conns \ {c} : conn'[d] = conn[d]
        /\ conn'[c].phase = "closed"
        /\ conn[c].phase \notin {"unused", "posting"}
        /\ UNCHANGED <<student, cookie, xterm, outlived>>
    <3>1. Opening(conn[c].lab, "closed").phase = "closed"
      BY <1>0, OpeningTyped DEF Terminals, Phases
    <3>. QED
      BY <1>4, <3>1 DEF SocketEnds, Live, access
  <2>2. /\ runtime'.session = runtime.session
        /\ runtime'.socket = runtime.socket
        /\ runtime'.connected = FALSE
        /\ runtime'.pending = None
    BY <1>4 DEF SocketEnds, Runtimes
  <2>3. Unloaded' /\ SignedOut'
    BY <1>0, <2>1 DEF Unloaded, SignedOut
  <2>. QED
    BY <2>1, <2>2, <2>3 DEF PanelInv, OneTerminal, LiveIsSession, ConnectedIsOpen,
       PendingIsSession, Live
<1>5. CASE ShellInterrupted(c) \/ Receive(c) \/ \E ok \in BOOLEAN : ShellEnds(c, ok)
  <2>1. \A d \in Conns : conn'[d].lab = conn[d].lab /\ conn'[d].phase = conn[d].phase
    <3>1. CASE ShellInterrupted(c)
      <4>1. PICK q, o : conn' = [conn EXCEPT ![c].shell = q, ![c].output = o]
        BY <3>1 DEF ShellInterrupted
      <4>. QED
        BY <1>0, <4>1 DEF Terminals
    <3>2. CASE Receive(c)
      BY <1>0, <3>2 DEF Receive, Terminals
    <3>3. CASE \E ok \in BOOLEAN : ShellEnds(c, ok)
      <4>1. PICK q, o : conn' = [conn EXCEPT ![c].shell = q, ![c].output = o]
        BY <3>3 DEF ShellEnds
      <4>. QED
        BY <1>0, <4>1 DEF Terminals
    <3>. QED
      BY <1>5, <3>1, <3>2, <3>3
  <2>2. /\ runtime'.session = runtime.session
        /\ runtime'.socket = runtime.socket
        /\ runtime'.connected = runtime.connected
        /\ runtime'.pending \in {runtime.pending, None}
    BY <1>5 DEF ShellInterrupted, Receive, ShellEnds, Runtimes
  <2>3. UNCHANGED <<student, cookie, xterm, outlived, waiting>>
    BY <1>5 DEF ShellInterrupted, Receive, ShellEnds, access
  <2>4. Unloaded' /\ SignedOut'
    BY <1>0, <2>1, <2>2, <2>3 DEF Unloaded, SignedOut
  <2>. QED
    BY <1>0, <2>1, <2>2, <2>4, CalmKeepsPanel DEF PendingIsSession
<1>. QED
  BY <1>1, <1>2, <1>3, <1>4, <1>5 DEF Network

LEMMA PanelStep == PanelTypeOK /\ PanelInv /\ [Next]_vars => PanelInv'
<1>1. PanelTypeOK /\ PanelInv /\ UNCHANGED vars => PanelInv'
  BY DEF PanelInv, OneTerminal, LiveIsSession, ConnectedIsOpen, SocketOpen,
     PendingIsSession, Unloaded, SignedOut, access, vars
<1>. QED
  BY <1>1, PageKeepsPanel, NetworkKeepsPanel DEF Next

LEMMA PanelAlways == Spec => [](PanelTypeOK /\ PanelInv)
<1>1. Init => PanelInv
  BY OpeningTyped DEF Init, PanelInv, OneTerminal, LiveIsSession, ConnectedIsOpen,
     PendingIsSession, Unloaded, SignedOut, Live, NoRuntime, Phases
<1>. QED
  BY PanelInitTyped, PanelStepTyped, <1>1, PanelStep, PTL DEF Spec

(* At most one terminal of the page is connecting or open, the one it      *)
(* shows (openRuntimeTerminal, disconnectRuntimeTerminal).                 *)
THEOREM OnlyTerminal == Spec => []OneTerminal
<1>1. PanelInv => OneTerminal
  BY DEF PanelInv
<1>. QED
  BY PanelAlways, <1>1, PTL

(* When the page takes its terminal for connected, the socket is open and  *)
(* belongs to the laboratory of the session, whatever late events of older *)
(* sockets arrive.                                                         *)
THEOREM ConnectedOpen == Spec => []ConnectedIsOpen
<1>1. PanelInv => ConnectedIsOpen
  BY DEF PanelInv
<1>. QED
  BY PanelAlways, <1>1, PTL

(* No terminal is open for a student who has left, unless a session        *)
(* outlived the page or came back since (clearStudentSession, and the      *)
(* server's look at the session in handleTerminalWebSocket).               *)
THEOREM LogoutEnds == Spec => []LogoutEndsTerminal
<1>1. PanelInv => LogoutEndsTerminal
  BY DEF PanelInv, SignedOut, LogoutEndsTerminal
<1>. QED
  BY PanelAlways, <1>1, PTL

(***************************************************************************)
(* Credit                                                                  *)
(***************************************************************************)

(* Only output, and the student's own ticks, tick the steps of a laboratory *)
(* (handleTaskToggle and the journal are the student's own).                *)
LEMMA OnlyOutputCredits ==
  ASSUME PanelTypeOK, [Next]_vars, NEW l \in Labs, NEW t \in Credited(l)
  PROVE  \E c \in Conns : Receive(c)
<1>1. /\ t \in completed'[l] /\ t \notin completed[l]
      /\ t = "steps" /\ ~ToggleTask(t) /\ ~NoteStep
  BY DEF Credited
<1>2. completed' # completed
  BY <1>1
<1>3. \A k \in Labs : ~SwitchLab(k)
  BY <1>2 DEF SwitchLab
<1>4. /\ ~Render /\ ~SessionStarts /\ ~SessionEnds /\ ~Enter /\ ~TypeInterrupt
      /\ \A k : ~ClickStep(k) /\ ~ClickStepInterrupting(k) /\ ~TypeLine(k)
      /\ \A cmd : ~SendWaiting(cmd)
  BY <1>2 DEF Render, SessionStarts, SessionEnds, Enter, TypeInterrupt, ClickStep,
     ClickStepInterrupting, TypeLine, SendWaiting
<1>5. ~Logout /\ ~ChangeStudent
  BY <1>1 DEF Logout, ChangeStudent
<1>6. \A u \in Tasks : ~ToggleTask(u)
  <2>1. ASSUME NEW u \in Tasks, ToggleTask(u), u # "steps"  PROVE  FALSE
    BY <1>1, <2>1 DEF ToggleTask, PanelTypeOK
  <2>. QED
    BY <1>1, <2>1
<1>7. \A c \in Conns : /\ ~PressOpen(c) /\ ~OpenAnswer(c) /\ ~OpenFails(c)
                       /\ ~OpenBreaks(c) /\ ~SocketAccepted(c)
                       /\ ~SocketEnds(c) /\ ~Collect(c) /\ ~ShellInterrupted(c)
                       /\ \A ok : ~ShellEnds(c, ok)
  BY <1>2 DEF PressOpen, OpenAnswer, OpenFails, OpenBreaks, SocketAccepted, SocketEnds,
     Collect, ShellInterrupted, ShellEnds
<1>8. \A c \in Conns : ~SocketOpens(c)
  BY <1>1 DEF SocketOpens, PanelTypeOK
<1>9. ~UNCHANGED vars
  BY <1>2 DEF vars
<1>. QED
  BY <1>1, <1>3, <1>4, <1>5, <1>6, <1>7, <1>8, <1>9 DEF Next, Page, Network

LEMMA CreditStep ==
  ASSUME PanelTypeOK, PanelInv, [Next]_vars, NEW l \in Labs, Credited(l) # {}
  PROVE  SocketOpen /\ conn[runtime.socket].lab = l
<1>1. PICK t \in Credited(l) : TRUE
  OBVIOUS
<1>2. PICK c \in Conns : Receive(c)
  BY <1>1, OnlyOutputCredits
<1>3. t = "steps" /\ t \in completed'[l] /\ t \notin completed[l]
  BY <1>1 DEF Credited
<1>4. runtime.pending # None /\ runtime.pending.kind # "other" /\ runtime.pending.lab = l
  BY <1>2, <1>3 DEF Receive, PanelTypeOK
<1>5. conn[c].phase = "open" /\ runtime.socket = c /\ conn[c].lab = runtime.session
  BY <1>2 DEF Receive, PanelInv, OneTerminal, LiveIsSession, Live
<1>. QED
  BY <1>4, <1>5, PanelAssumption DEF PanelInv, PendingIsSession, SocketOpen

(* Output ticks the steps of the laboratory only whose open terminal       *)
(* printed it, however laboratories are switched between a step, its pause *)
(* and its output (handleCommandAction, finalizeTrackedRuntimeCommand).     *)
THEOREM CreditWhereRun == Spec => CreditOnlyWhereRun
<1>1. PanelTypeOK /\ PanelInv /\ [Next]_vars =>
        [\A l \in Labs : Credited(l) # {} =>
           SocketOpen /\ conn[runtime.socket].lab = l]_vars
  BY CreditStep
<1>. QED
  BY PanelAlways, <1>1, PTL DEF Spec, CreditOnlyWhereRun

=============================================================================
