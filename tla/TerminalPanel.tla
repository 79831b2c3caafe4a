---------------------------- MODULE TerminalPanel ----------------------------
(***************************************************************************)
(* The terminal panel of the student's page (public/app.js): the button    *)
(* that opens the terminal of the laboratory on screen, the WebSockets it  *)
(* creates, the guided steps it sends, and the checklist it ticks from the *)
(* output.                                                                 *)
(*                                                                         *)
(* The page has one thread: a handler runs up to its next await, and       *)
(* clicks, answers, socket events and timers interleave between.  Each     *)
(* action is one such run.  What is typed and what is printed travels in   *)
(* order; the shell at the other end is the environment.                   *)
(*                                                                         *)
(* Abstractions: the checklist of a laboratory has a task for opening the  *)
(* terminal, if it has one, and one that its steps share; output is cut at *)
(* the prompts, so a chunk is all that one command prints; a typed line is *)
(* tracked as typed or, when the page lost part of it, not at all; errors  *)
(* match TERMINAL_FAILURE_PATTERN.  The page's other requests matter here  *)
(* only because their answers put a student on the page and render it      *)
(* again; the ticks a dashboard restores are left out.                     *)
(***************************************************************************)
EXTENDS Naturals, FiniteSets, Sequences, SequencesExt

CONSTANTS
  Labs,        \* laboratories (one per session of the course)
  LocalLabs,   \* those with executionMode "local"
  Conns,       \* openings of a terminal that may exist at once
  MaxInput,    \* bound on what is under way per terminal: commands (and
               \* one ^C behind them), chunks of output, and waiting steps
  Interrupt,   \* the character ^C
  None         \* null

ASSUME PanelAssumption ==
  /\ LocalLabs \subseteq Labs
  /\ None \notin Labs \cup Conns
  /\ MaxInput \in Nat \ {0}

(* A guided step runs in the terminal and ends ("run"), runs until it is   *)
(* interrupted ("watch"), or is only noted in the journal ("note").        *)
Kinds == {"run", "watch", "note"}

Guide(l) == IF l \in LocalLabs THEN {"note"} ELSE Kinds

Tasks == {"connect", "steps"}

(* Nothing opens a terminal in a local laboratory. *)
Checklist(l) == IF l \in LocalLabs THEN {"steps"} ELSE Tasks

(* What a terminal may be asked to execute: steps, and anything else.      *)
Commands == [lab : Labs, kind : {"run", "watch", "other"}]

VARIABLES
  student,    \* is a student on the page?
  cookie,     \* does the browser hold a session that the server accepts?
  xterm,      \* window.Terminal: has xterm.js been loaded?
  active,     \* the laboratory on screen
  locked,     \* openRuntimeButton.disabled
  conn,       \* each opening: its request, then its socket and shell
  runtime,    \* state.runtime
  waiting,    \* steps that wait for an interrupted one to end
  completed,  \* state.completedTasks, per laboratory
  outlived    \* history: with nobody on the page, has there been a session?

access == <<student, cookie, xterm, outlived>>
vars == <<access, active, locked, conn, runtime, waiting, completed>>

(* A socket is "connecting" until the server, which looks at the session,  *)
(* has "accepted" it, and "open" once the page has the event.              *)
Phases ==
  {"unused", "posting", "connecting", "accepted", "open", "closing", "closed"}

Live == {"connecting", "accepted", "open"}

Terminals ==
  [lab : Labs, phase : Phases, shell : Seq(Commands \cup {Interrupt}),
   output : Seq(BOOLEAN)]

Runtimes ==
  [session : Labs \cup {None}, socket : Conns \cup {None},
   connected : BOOLEAN, streaming : BOOLEAN, pending : Commands \cup {None}]

PanelTypeOK ==
  /\ <<student, cookie, xterm, outlived>> \in BOOLEAN \X BOOLEAN \X BOOLEAN \X BOOLEAN
  /\ active \in Labs
  /\ locked \in BOOLEAN
  /\ conn \in [Conns -> Terminals]
  /\ runtime \in Runtimes
  /\ xterm /\ runtime.socket = None =>
       runtime.session = None /\ runtime.pending = None
  /\ waiting \subseteq Commands
  /\ completed \in [Labs -> SUBSET Tasks]

NoRuntime ==
  [session |-> None, socket |-> None, connected |-> FALSE,
   streaming |-> FALSE, pending |-> None]

Opening(l, phase) == [lab |-> l, phase |-> phase, shell |-> << >>, output |-> << >>]

(* renderRuntimePanel disables the button only for these reasons. *)
Blocked(l, signed) == l \in LocalLabs \/ ~signed

(* A browser may come back with the session of an earlier visit. *)
Init ==
  /\ student = FALSE
  /\ cookie \in BOOLEAN /\ outlived = cookie
  /\ xterm \in BOOLEAN
  /\ active \in Labs
  /\ locked = TRUE
  /\ conn = [c \in Conns |-> Opening(active, "unused")]
  /\ runtime = NoRuntime
  /\ waiting = {}
  /\ completed = [l \in Labs |-> {}]

-----------------------------------------------------------------------------
(* Helpers of the page *)

(* getActiveRuntimeSession *)
SessionOnScreen == runtime.session = active

SocketOpen == runtime.socket # None /\ conn[runtime.socket].phase = "open"

(* Mutant of HangUp: the socket is forgotten, not closed. *)
HangUp_Forget == conn

(* disconnectRuntimeTerminal closes the socket, if there is one, ... *)
HangUp ==
  [c \in Conns |->
     IF c = runtime.socket /\ conn[c].phase \in Live
     THEN Opening(conn[c].lab, "closing") ELSE conn[c]]

(* Mutant of Disconnected: the command being tracked is not cleared. *)
Disconnected_Tracking == [NoRuntime EXCEPT !.pending = runtime.pending]

(* ... and resets the rest of the runtime. *)
Disconnected == NoRuntime

(* Mutant of Tracked: the terminal is not compared with the screen. *)
Tracked_Anywhere(cmd) == cmd

(* beginTrackingRuntimeCommand: a command is tracked when the terminal     *)
(* belongs to the laboratory on screen, and counts for the checklist when  *)
(* it is a step of that laboratory's guide.                                *)
Tracked(cmd) ==
  IF SessionOnScreen
  THEN IF cmd.lab = runtime.session THEN cmd
       ELSE [lab |-> runtime.session, kind |-> "other"]
  ELSE None

(* What is printed up to a prompt: does it look like a success?            *)
Prompt == TRUE

(* A line or a ^C goes to the shell of the current socket. *)
Type(input) ==
  /\ \/ Len(conn[runtime.socket].shell) < MaxInput
     \/ input = Interrupt /\ Interrupt \notin Range(conn[runtime.socket].shell)
  /\ conn' = [conn EXCEPT ![runtime.socket].shell = Append(@, input)]

-----------------------------------------------------------------------------
(* The student and the page *)

(* setActiveSession: another laboratory, or the same again, and render().  *)
SwitchLab(l) ==
  /\ active' = l
  /\ IF runtime.session \notin {None, l}
     THEN conn' = HangUp /\ runtime' = Disconnected
     ELSE UNCHANGED <<conn, runtime>>
  /\ locked' = Blocked(l, student)
  /\ UNCHANGED <<access, waiting, completed>>

(* The answer of a save or a validation renders the page again. *)
Render ==
  /\ locked' = Blocked(active, student)
  /\ UNCHANGED <<access, active, conn, runtime, waiting, completed>>

(* The answer of a login sets the cookie, before the script runs; a        *)
(* session of an earlier visit is accepted again.                          *)
SessionStarts ==
  /\ ~cookie
  /\ cookie' = TRUE
  /\ outlived' = (outlived \/ ~student)
  /\ UNCHANGED <<student, xterm, active, locked, conn, runtime, waiting, completed>>

(* The server has handled a logout, or the session expires. *)
SessionEnds ==
  /\ cookie
  /\ cookie' = FALSE
  /\ UNCHANGED <<student, xterm, outlived, active, locked, conn, runtime, waiting,
                 completed>>

(* syncStateFromDashboard puts the student of an answer (of a login, a     *)
(* save, a validation or the first load) on a page without one.            *)
Enter ==
  /\ ~student
  /\ student' = TRUE
  /\ outlived' = FALSE
  /\ locked' = Blocked(active, TRUE)
  /\ UNCHANGED <<cookie, xterm, active, conn, runtime, waiting, completed>>

(* The same for a dashboard of somebody else than the student there.       *)
ChangeStudent ==
  /\ student
  /\ conn' = HangUp
  /\ runtime' = Disconnected
  /\ completed' = [l \in Labs |-> {}]
  /\ locked' = Blocked(active, TRUE)
  /\ UNCHANGED <<access, active, waiting>>

(* Mutant of Logout: the terminal stays open. *)
Logout_KeepsTerminal ==
  /\ student' = FALSE
  /\ outlived' = cookie
  /\ locked' = TRUE
  /\ completed' = [l \in Labs |-> {}]
  /\ UNCHANGED <<cookie, xterm, active, conn, runtime, waiting>>

(* clearStudentSession, whether the logout has ended the session or not    *)
(* (its request may fail).                                                 *)
Logout ==
  /\ student' = FALSE
  /\ outlived' = cookie
  /\ conn' = HangUp
  /\ runtime' = Disconnected
  /\ completed' = [l \in Labs |-> {}]
  /\ locked' = TRUE
  /\ UNCHANGED <<cookie, xterm, active, waiting>>

(* handleTaskToggle: a task is ticked, or unticked, by hand. *)
ToggleTask(t) ==
  /\ t \in Checklist(active)
  /\ completed' = [completed EXCEPT ![active] =
       IF t \in @ THEN @ \ {t} ELSE @ \cup {t}]
  /\ UNCHANGED <<access, active, locked, conn, runtime, waiting>>

-----------------------------------------------------------------------------
(* Opening a terminal *)

(* The button: POST /api/runtime/open for the laboratory on screen. *)
PressOpen(c) ==
  /\ student /\ ~locked
  /\ active \notin LocalLabs
  /\ conn[c].phase = "unused"
  /\ conn' = [conn EXCEPT ![c] = Opening(active, "posting")]
  /\ locked' = TRUE
  /\ UNCHANGED <<access, active, runtime, waiting, completed>>

(* The answer: the old socket is closed and a new one takes its place,     *)
(* for the laboratory the request was made for, whoever is there by now.   *)
OpenAnswer(c) ==
  /\ xterm
  /\ conn[c].phase = "posting"
  /\ conn' = [HangUp EXCEPT ![c].phase = "connecting"]
  /\ runtime' = [Disconnected EXCEPT !.session = conn[c].lab, !.socket = c]
  /\ locked' = Blocked(active, student)
  /\ UNCHANGED <<access, active, waiting, completed>>

(* The answer on a page without xterm.js: ensureTerminalInstance throws,   *)
(* and the session just noted stays without a socket.                      *)
OpenBreaks(c) ==
  /\ ~xterm
  /\ conn[c].phase = "posting"
  /\ conn' = [conn EXCEPT ![c].phase = "unused"]
  /\ runtime' = [runtime EXCEPT !.session = conn[c].lab]
  /\ locked' = Blocked(active, student)
  /\ UNCHANGED <<access, active, waiting, completed>>

(* Mutant of OpenFails: the button is not given back. *)
OpenFails_Locked(c) ==
  /\ conn[c].phase = "posting"
  /\ conn' = [conn EXCEPT ![c].phase = "unused"]
  /\ UNCHANGED <<access, active, locked, runtime, waiting, completed>>

(* An error, or a runtime that is not enabled. *)
OpenFails(c) ==
  /\ conn[c].phase = "posting"
  /\ conn' = [conn EXCEPT ![c].phase = "unused"]
  /\ locked' = Blocked(active, student)
  /\ UNCHANGED <<access, active, runtime, waiting, completed>>

(* handleTerminalWebSocket: a request with a session is upgraded. *)
SocketAccepted(c) ==
  /\ conn[c].phase = "connecting"
  /\ cookie
  /\ conn' = [conn EXCEPT ![c].phase = "accepted"]
  /\ UNCHANGED <<access, active, locked, runtime, waiting, completed>>

(* The page sees the socket open, and the shell prints its first prompt.   *)
(* The handler ticks the connection task of the laboratory on screen.      *)
SocketOpens(c) ==
  /\ conn[c].phase = "accepted"
  /\ conn' = [conn EXCEPT ![c].phase = "open", ![c].output = <<Prompt>>]
  /\ runtime' = [runtime EXCEPT !.connected = TRUE]
  /\ completed' = IF active \in LocalLabs THEN completed
                  ELSE [completed EXCEPT ![active] = @ \cup {"connect"}]
  /\ locked' = Blocked(active, student)
  /\ UNCHANGED <<access, active, waiting>>

(* Mutant of SocketEnds: the page still believes it is connected. *)
SocketEnds_Connected(c) ==
  /\ conn[c].phase \in Live \cup {"closing"}
  /\ conn' = [conn EXCEPT ![c] = Opening(conn[c].lab, "closed")]
  /\ runtime' = [runtime EXCEPT !.streaming = FALSE, !.pending = None]
  /\ locked' = Blocked(active, student)
  /\ UNCHANGED <<access, active, waiting, completed>>

(* A socket fails or ends, the current one or one closed before: the       *)
(* handlers of "error" and "close" do not tell them apart.                 *)
SocketEnds(c) ==
  /\ conn[c].phase \in Live \cup {"closing"}
  /\ conn' = [conn EXCEPT ![c] = Opening(conn[c].lab, "closed")]
  /\ runtime' = [runtime EXCEPT
       !.connected = FALSE, !.streaming = FALSE, !.pending = None]
  /\ locked' = Blocked(active, student)
  /\ UNCHANGED <<access, active, waiting, completed>>

(* A closed socket that is no longer referenced is gone. *)
Collect(c) ==
  /\ conn[c].phase = "closed" /\ runtime.socket # c
  /\ conn' = [conn EXCEPT ![c].phase = "unused"]
  /\ UNCHANGED <<access, active, locked, runtime, waiting, completed>>

-----------------------------------------------------------------------------
(* Guided steps and typed commands *)

(* sendCommandToRuntime: tracked first, then sent, which fails without an  *)
(* open socket.                                                            *)
SendCommand(cmd) ==
  IF SocketOpen
  THEN /\ Type(cmd)
       /\ runtime' = [runtime EXCEPT !.pending = Tracked(cmd),
                                     !.streaming = (cmd.kind = "watch")]
  ELSE /\ runtime' = [runtime EXCEPT !.pending = Tracked(cmd)]
       /\ UNCHANGED conn

(* A step of the guide on screen is clicked while its terminal is          *)
(* connected and nothing streams.                                          *)
ClickStep(k) ==
  /\ k \in Guide(active) \ {"note"}
  /\ SessionOnScreen /\ runtime.connected /\ ~runtime.streaming
  /\ SendCommand([lab |-> active, kind |-> k])
  /\ UNCHANGED <<access, active, locked, waiting, completed>>

(* The same while a step streams: ^C, and the step waits 180 ms. *)
ClickStepInterrupting(k) ==
  /\ k \in Guide(active) \ {"note"}
  /\ SessionOnScreen /\ runtime.connected /\ runtime.streaming
  /\ Cardinality(waiting) < MaxInput
  /\ Type(Interrupt)
  /\ runtime' = [runtime EXCEPT !.streaming = FALSE, !.pending = None]
  /\ waiting' = waiting \cup {[lab |-> active, kind |-> k]}
  /\ UNCHANGED <<access, active, locked, completed>>

(* The time is over: the step is sent to the socket there is now. *)
SendWaiting(cmd) ==
  /\ cmd \in waiting
  /\ waiting' = waiting \ {cmd}
  /\ SendCommand(cmd)
  /\ UNCHANGED <<access, active, locked, completed>>

(* A step that only concerns the journal is done when it is clicked. *)
NoteStep ==
  /\ "note" \in Guide(active)
  /\ completed' = [completed EXCEPT ![active] = @ \cup {"steps"}]
  /\ UNCHANGED <<access, active, locked, conn, runtime, waiting>>

(* A line typed into the terminal; the page may have lost track of it. *)
TypeLine(kind) ==
  /\ SocketOpen
  /\ LET cmd == [lab |-> conn[runtime.socket].lab, kind |-> kind]
     IN /\ Type(cmd)
        /\ \E p \in {Tracked(cmd), runtime.pending} :
             runtime' = [runtime EXCEPT !.pending = p]
  /\ UNCHANGED <<access, active, locked, waiting, completed>>

(* ^C typed into the terminal. *)
TypeInterrupt ==
  /\ SocketOpen
  /\ Type(Interrupt)
  /\ runtime' = [runtime EXCEPT !.streaming = FALSE, !.pending = None]
  /\ UNCHANGED <<access, active, locked, waiting, completed>>

(* The shell ends the command at its head, with or without an error. *)
ShellEnds(c, ok) ==
  /\ conn[c].phase = "open" /\ conn[c].shell # << >>
  /\ Head(conn[c].shell) # Interrupt
  /\ Head(conn[c].shell).kind # "watch"
  /\ Len(conn[c].output) < MaxInput
  /\ conn' = [conn EXCEPT ![c].shell = Tail(@), ![c].output = Append(@, ok)]
  /\ UNCHANGED <<access, active, locked, runtime, waiting, completed>>

(* ^C reaches the shell: what was before it is dropped; a prompt. *)
ShellInterrupted(c) ==
  /\ conn[c].phase = "open" /\ Len(conn[c].output) < MaxInput
  /\ \E i \in DOMAIN conn[c].shell :
       /\ conn[c].shell[i] = Interrupt
       /\ Interrupt \notin Range(SubSeq(conn[c].shell, 1, i - 1))
       /\ conn' = [conn EXCEPT ![c].shell = SubSeq(@, i + 1, Len(@)),
                               ![c].output = Append(@, Prompt)]
  /\ UNCHANGED <<access, active, locked, runtime, waiting, completed>>

(* Output up to a prompt arrives: nothing streams any more, and the        *)
(* command being tracked is over; without an error it is ticked.           *)
Receive(c) ==
  /\ conn[c].phase = "open" /\ conn[c].output # << >>
  /\ conn' = [conn EXCEPT ![c].output = Tail(@)]
  /\ LET p == runtime.pending
     IN completed' = IF p # None /\ p.kind # "other" /\ Head(conn[c].output)
                     THEN [completed EXCEPT ![p.lab] = @ \cup {"steps"}]
                     ELSE completed
  /\ runtime' = [runtime EXCEPT !.streaming = FALSE, !.pending = None]
  /\ UNCHANGED <<access, active, locked, waiting>>

-----------------------------------------------------------------------------
Page ==
  \/ \E l \in Labs : SwitchLab(l)
  \/ Render
  \/ SessionStarts
  \/ SessionEnds
  \/ Enter
  \/ ChangeStudent
  \/ Logout
  \/ \E t \in Tasks : ToggleTask(t)
  \/ NoteStep
  \/ \E k \in Kinds : ClickStep(k)
  \/ \E k \in Kinds : ClickStepInterrupting(k)
  \/ \E cmd \in waiting : SendWaiting(cmd)
  \/ \E k \in {"run", "watch", "other"} : TypeLine(k)
  \/ TypeInterrupt

Network(c) ==
  \/ PressOpen(c)
  \/ OpenAnswer(c)
  \/ OpenBreaks(c)
  \/ OpenFails(c)
  \/ SocketAccepted(c)
  \/ SocketOpens(c)
  \/ SocketEnds(c)
  \/ Collect(c)
  \/ \E ok \in BOOLEAN : ShellEnds(c, ok)
  \/ ShellInterrupted(c)
  \/ Receive(c)

Next == Page \/ \E c \in Conns : Network(c)

Spec == Init /\ [][Next]_vars

(* Of the requests to open a terminal that are under way, one is answered  *)
(* or fails in the end: the server gives each of them 90 seconds.          *)
Fairness == WF_vars(\E c \in Conns : OpenAnswer(c) \/ OpenBreaks(c) \/ OpenFails(c))

FairSpec == Spec /\ Fairness

-----------------------------------------------------------------------------
(* Properties *)

(* However answers are delayed and laboratories switched, at most one      *)
(* terminal of the page is connecting or open: the one it shows            *)
(* (disconnectRuntimeTerminal before every new WebSocket).                 *)
OneTerminal ==
  \A c \in Conns : conn[c].phase \in Live => runtime.socket = c

(* When the page takes the terminal for connected, so that guided steps go *)
(* out at once, its socket is open and belongs to the laboratory of the    *)
(* runtime session, whatever late events of older sockets arrive.          *)
ConnectedIsOpen ==
  runtime.connected =>
    SocketOpen /\ conn[runtime.socket].lab = runtime.session

(* No terminal is open on the page of a student who has left, not even one *)
(* whose opening was under way and is answered later (clearStudentSession; *)
(* the server accepts no socket without a session), unless the session     *)
(* outlived the page of the student: the request of the logout failed, or  *)
(* the next login has its cookie already.                                  *)
LogoutEndsTerminal ==
  ~student /\ ~outlived => \A c \in Conns : conn[c].phase # "open"

(* The tasks that this step ticks from the terminal's output. *)
Credited(l) ==
  {t \in completed'[l] \ completed[l] :
     t = "steps" /\ ~ToggleTask(t) /\ ~NoteStep}

(* The output ticks a task only in the checklist of the laboratory whose   *)
(* terminal printed it, though the student may have switched laboratory    *)
(* between the command, the 180 ms pause and the output.                   *)
CreditOnlyWhereRun ==
  [][\A l \in Labs : Credited(l) # {} =>
       SocketOpen /\ conn[runtime.socket].lab = l]_vars

(* The button that opens a terminal always comes back, unless the          *)
(* laboratory on screen has no terminal or nobody is signed in.            *)
OpenReturns ==
  []<>(~locked \/ Blocked(active, student))

=============================================================================
