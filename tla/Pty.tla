--------------------------------- MODULE Pty ---------------------------------
(***************************************************************************)
(* startShellAndWait (cli/shell.go): the shell on a pty, the goroutine     *)
(* that gives the pty the size of the user's terminal at every SIGWINCH,   *)
(* the set-up commands whose echo is thrown away, and the goroutines that  *)
(* copy between the terminal and the pty.                                  *)
(*                                                                         *)
(* The text on the pty is counted in units of the set-up commands' length: *)
(* startShellAndWait throws away Skipped = 2 of them.                      *)
(***************************************************************************)
EXTENDS Naturals

CONSTANTS
  Sizes,     \* sizes the user's terminal may have
  NoSize,    \* the size of a pty nobody has set
  Echoes     \* how much a shell may echo of its set-up before it waits

ASSUME PtyAssumption == NoSize \notin Sizes /\ Echoes \subseteq Nat

(* Mutant: as much is thrown away as a shell that echoes a prompt writes. *)
SkippedPrompt == 3

Skipped == 2

VARIABLES
  main,         \* where startShellAndWait is
  registered,   \* signal.Notify has been called for ch, signal.Stop has not
  raised,       \* a SIGWINCH the runtime has not delivered
  ch,           \* what is in ch, whose capacity is 1
  closed,       \* ch is closed
  resizer,      \* where the goroutine that drains ch is
  read,         \* the size it has read from the terminal
  size,         \* the size of the terminal
  ptySize,      \* the size of the pty
  child,        \* the shell
  echo,         \* what the shell has still to echo of the set-up
  output,       \* what is on the pty to be read
  skip,         \* what io.CopyN has still to throw away
  copying,      \* the goroutines that copy run
  typed, input, \* a Ctrl-D in the terminal, and in the pty
  crashed       \* a goroutine has panicked

window   == <<registered, raised, ch, closed, resizer, read, size, ptySize>>
shell    == <<child, echo, output>>
text     == <<skip, copying, typed, input>>
vars     == <<main, window, shell, text, crashed>>

MainSteps == {"start", "notify", "spawn", "send", "makeRaw", "write", "skip",
              "copy", "wait", "stop", "close", "returned"}
Resizers  == {"none", "range", "get", "set", "done"}
Children  == {"none", "running", "done"}

TypeOK ==
  /\ main \in MainSteps
  /\ registered \in BOOLEAN /\ raised \in BOOLEAN /\ closed \in BOOLEAN
  /\ ch \in 0..1
  /\ resizer \in Resizers
  /\ read \in Sizes \cup {NoSize} /\ ptySize \in Sizes \cup {NoSize}
  /\ size \in Sizes
  /\ child \in Children
  /\ echo \in Nat /\ output \in Nat
  /\ skip \in 0..Skipped
  /\ copying \in BOOLEAN /\ typed \in BOOLEAN /\ input \in BOOLEAN
  /\ crashed \in BOOLEAN

Init ==
  /\ main = "start"
  /\ registered = FALSE /\ raised = FALSE /\ ch = 0 /\ closed = FALSE
  /\ resizer = "none" /\ read = NoSize
  /\ size \in Sizes /\ ptySize = NoSize
  /\ child = "none" /\ echo \in Echoes /\ output = 0
  /\ skip = Skipped
  /\ copying = FALSE /\ typed = FALSE /\ input = FALSE
  /\ crashed = FALSE

-----------------------------------------------------------------------------
(* startShellAndWait *)

(* Mutant: the first resize is sent before the goroutine is started. *)
AfterSendFirst(step) ==
  [start |-> "notify", notify |-> "send", send |-> "spawn", spawn |-> "makeRaw",
   makeRaw |-> "write", write |-> "skip", skip |-> "copy", copy |-> "wait",
   wait |-> "stop", stop |-> "close", close |-> "returned"][step]

(* Mutant: the channel is closed before the signals are stopped. *)
AfterCloseFirst(step) ==
  [start |-> "notify", notify |-> "spawn", spawn |-> "send", send |-> "makeRaw",
   makeRaw |-> "write", write |-> "skip", skip |-> "copy", copy |-> "wait",
   wait |-> "close", close |-> "stop", stop |-> "returned"][step]

(* The order of its steps; the deferred calls come after "wait". *)
After(step) ==
  [start |-> "notify", notify |-> "spawn", spawn |-> "send", send |-> "makeRaw",
   makeRaw |-> "write", write |-> "skip", skip |-> "copy", copy |-> "wait",
   wait |-> "stop", stop |-> "close", close |-> "returned"][step]

At(step)    == ~crashed /\ main = step
Goto(step)  == main' = step
Step(step)  == At(step) /\ Goto(After(step))

(* no SHELL, or pty.Start fails; or the shell runs *)
Start ==
  \/ At("start") /\ Goto("returned") /\ UNCHANGED <<window, shell, text, crashed>>
  \/ /\ Step("start")
     /\ child' = "running"
     /\ UNCHANGED <<window, echo, output, text, crashed>>

Notify ==
  /\ Step("notify")
  /\ registered' = TRUE
  /\ UNCHANGED <<raised, ch, closed, resizer, read, size, ptySize, shell, text, crashed>>

SpawnResizer ==
  /\ Step("spawn")
  /\ resizer' = "range"
  /\ UNCHANGED <<registered, raised, ch, closed, read, size, ptySize, shell, text, crashed>>

(* ch <- syscall.SIGWINCH waits while ch is full. *)
SendFirst ==
  /\ Step("send") /\ ch = 0
  /\ ch' = 1
  /\ UNCHANGED <<registered, raised, closed, resizer, read, size, ptySize, shell, text, crashed>>

(* term.MakeRaw, or a panic that runs the deferred calls so far *)
MakeRaw ==
  /\ At("makeRaw")
  /\ Goto(After("makeRaw")) \/ Goto(After("wait"))
  /\ UNCHANGED <<window, shell, text, crashed>>

WriteSetup ==
  /\ Step("write")
  /\ UNCHANGED <<window, shell, text, crashed>>

(* Mutant: the read does not end with the shell. *)
SkipEchoOnly ==
  \/ /\ At("skip") /\ skip > 0 /\ output > 0
     /\ skip' = skip - 1 /\ output' = output - 1
     /\ UNCHANGED <<main, window, child, echo, copying, typed, input, crashed>>
  \/ /\ Step("skip") /\ skip = 0
     /\ UNCHANGED <<window, shell, text, crashed>>

(* io.CopyN: until it has its number of bytes, or the shell has ended and  *)
(* left nothing more to read                                               *)
SkipEcho ==
  \/ /\ At("skip") /\ skip > 0 /\ output > 0
     /\ skip' = skip - 1 /\ output' = output - 1
     /\ UNCHANGED <<main, window, child, echo, copying, typed, input, crashed>>
  \/ /\ Step("skip")
     /\ skip = 0 \/ (output = 0 /\ child = "done")
     /\ UNCHANGED <<window, shell, text, crashed>>

StartCopies ==
  /\ Step("copy")
  /\ copying' = TRUE
  /\ UNCHANGED <<window, shell, skip, typed, input, crashed>>

(* shellExec.Wait, and the first deferred call *)
Wait ==
  /\ Step("wait") /\ child = "done"
  /\ UNCHANGED <<window, shell, text, crashed>>

(* signal.Stop returns once no signal is being delivered. *)
Stop ==
  /\ Step("stop") /\ ~raised
  /\ registered' = FALSE
  /\ UNCHANGED <<raised, ch, closed, resizer, read, size, ptySize, shell, text, crashed>>

Close ==
  /\ Step("close")
  /\ closed' = TRUE
  /\ UNCHANGED <<registered, raised, ch, resizer, read, size, ptySize, shell, text, crashed>>

Main ==
  \/ Start \/ Notify \/ SpawnResizer \/ SendFirst \/ MakeRaw \/ WriteSetup
  \/ SkipEcho \/ StartCopies \/ Wait \/ Stop \/ Close

-----------------------------------------------------------------------------
(* The goroutine that resizes the pty *)

unresized == <<main, shell, text, crashed>>

(* Mutant: signals that came while a resize went on are dropped. *)
ReceiveAndDrain ==
  \/ /\ resizer = "range" /\ ch = 1 /\ ch' = 0 /\ resizer' = "get"
     /\ UNCHANGED <<unresized, registered, raised, closed, read, size, ptySize>>
  \/ /\ resizer = "set" /\ ch = 1 /\ ch' = 0
     /\ UNCHANGED <<unresized, registered, raised, closed, resizer, read, size, ptySize>>

(* for range ch *)
Receive ==
  /\ ~crashed /\ resizer = "range" /\ ch = 1
  /\ ch' = 0
  /\ resizer' = "get"
  /\ UNCHANGED <<unresized, registered, raised, closed, read, size, ptySize>>

(* pty.InheritSize asks the terminal for its size, *)
GetSize ==
  /\ ~crashed /\ resizer = "get"
  /\ read' = size
  /\ resizer' = "set"
  /\ UNCHANGED <<unresized, registered, raised, ch, closed, size, ptySize>>

(* and gives it to the pty, if there still is one. *)
SetSize ==
  /\ ~crashed /\ resizer = "set"
  /\ ptySize' = read \/ (child = "done" /\ UNCHANGED ptySize)
  /\ resizer' = "range"
  /\ UNCHANGED <<unresized, registered, raised, ch, closed, read, size>>

RangeEnds ==
  /\ ~crashed /\ resizer = "range" /\ ch = 0 /\ closed
  /\ resizer' = "done"
  /\ UNCHANGED <<unresized, registered, raised, ch, closed, read, size, ptySize>>

Resizer == Receive \/ GetSize \/ SetSize \/ RangeEnds

-----------------------------------------------------------------------------
(* The runtime's delivery of signals: "Package signal will not block       *)
(* sending", so that a signal is dropped when ch is full.                  *)

(* Mutant: ch has no buffer. *)
DeliverUnbuffered ==
  /\ ~crashed /\ raised
  /\ raised' = FALSE
  /\ \/ closed /\ crashed' = TRUE /\ UNCHANGED <<ch, resizer>>
     \/ /\ ~closed /\ UNCHANGED <<crashed, ch>>
        /\ resizer' = IF resizer = "range" THEN "get" ELSE resizer
  /\ UNCHANGED <<main, shell, text, registered, closed, read, size, ptySize>>

(* Mutant: every signal is queued in ch. *)
DeliverQueued ==
  /\ ~crashed /\ raised
  /\ raised' = FALSE
  /\ \/ closed /\ crashed' = TRUE /\ UNCHANGED ch
     \/ ~closed /\ ch' = ch + 1 /\ UNCHANGED crashed
  /\ UNCHANGED <<main, shell, text, registered, closed, resizer, read, size, ptySize>>

Deliver ==
  /\ ~crashed /\ raised
  /\ raised' = FALSE
  /\ \/ closed /\ crashed' = TRUE /\ UNCHANGED ch
     \/ ~closed /\ ch' = 1 /\ UNCHANGED crashed
  /\ UNCHANGED <<main, shell, text, registered, closed, resizer, read, size, ptySize>>

-----------------------------------------------------------------------------
(* The copies and the environment *)

(* io.Copy(os.Stdout, shellPty) *)
CopyOutput ==
  /\ ~crashed /\ copying /\ output > 0
  /\ output' = output - 1
  /\ UNCHANGED <<main, window, child, echo, text, crashed>>

(* io.Copy(shellPty, os.Stdin) *)
CopyInput ==
  /\ ~crashed /\ copying /\ typed
  /\ typed' = FALSE /\ input' = TRUE
  /\ UNCHANGED <<main, window, shell, skip, copying, crashed>>

Copies == CopyOutput \/ CopyInput

(* The user resizes the terminal; the signal is ignored while nobody has   *)
(* asked for it.                                                           *)
Resize ==
  /\ ~crashed
  /\ \E s \in Sizes \ {size} : size' = s
  /\ raised' = (raised \/ registered)
  /\ UNCHANGED <<main, shell, text, crashed, registered, ch, closed, resizer, read, ptySize>>

(* The terminal passes Ctrl-D on as a character while it is in raw mode.   *)
Raw == {"write", "skip", "copy", "wait"}

TypeCtrlD ==
  /\ ~crashed /\ main \in Raw /\ child = "running"
  /\ typed' = TRUE
  /\ UNCHANGED <<main, window, shell, skip, copying, input, crashed>>

(* The shell echoes what it is told, then reads until Ctrl-D ends it; it   *)
(* may end by itself at any time.                                          *)
Told == main \notin {"start", "notify", "spawn", "send", "makeRaw", "write"}

Echo ==
  /\ child = "running" /\ Told /\ echo > 0
  /\ echo' = echo - 1 /\ output' = output + 1
  /\ UNCHANGED <<main, window, child, text, crashed>>

ReadCtrlD ==
  /\ child = "running" /\ echo = 0 /\ input
  /\ child' = "done"
  /\ UNCHANGED <<main, window, echo, output, text, crashed>>

ChildExits ==
  /\ child = "running"
  /\ child' = "done"
  /\ UNCHANGED <<main, window, echo, output, text, crashed>>

Shell == Echo \/ ReadCtrlD

Next ==
  Main \/ Resizer \/ Deliver \/ Copies \/ Shell \/ Resize \/ TypeCtrlD \/ ChildExits

Spec     == Init /\ [][Next]_vars

(* A blocked send is handed the place a receive makes, and signal.Stop     *)
(* finds an idle moment: nobody resizes a terminal at every instant.       *)
FairSpec ==
  /\ Spec
  /\ SF_vars(SendFirst) /\ SF_vars(Stop)
  /\ WF_vars(Main) /\ WF_vars(Resizer) /\ WF_vars(Deliver)
  /\ WF_vars(CopyInput) /\ WF_vars(CopyOutput) /\ WF_vars(Shell)

-----------------------------------------------------------------------------
(* Properties *)

(* A resize is never lost although signals are dropped when ch is full:    *)
(* once the first resize is sent and until the shell has ended, the pty    *)
(* has the terminal's size, or a step is still to come that reads it.      *)
Live == main \in {"makeRaw", "write", "skip", "copy", "wait"} /\ child = "running"

NoLostResize ==
  Live => \/ ptySize = size
          \/ raised \/ ch = 1
          \/ resizer = "get"
          \/ resizer = "set" /\ read = size

(* The runtime never sends a signal on the closed channel.                 *)
NoSendOnClosed == ~crashed

(* When the user stops resizing the terminal, the pty gets its size.       *)
SizeSettles ==
  \A s \in Sizes :
    <>[](Live /\ size = s) => <>[](ptySize = s)

(* The send of the first resize does not wait for ever on a channel that   *)
(* the runtime has filled, and the shell is waited for.                    *)
ReachesWait ==
  (main = "notify") ~> (main \in {"wait", "stop", "close", "returned"})

(* The command ends when its shell does, also before the set-up is echoed. *)
EndsWithShell == (child = "done") ~> (main = "returned")

(* "Press Ctl-D when done to exit from the shell and stop sbctl server".   *)
CtrlDEnds == (typed /\ main = "skip") ~> (main = "returned")
=============================================================================
