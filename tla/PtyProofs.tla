------------------------------ MODULE PtyProofs ------------------------------
(***************************************************************************)
(* Theorems about Pty, for any sizes of the terminal and any shell.        *)
(***************************************************************************)
EXTENDS Pty, TLAPS

(* A SIGWINCH is only on its way between signal.Notify and signal.Stop,    *)
(* and the channel is closed after that.                                   *)
SignalInv ==
  /\ registered <=> main \in {"spawn", "send", "makeRaw", "write", "skip",
                              "copy", "wait", "stop"}
  /\ raised => registered
  /\ closed => main = "returned"
  /\ ~crashed

(* The signal that follows a change of size is on its way, in the channel  *)
(* or already received by a goroutine that has still to read the size; a   *)
(* size that is read and out of date has a signal behind it.               *)
ResizeInv ==
  Live => \/ raised \/ ch = 1
          \/ resizer = "get"
          \/ resizer = "set" /\ read = size
          \/ resizer \notin {"get", "set"} /\ ptySize = size

PtyInv == TypeOK /\ SignalInv /\ ResizeInv

LEMMA InitHolds == Init => PtyInv
<1> SUFFICES ASSUME Init
             PROVE  PtyInv
  OBVIOUS
<1>1. TypeOK
  <2>1. echo \in Nat /\ output \in Nat /\ ch \in 0..1 /\ skip \in 0..Skipped
    BY PtyAssumption DEF Init, Skipped
  <2>2. main \in MainSteps /\ resizer \in Resizers /\ child \in Children
    BY DEF Init, MainSteps, Resizers, Children
  <2> QED
    BY <2>1, <2>2, Zenon DEF Init, TypeOK
<1>2. SignalInv
  BY DEF Init, SignalInv
<1>3. ResizeInv
  BY DEF Init, ResizeInv, Live
<1> QED
  BY <1>1, <1>2, <1>3 DEF PtyInv

LEMMA TypeStep == TypeOK /\ [Next]_vars => TypeOK'
<1> SUFFICES ASSUME TypeOK, [Next]_vars
             PROVE  TypeOK'
  OBVIOUS
<1> USE DEF TypeOK
<1>1. CASE Main
  <2> USE DEF At, Goto, Step, After, window, shell, text
  <2>1. CASE Start
    BY <2>1 DEF Start, MainSteps, Children
  <2>2. CASE Notify
    BY <2>2 DEF Notify, MainSteps
  <2>3. CASE SpawnResizer
    BY <2>3 DEF SpawnResizer, MainSteps, Resizers
  <2>4. CASE SendFirst
    BY <2>4 DEF SendFirst, MainSteps
  <2>5. CASE MakeRaw \/ WriteSetup
    BY <2>5 DEF MakeRaw, WriteSetup, MainSteps
  <2>6. CASE SkipEcho
    BY <2>6 DEF SkipEcho, MainSteps, Skipped
  <2>7. CASE StartCopies \/ Wait
    BY <2>7 DEF StartCopies, Wait, MainSteps
  <2>8. CASE Stop \/ Close
    BY <2>8 DEF Stop, Close, MainSteps
  <2> QED
    BY <1>1, <2>1, <2>2, <2>3, <2>4, <2>5, <2>6, <2>7, <2>8 DEF Main
<1>2. CASE Resizer
  <2> USE DEF unresized, shell, text, Resizers
  <2>1. CASE Receive
    BY <2>1 DEF Receive
  <2>2. CASE GetSize
    BY <2>2 DEF GetSize
  <2>3. CASE SetSize
    BY <2>3 DEF SetSize
  <2>4. CASE RangeEnds
    BY <2>4 DEF RangeEnds
  <2> QED
    BY <1>2, <2>1, <2>2, <2>3, <2>4 DEF Resizer
<1>3. CASE Deliver
  <2>1. ch' = ch \/ ch' = 1
    BY <1>3, Zenon DEF Deliver
  <2>2. raised' = FALSE /\ (crashed' = TRUE \/ crashed' = crashed)
    BY <1>3, Zenon DEF Deliver
  <2>3. UNCHANGED <<main, shell, text, registered, closed, resizer, read, size, ptySize>>
    BY <1>3 DEF Deliver
  <2>4. ch' \in 0..1
    BY <2>1
  <2>5. /\ registered' \in BOOLEAN /\ closed' \in BOOLEAN /\ copying' \in BOOLEAN
        /\ typed' \in BOOLEAN /\ input' \in BOOLEAN
    BY <2>3 DEF text
  <2>6. crashed' \in BOOLEAN /\ raised' \in BOOLEAN
    BY <2>2
  <2>7. /\ main' \in MainSteps /\ resizer' \in Resizers /\ child' \in Children
        /\ read' \in Sizes \cup {NoSize} /\ ptySize' \in Sizes \cup {NoSize}
        /\ size' \in Sizes /\ echo' \in Nat /\ output' \in Nat /\ skip' \in 0..Skipped
    BY <2>3 DEF shell, text
  <2> QED
    BY <2>4, <2>5, <2>6, <2>7, Zenon
<1>4. CASE Copies
  <2> USE DEF window, shell
  <2>1. CASE CopyOutput
    <3>1. output' \in Nat
      BY <2>1 DEF CopyOutput
    <3>2. UNCHANGED <<main, window, child, echo, text, crashed>>
      BY <2>1 DEF CopyOutput
    <3>3. /\ registered' \in BOOLEAN /\ raised' \in BOOLEAN /\ closed' \in BOOLEAN
          /\ copying' \in BOOLEAN /\ typed' \in BOOLEAN /\ input' \in BOOLEAN
          /\ crashed' \in BOOLEAN
      BY <3>2 DEF text
    <3>4. /\ main' \in MainSteps /\ resizer' \in Resizers /\ child' \in Children
          /\ read' \in Sizes \cup {NoSize} /\ ptySize' \in Sizes \cup {NoSize}
          /\ size' \in Sizes /\ ch' \in 0..1 /\ echo' \in Nat /\ skip' \in 0..Skipped
      BY <3>2 DEF text
    <3> QED
      BY <3>1, <3>3, <3>4, Zenon
  <2>2. CASE CopyInput
    BY <2>2 DEF CopyInput
  <2> QED
    BY <1>4, <2>1, <2>2 DEF Copies
<1>5. CASE Shell \/ ChildExits
  BY <1>5 DEF Shell, Echo, ReadCtrlD, ChildExits, window, text, Children
<1>6. CASE Resize
  BY <1>6 DEF Resize, shell, text
<1>7. CASE TypeCtrlD
  BY <1>7 DEF TypeCtrlD, window, shell
<1>8. CASE UNCHANGED vars
  BY <1>8 DEF vars, window, shell, text
<1> QED
  BY <1>1, <1>2, <1>3, <1>4, <1>5, <1>6, <1>7, <1>8 DEF Next

LEMMA SignalStep == SignalInv /\ [Next]_vars => SignalInv'
<1> SUFFICES ASSUME SignalInv, [Next]_vars
             PROVE  SignalInv'
  OBVIOUS
<1> USE DEF SignalInv
<1>1. CASE Main
  <2> USE DEF At, Goto, Step, After, window, shell, text
  <2>1. CASE Start
    BY <2>1 DEF Start
  <2>2. CASE Notify
    BY <2>2 DEF Notify
  <2>3. CASE SpawnResizer
    BY <2>3 DEF SpawnResizer
  <2>4. CASE SendFirst
    BY <2>4 DEF SendFirst
  <2>5. CASE MakeRaw \/ WriteSetup
    BY <2>5 DEF MakeRaw, WriteSetup
  <2>6. CASE SkipEcho
    BY <2>6 DEF SkipEcho
  <2>7. CASE StartCopies \/ Wait
    BY <2>7 DEF StartCopies, Wait
  <2>8. CASE Stop \/ Close
    BY <2>8 DEF Stop, Close
  <2> QED
    BY <1>1, <2>1, <2>2, <2>3, <2>4, <2>5, <2>6, <2>7, <2>8 DEF Main
<1>2. CASE Resizer
  BY <1>2 DEF Resizer, Receive, GetSize, SetSize, RangeEnds, unresized, shell, text
<1>3. CASE Deliver
  BY <1>3 DEF Deliver, shell, text
<1>4. CASE Copies
  BY <1>4 DEF Copies, CopyOutput, CopyInput, window, shell
<1>5. CASE Shell \/ ChildExits
  BY <1>5 DEF Shell, Echo, ReadCtrlD, ChildExits, window, text
<1>6. CASE Resize
  BY <1>6 DEF Resize, shell, text
<1>7. CASE TypeCtrlD
  BY <1>7 DEF TypeCtrlD, window, shell
<1>8. CASE UNCHANGED vars
  BY <1>8 DEF vars, window, shell, text
<1> QED
  BY <1>1, <1>2, <1>3, <1>4, <1>5, <1>6, <1>7, <1>8 DEF Next

LEMMA ResizeStep == TypeOK /\ SignalInv /\ ResizeInv /\ [Next]_vars => ResizeInv'
<1> SUFFICES ASSUME TypeOK /\ SignalInv /\ ResizeInv, [Next]_vars
             PROVE  ResizeInv'
  OBVIOUS
<1> USE DEF SignalInv, ResizeInv, Live
<1>1. CASE Main
  <2> USE DEF At, Goto, Step, After, window, shell, text
  <2>1. CASE Start
    BY <2>1 DEF Start
  <2>2. CASE Notify
    BY <2>2 DEF Notify
  <2>3. CASE SpawnResizer
    BY <2>3 DEF SpawnResizer
  <2>4. CASE SendFirst
    BY <2>4 DEF SendFirst
  <2>5. CASE MakeRaw \/ WriteSetup
    BY <2>5 DEF MakeRaw, WriteSetup
  <2>6. CASE SkipEcho
    BY <2>6 DEF SkipEcho
  <2>7. CASE StartCopies \/ Wait
    BY <2>7 DEF StartCopies, Wait
  <2>8. CASE Stop \/ Close
    BY <2>8 DEF Stop, Close
  <2> QED
    BY <1>1, <2>1, <2>2, <2>3, <2>4, <2>5, <2>6, <2>7, <2>8 DEF Main
<1>2. CASE Resizer
  <2> USE DEF unresized, shell, text
  <2>1. CASE Receive
    BY <2>1 DEF Receive
  <2>2. CASE GetSize
    BY <2>2 DEF GetSize
  <2>3. CASE SetSize
    BY <2>3 DEF SetSize
  <2>4. CASE RangeEnds
    BY <2>4 DEF RangeEnds
  <2> QED
    BY <1>2, <2>1, <2>2, <2>3, <2>4 DEF Resizer
<1>3. CASE Deliver
  BY <1>3 DEF Deliver, shell, text
<1>4. CASE Copies
  BY <1>4 DEF Copies, CopyOutput, CopyInput, window, shell
<1>5. CASE Shell \/ ChildExits
  BY <1>5 DEF Shell, Echo, ReadCtrlD, ChildExits, window, text
<1>6. CASE Resize
  BY <1>6 DEF Resize, shell, text
<1>7. CASE TypeCtrlD
  BY <1>7 DEF TypeCtrlD, window, shell
<1>8. CASE UNCHANGED vars
  BY <1>8 DEF vars, window, shell, text
<1> QED
  BY <1>1, <1>2, <1>3, <1>4, <1>5, <1>6, <1>7, <1>8 DEF Next

LEMMA PtyInvHolds == Spec => []PtyInv
<1>1. PtyInv /\ [Next]_vars => PtyInv'
  BY TypeStep, SignalStep, ResizeStep DEF PtyInv
<1> QED
  BY InitHolds, <1>1, PTL DEF Spec

(* Pty's variables keep the values the type invariant lists.               *)
THEOREM TypeCorrect == Spec => []TypeOK
<1>1. PtyInv => TypeOK
  BY DEF PtyInv
<1> QED
  BY <1>1, PtyInvHolds, PTL

(* No resize of the terminal is lost while the shell runs: a channel of    *)
(* one place is enough, because the size is read after the receive.        *)
THEOREM ResizesAreNotLost == Spec => []NoLostResize
<1>1. PtyInv => NoLostResize
  BY DEF PtyInv, ResizeInv, NoLostResize
<1> QED
  BY <1>1, PtyInvHolds, PTL

(* signal.Stop comes before close, so that no signal meets a closed        *)
(* channel.                                                                *)
THEOREM ChannelIsNotSentOn == Spec => []NoSendOnClosed
<1>1. PtyInv => NoSendOnClosed
  BY DEF PtyInv, SignalInv, NoSendOnClosed
<1> QED
  BY <1>1, PtyInvHolds, PTL
=============================================================================
