------------------------- MODULE Interactive_proofs --------------------------
(***************************************************************************)
(* Proofs about the two interactive front ends, Tui and Wizard, for any     *)
(* reports of the AMS, materials, kinds of files and sources, and any       *)
(* number of screens and of runs.                                           *)
(*                                                                         *)
(* The inductive invariant of the terminal UI ties five things together     *)
(* that the code keeps apart: the stack of screens (ShapeInv), the state of *)
(* each prepare screen (ScreenInv), the runs and their threads (RunInv),    *)
(* the modal (ModalInv), and what the stack says of the three (LinkInv).    *)
(* One lemma per action shows that it keeps all of them.                    *)
(***************************************************************************)
EXTENDS MC_Interactive, FiniteSetTheorems, SequenceTheorems, TLAPS
----------------------------------------------------------------------------
(* The terminal UI: the inductive invariant. *)

Seen == {Detect(rep) : rep \in Reports} \cup {NoDetection}
Entries == [kind : {"dashboard", "prepare", "settings", "confirm", "monitor", "help"},
            of : {Nobody} \cup Screens]
AScreen == [open : BOOLEAN, material : Materials, touched : BOOLEAN, det : Seen, detecting : BOOLEAN,
            preparing : BOOLEAN, work : {Nobody} \cup Runs, result : {Nobody} \cup Runs,
            handed : {Nobody} \cup Runs]
ARun == [screen : {Nobody} \cup Screens, stage : {"free", "queued", "working", "done", "over"},
         material : Materials, det : Seen, ok : BOOLEAN, kind : {"sliced"} \cup Kinds, dir : BOOLEAN,
         current : BOOLEAN]
AModal == [open : BOOLEAN, run : {Nobody} \cup Runs, owns : BOOLEAN,
           job : {"idle", "checking", "sending", "done"}, confirm : BOOLEAN, failed : BOOLEAN,
           checked : Reports \cup {Nothing}]

Typed ==
  /\ phase \in {"running", "closing", "ended"} /\ inFlight \in BOOLEAN
  /\ stack \in Seq(Entries) /\ scr \in [Screens -> AScreen] /\ run \in [Runs -> ARun]
  /\ modal \in AModal /\ ams \in Reports

\* The run's file is there, and sliced with the settings of its screen.
Usable(r) == (run[r].dir \/ run[r].kind = "own") /\ run[r].current

\* A screen refers to its own run alone, and previews it when it is over.
ScreenOk(p) ==
  /\ ~scr[p].open => /\ scr[p].work = Nobody /\ scr[p].result = Nobody /\ scr[p].handed = Nobody
                     /\ ~scr[p].preparing
  /\ scr[p].open => App
  /\ scr[p].work # Nobody => /\ run[scr[p].work].screen = p
                             /\ scr[p].preparing <=> run[scr[p].work].stage # "over"
  /\ scr[p].preparing => scr[p].work # Nobody /\ scr[p].result = Nobody
  /\ scr[p].result # Nobody => scr[p].result = scr[p].work /\ Usable(scr[p].result)
ScreenInv == \A p \in Screens : ScreenOk(p)

\* A run whose screen is open belongs to it, or to the modal; one whose screen was
\* left only has its thread to come.
RunOk(r) ==
  /\ run[r].screen = Nobody <=> run[r].stage = "free"
  /\ run[r].stage = "over" => scr[run[r].screen].open
  /\ run[r].screen # Nobody /\ scr[run[r].screen].open =>
       /\ scr[run[r].screen].work = r \/ (modal.open /\ modal.run = r)
       /\ run[r].stage \in {"queued", "working"} => run[r].dir /\ run[r].current
       /\ run[r].stage = "done" /\ run[r].ok => Usable(r)
  /\ run[r].stage \in {"queued", "working"} => ~run[r].ok
RunInv == \A r \in Runs : RunOk(r)

\* The modal owns the run that its screen has handed it; before a print that feeds
\* from the AMS is sent, the AMS has been seen to hold what it was prepared for.
ModalInv ==
  /\ inFlight <=> modal.job # "idle"
  /\ ~modal.open => modal.job = "idle"
  /\ modal.open =>
       /\ App /\ modal.owns /\ modal.run \in Runs
       /\ run[modal.run].stage = "over" /\ Usable(modal.run)
       /\ scr[run[modal.run].screen].handed = modal.run
       /\ scr[run[modal.run].screen].work = Nobody
  /\ modal.job = "sending" /\ modal.confirm /\ FeedSlot(run[modal.run]) # Nothing
       => Detect(modal.checked) = run[modal.run].det

\* The shape of the stack: its prepare screens are different, the settings and the
\* modal lie on the screen they belong to, and only help on the modal.
ShapeInv ==
  /\ ~App => stack = <<>>
  /\ App => Len(stack) > 0 /\ stack[1].kind = "dashboard"
  /\ \A i \in 1 .. Len(stack) :
       /\ stack[i].kind = "prepare" => stack[i].of \in Screens
       /\ stack[i].kind \in {"settings", "confirm"} =>
            i > 1 /\ stack[i - 1].kind = "prepare" /\ stack[i - 1].of = stack[i].of
  /\ \A i, j \in 1 .. Len(stack) :
       /\ stack[i].kind = "prepare" /\ stack[j].kind = "prepare" /\ stack[i].of = stack[j].of => i = j
       /\ stack[i].kind = "confirm" /\ j > i => stack[j].kind = "help"

\* What is on the stack is open, and only a screen that is not preparing has settings.
LinkInv ==
  /\ \A i \in 1 .. Len(stack) :
       /\ stack[i].kind = "prepare" => scr[stack[i].of].open
       /\ stack[i].kind = "settings" => ~scr[stack[i].of].preparing
       /\ stack[i].kind = "confirm" => modal.open /\ run[modal.run].screen = stack[i].of
  /\ modal.open => \E i \in 1 .. Len(stack) : stack[i].kind = "confirm"
  /\ modal.open /\ modal.job # "idle" => stack[Len(stack)].kind = "confirm"

TInv == Typed /\ ScreenInv /\ RunInv /\ ModalInv /\ ShapeInv /\ LinkInv /\ FedAsPrepared /\ DeclinedFileSurvives

----------------------------------------------------------------------------
(* What the operators say. *)

\* A detection is a material with a preset, or nothing; where it names a tray, that
\* tray was active and held the material.
LEMMA DetectFacts ==
  ASSUME NEW rep
  PROVE  LET d == Detect(rep)
         IN  /\ d.material \in Materials \cup {Nothing}
             /\ d.slot # Nothing => /\ rep # Nothing /\ rep.now = d.slot
                                    /\ rep.tray[d.slot] = d.material /\ d.material \in Materials
<1>1. NoDetection.material = Nothing /\ NoDetection.slot = Nothing
  BY DEF NoDetection
<1>2. CASE rep # Nothing /\ ReadLoaded(rep).material \in Materials
  <2>1. Detect(rep) = ReadLoaded(rep)
    BY <1>2 DEF Detect
  <2>2. ReadLoaded(rep).slot # Nothing =>
          rep.now = ReadLoaded(rep).slot /\ rep.tray[ReadLoaded(rep).slot] = ReadLoaded(rep).material
    BY <1>1 DEF ReadLoaded, ActiveTray
  <2> QED
    BY <1>2, <2>1, <2>2
<1>3. CASE ~(rep # Nothing /\ ReadLoaded(rep).material \in Materials)
  BY <1>1, <1>3 DEF Detect
<1> QED
  BY <1>2, <1>3

\* What a detection can show.
LEMMA SeenFacts ==
  /\ NoDetection \in Seen /\ Detect(Nothing) = NoDetection
  /\ \A rep \in Reports : Detect(rep) \in Seen
  BY DEF Seen, Detect

\* The AMS holds what the print that feeds from it was prepared for.
LEMMA FeedFacts ==
  ASSUME NEW state, NEW rep, FeedSlot(state) # Nothing, Detect(rep) = state.det
  PROVE  /\ rep # Nothing /\ rep.now = FeedSlot(state)
         /\ rep.tray[FeedSlot(state)] = state.material
<1>1. FeedSlot(state) = state.det.slot /\ state.material = state.det.material
  BY DEF FeedSlot
<1> QED
  BY <1>1, DetectFacts

----------------------------------------------------------------------------
(* The stack. *)

\* Pushing a screen leaves those below it.
LEMMA PushFacts ==
  ASSUME Typed, NEW kind \in {"prepare", "settings", "confirm", "monitor", "help"},
         NEW of \in {Nobody} \cup Screens, Push(kind, of)
  PROVE  /\ stack' \in Seq(Entries) /\ Len(stack') = Len(stack) + 1
         /\ \A i \in 1 .. Len(stack) : stack'[i] = stack[i]
         /\ stack'[Len(stack')].kind = kind /\ stack'[Len(stack')].of = of
<1> DEFINE e == [kind |-> kind, of |-> of]
<1>1. e \in Entries /\ e.kind = kind /\ e.of = of
  BY DEF Entries
<1>2. stack \in Seq(Entries) /\ stack' = Append(stack, e)
  BY DEF Typed, Push
<1> HIDE DEF e
<1> QED
  BY <1>1, <1>2, AppendProperties

\* Popping one does too.
LEMMA PopFacts ==
  ASSUME Typed, Len(stack) > 0
  PROVE  /\ Pop \in Seq(Entries) /\ Len(Pop) = Len(stack) - 1
         /\ \A i \in 1 .. Len(stack) - 1 : Pop[i] = stack[i]
<1> DEFINE n == Len(stack) - 1
<1>1. stack \in Seq(Entries) /\ n \in Nat /\ Pop = SubSeq(stack, 1, n)
  BY DEF Typed, Pop, Front
<1>2. 1 \in Int /\ n \in Int /\ \A i \in 1 .. n : stack[i] \in Entries
  BY <1>1
<1> HIDE DEF n
<1>3. /\ SubSeq(stack, 1, n) \in Seq(Entries)
      /\ Len(SubSeq(stack, 1, n)) = (IF 1 <= n THEN n - 1 + 1 ELSE 0)
      /\ \A i \in 1 .. n - 1 + 1 : SubSeq(stack, 1, n)[i] = stack[1 + i - 1]
  BY <1>2, SubSeqProperties
<1>4. Len(Pop) = n
  BY <1>1, <1>3
<1>5. \A i \in 1 .. n : Pop[i] = stack[i]
  BY <1>1, <1>3
<1>6. Pop \in Seq(Entries)
  BY <1>1, <1>3
<1> QED
  BY <1>4, <1>5, <1>6 DEF n

\* While the modal is open, it or its help is on top; and a screen on top is open.
LEMMA TopFacts ==
  ASSUME TInv, App
  PROVE  /\ Len(stack) \in Nat \ {0} /\ Top = stack[Len(stack)] /\ Top \in Entries
         /\ modal.open => Top.kind \in {"confirm", "help"}
         /\ Top.kind = "confirm" =>
              /\ modal.open /\ Top.of = run[modal.run].screen /\ Top.of \in Screens
              /\ Len(stack) > 1 /\ stack[Len(stack) - 1].kind = "prepare"
         /\ Top.kind = "prepare" => Top.of \in Screens /\ scr[Top.of].open
         /\ Top.kind = "settings" => Top.of \in Screens /\ scr[Top.of].open /\ ~scr[Top.of].preparing
<1>1. /\ stack \in Seq(Entries) /\ Len(stack) > 0 /\ Len(stack) \in Nat
      /\ Top = stack[Len(stack)]
  BY DEF TInv, Typed, ShapeInv, Top, Last
<1>2. Top \in Entries /\ \A i \in 1 .. Len(stack) : stack[i] \in Entries
  BY <1>1
<1>3. modal.open => Top.kind \in {"confirm", "help"}
  BY <1>1 DEF TInv, ShapeInv, LinkInv
<1>4. Top.kind = "confirm" =>
              /\ modal.open /\ Top.of = run[modal.run].screen /\ Top.of \in Screens
              /\ Len(stack) > 1 /\ stack[Len(stack) - 1].kind = "prepare"
  BY <1>1 DEF TInv, ShapeInv, LinkInv
<1>5. Top.kind = "prepare" => Top.of \in Screens /\ scr[Top.of].open
  BY <1>1 DEF TInv, ShapeInv, LinkInv
<1>6. Top.kind = "settings" => Top.of \in Screens /\ scr[Top.of].open /\ ~scr[Top.of].preparing
  BY <1>1 DEF TInv, ShapeInv, LinkInv
<1> QED
  BY <1>1, <1>2, <1>3, <1>4, <1>5, <1>6

\* A screen is pushed, and one is taken off: the shape of the stack stays.
LEMMA PushShape ==
  ASSUME TInv, App, UNCHANGED phase, NEW kind \in {"prepare", "settings", "confirm", "monitor", "help"},
         NEW of \in {Nobody} \cup Screens, Push(kind, of),
         Top.kind = "confirm" => kind = "help",
         Top.kind = "help" => kind = "help" \/ ~modal.open,
         kind \in {"settings", "confirm"} => Top.kind = "prepare" /\ Top.of = of,
         kind = "prepare" => of \in Screens /\ ~scr[of].open
  PROVE  ShapeInv' /\ stack' \in Seq(Entries)
<1>1. /\ stack' \in Seq(Entries) /\ Len(stack') = Len(stack) + 1
      /\ \A i \in 1 .. Len(stack) : stack'[i] = stack[i]
      /\ stack'[Len(stack')].kind = kind /\ stack'[Len(stack')].of = of
  BY PushFacts DEF TInv
<1>2. Len(stack) \in Nat \ {0} /\ Top = stack[Len(stack)]
  BY TopFacts
<1>3. \A i \in 1 .. Len(stack) : stack[i].kind = "confirm" => kind = "help"
  <2> SUFFICES ASSUME NEW i \in 1 .. Len(stack), stack[i].kind = "confirm" PROVE kind = "help"
    OBVIOUS
  <2>1. modal.open
    BY DEF TInv, LinkInv
  <2> QED
    BY <2>1, TopFacts
<1>4. \A i \in 1 .. Len(stack) : stack[i].kind = "prepare" => kind # "prepare" \/ stack[i].of # of
  BY DEF TInv, LinkInv
<1> QED
  BY <1>1, <1>2, <1>3, <1>4, SMTT(30) DEF TInv, ShapeInv, App

\* The stack keeps its shape when its top, which is not the dashboard, is popped.
LEMMA PopShape ==
  ASSUME TInv, App, UNCHANGED phase, Top.kind # "dashboard", stack' = Pop
  PROVE  /\ ShapeInv' /\ stack' \in Seq(Entries) /\ Len(stack') = Len(stack) - 1 /\ Len(stack) \in Nat \ {0}
         /\ \A i \in 1 .. Len(stack') : stack'[i] = stack[i]
<1>1. Len(stack) \in Nat \ {0} /\ Top = stack[Len(stack)] /\ stack[1].kind = "dashboard"
  BY TopFacts DEF TInv, ShapeInv
<1>2. /\ stack' \in Seq(Entries) /\ Len(stack') = Len(stack) - 1
      /\ \A i \in 1 .. Len(stack) - 1 : stack'[i] = stack[i]
  BY <1>1, PopFacts DEF TInv
<1>3. Len(stack) > 1
  BY <1>1
<1>4. \A i \in 1 .. Len(stack') : i \in 1 .. Len(stack) /\ stack'[i] = stack[i] /\ (i > 1 => i - 1 \in 1 .. Len(stack'))
  BY <1>1, <1>2
<1> QED
  BY <1>1, <1>2, <1>3, <1>4 DEF TInv, ShapeInv, App

----------------------------------------------------------------------------
(* The app's own screens. *)

\* What only moves screens that have nothing to do with a run.
LEMMA FrameStep ==
  ASSUME TInv, UNCHANGED <<phase, inFlight, scr, run, modal, ams, sent, lost>>,
         stack' \in Seq(Entries), ShapeInv', LinkInv'
  PROVE  TInv'
<1>1. Typed'
  BY DEF TInv, Typed
<1>2. ScreenInv' /\ RunInv'
  BY DEF TInv, ScreenInv, ScreenOk, RunInv, RunOk, Usable, App
<1>3. ModalInv'
  BY DEF TInv, ModalInv, Usable, App, FeedSlot
<1>4. FedAsPrepared' /\ DeclinedFileSurvives'
  BY DEF TInv, FedAsPrepared, DeclinedFileSurvives
<1> QED
  BY <1>1, <1>2, <1>3, <1>4 DEF TInv

\* Monitor, help and settings come and go.
LEMMA OverlayStep ==
  ASSUME TInv, \/ OpenMonitor \/ Help \/ CloseOverlay \/ CancelSettings
               \/ \E p \in Screens : OpenSettings(p)
  PROVE  TInv'
<1>1. App /\ UNCHANGED <<phase, inFlight, scr, run, modal, ams, sent, lost>>
  BY DEF OpenMonitor, Help, CloseOverlay, CancelSettings, OpenSettings, AppKey, On, OnScreen
<1>2. CASE CloseOverlay \/ CancelSettings
  <2>1. stack' = Pop /\ Top.kind \in {"help", "monitor", "settings"}
    BY <1>2 DEF CloseOverlay, CancelSettings, On
  <2>2. /\ ShapeInv' /\ stack' \in Seq(Entries) /\ Len(stack') = Len(stack) - 1 /\ Len(stack) \in Nat \ {0}
        /\ \A i \in 1 .. Len(stack') : stack'[i] = stack[i]
    BY <1>1, <2>1, PopShape
  <2>3. Top = stack[Len(stack)] /\ (modal.open => Top.kind \in {"confirm", "help"})
    BY <1>1, TopFacts
  <2>4. \A i \in 1 .. Len(stack) : stack[i].kind = "confirm" => i \in 1 .. Len(stack')
    BY <2>1, <2>2, <2>3
  <2>5. LinkInv'
    BY <1>1, <2>1, <2>2, <2>3, <2>4, SMTT(30) DEF TInv, LinkInv
  <2> QED
    BY <1>1, <2>2, <2>5, FrameStep
<1>3. CASE OpenMonitor \/ Help \/ \E p \in Screens : OpenSettings(p)
  <2>1. PICK kind \in {"monitor", "help", "settings"}, of \in {Nobody} \cup Screens :
          /\ Push(kind, of) /\ (Top.kind = "confirm" => kind = "help" /\ modal.job = "idle")
          /\ Top.kind # "help" \/ kind = "help"
          /\ kind = "settings" => Top.kind = "prepare" /\ Top.of = of /\ of \in Screens /\ ~scr[of].preparing
    <3>1. CASE OpenMonitor
      BY <3>1 DEF OpenMonitor, AppKey
    <3>2. CASE Help
      BY <3>2 DEF Help
    <3>3. CASE \E p \in Screens : OpenSettings(p)
      BY <3>3 DEF OpenSettings, OnScreen, On, SettingsLocked
    <3> QED
      BY <1>3, <3>1, <3>2, <3>3
  <2>2. ShapeInv'
    BY <1>1, <2>1, PushShape
  <2>3. /\ stack' \in Seq(Entries) /\ Len(stack') = Len(stack) + 1
        /\ \A i \in 1 .. Len(stack) : stack'[i] = stack[i]
        /\ stack'[Len(stack')].kind = kind /\ stack'[Len(stack')].of = of
    BY <2>1, PushFacts DEF TInv
  <2>4. Len(stack) \in Nat \ {0} /\ Top = stack[Len(stack)]
    BY <1>1, TopFacts
  <2>5. ~(modal.open /\ modal.job # "idle")
    BY <2>1, <2>4 DEF TInv, LinkInv
  <2>6. LinkInv'
    BY <1>1, <2>1, <2>3, <2>4, <2>5 DEF TInv, LinkInv
  <2> QED
    BY <1>1, <2>2, <2>3, <2>6, FrameStep
<1> QED
  BY <1>2, <1>3

\* The printer's spools, and the end of the app, are nobody's here.
LEMMA SwapStep ==
  ASSUME TInv, Swap \/ Ended
  PROVE  TInv'
<1>1. /\ UNCHANGED <<inFlight, stack, scr, run, modal, sent, lost>> /\ ams' \in Reports
      /\ phase' = phase \/ (~App /\ phase' = "ended")
  BY DEF Swap, Ended, App, TInv, Typed
<1>2. App' <=> App
  BY <1>1 DEF App
<1>3. Typed'
  BY <1>1 DEF TInv, Typed
<1>4. ScreenInv' /\ RunInv'
  BY <1>1, <1>2 DEF TInv, ScreenInv, ScreenOk, RunInv, RunOk, Usable
<1>5. ModalInv'
  BY <1>1, <1>2 DEF TInv, ModalInv, Usable, FeedSlot
<1>6. ShapeInv' /\ LinkInv'
  BY <1>1, <1>2 DEF TInv, ShapeInv, LinkInv
<1>7. FedAsPrepared' /\ DeclinedFileSurvives'
  BY <1>1 DEF TInv, FedAsPrepared, DeclinedFileSurvives
<1> QED
  BY <1>3, <1>4, <1>5, <1>6, <1>7 DEF TInv

----------------------------------------------------------------------------
(* A prepare screen. *)

\* What a screen shows of the material moves nothing else.
LEMMA ShownStep ==
  ASSUME TInv, UNCHANGED <<phase, inFlight, stack, run, modal, ams, sent, lost>>,
         NEW p \in Screens, NEW s \in AScreen, scr' = [scr EXCEPT ![p] = s],
         s.open = scr[p].open, s.preparing = scr[p].preparing, s.work = scr[p].work,
         s.result = scr[p].result, s.handed = scr[p].handed
  PROVE  TInv'
<1>1. /\ scr' \in [Screens -> AScreen] /\ scr'[p] = s
      /\ \A q \in Screens : q # p => scr'[q] = scr[q]
  BY DEF TInv, Typed
<1>2. \A q \in Screens : /\ scr'[q].open = scr[q].open /\ scr'[q].preparing = scr[q].preparing
                         /\ scr'[q].work = scr[q].work /\ scr'[q].result = scr[q].result
                         /\ scr'[q].handed = scr[q].handed
  BY <1>1
<1>3. run \in [Runs -> ARun]
  BY DEF TInv, Typed
<1>4. Typed'
  BY <1>1 DEF TInv, Typed
<1>5. ScreenInv'
  BY <1>2 DEF TInv, ScreenInv, ScreenOk, Usable, App
<1>6. \A r \in Runs : run[r].screen \in {Nobody} \cup Screens /\ (run[r].screen = Nobody => run[r].stage = "free")
  BY <1>3 DEF ARun, TInv, RunInv, RunOk
<1>7. RunInv'
  BY <1>2, <1>6 DEF TInv, RunInv, RunOk, Usable
<1>8. ModalInv'
  BY <1>2, <1>6 DEF TInv, ModalInv, Usable, FeedSlot, App
<1>9. ShapeInv' /\ LinkInv'
  <2>1. \A i \in 1 .. Len(stack) : stack[i].kind \in {"prepare", "settings"} => stack[i].of \in Screens
    BY DEF TInv, ShapeInv
  <2> QED
    BY <1>2, <2>1 DEF TInv, ShapeInv, LinkInv, App
<1>10. FedAsPrepared' /\ DeclinedFileSurvives'
  BY DEF TInv, FedAsPrepared, DeclinedFileSurvives
<1> QED
  BY <1>4, <1>5, <1>7, <1>8, <1>9, <1>10 DEF TInv

\* The user picks a material.
LEMMA PickStep ==
  ASSUME TInv, NEW p \in Screens, Pick(p)
  PROVE  TInv'
<1>1. PICK mat \in Materials : scr' = [scr EXCEPT ![p].material = mat, ![p].touched = TRUE]
  BY DEF Pick
<1> DEFINE a == [scr[p] EXCEPT !.material = mat]
           s == [a EXCEPT !.touched = TRUE]
<1>2. scr[p] \in AScreen
  BY DEF TInv, Typed
<1>3. scr' = [scr EXCEPT ![p] = s]
  BY <1>1 DEF TInv, Typed
<1>4. /\ a \in AScreen /\ a.open = scr[p].open /\ a.preparing = scr[p].preparing
      /\ a.work = scr[p].work /\ a.result = scr[p].result /\ a.handed = scr[p].handed
  BY <1>2 DEF AScreen
<1> HIDE DEF a
<1>5. /\ s \in AScreen /\ s.open = a.open /\ s.preparing = a.preparing
      /\ s.work = a.work /\ s.result = a.result /\ s.handed = a.handed
  BY <1>4 DEF AScreen
<1> HIDE DEF s
<1> QED
  BY <1>3, <1>4, <1>5, ShownStep DEF Pick

\* An AMS read reaches its prepare screen.
LEMMA DetectionStep ==
  ASSUME TInv, NEW p \in Screens, Detection(p)
  PROVE  TInv'
<1> DEFINE s == [scr[p] EXCEPT !.detecting = FALSE]
<1>1. PICK rep \in {ams, Nothing} :
        scr' = [scr EXCEPT ![p] =
                  IF ~s.open THEN s
                  ELSE [s EXCEPT !.det = Detect(rep),
                                 !.material = IF Detect(rep).material # Nothing /\ ~s.touched
                                              THEN Detect(rep).material ELSE @]]
  BY DEF Detection
<1>2. scr[p] \in AScreen /\ rep \in Reports \cup {Nothing}
  BY DEF TInv, Typed
<1>3. Detect(rep) \in Seen /\ Detect(rep).material \in Materials \cup {Nothing}
  BY <1>2, SeenFacts, DetectFacts
<1>4. /\ s \in AScreen /\ s.open = scr[p].open /\ s.preparing = scr[p].preparing
      /\ s.work = scr[p].work /\ s.result = scr[p].result /\ s.handed = scr[p].handed
  BY <1>2 DEF AScreen
<1> HIDE DEF s
<1>5. CASE ~s.open
  BY <1>1, <1>4, <1>5, ShownStep DEF Detection
<1>6. CASE s.open
  <2> DEFINE d == Detect(rep)
             mat == IF d.material # Nothing /\ ~s.touched THEN d.material ELSE s.material
             a == [s EXCEPT !.det = d]
             b == [a EXCEPT !.material = mat]
  <2>1. mat \in Materials
    BY <1>3, <1>4 DEF AScreen
  <2>2. scr' = [scr EXCEPT ![p] = b]
    BY <1>1, <1>6
  <2> HIDE DEF mat
  <2>3. /\ a \in AScreen /\ a.open = s.open /\ a.preparing = s.preparing
        /\ a.work = s.work /\ a.result = s.result /\ a.handed = s.handed
    BY <1>3, <1>4 DEF AScreen
  <2> HIDE DEF a
  <2>4. /\ b \in AScreen /\ b.open = a.open /\ b.preparing = a.preparing
        /\ b.work = a.work /\ b.result = a.result /\ b.handed = a.handed
    BY <2>1, <2>3 DEF AScreen
  <2> HIDE DEF b
  <2> QED
    BY <1>4, <2>2, <2>3, <2>4, ShownStep DEF Detection
<1> QED
  BY <1>5, <1>6

----------------------------------------------------------------------------
(* The prepare thread. *)

\* A run that is not over is nobody's but its screen's, if that is still open.
LEMMA BusyRun ==
  ASSUME TInv, NEW r \in Runs, run[r].stage \in {"queued", "working", "done"}
  PROVE  LET p == run[r].screen
         IN  /\ p \in Screens /\ ~(modal.open /\ modal.run = r)
             /\ scr[p].open => scr[p].work = r /\ scr[p].preparing /\ scr[p].result = Nobody
             /\ \A q \in Screens : scr[q].result # r /\ (scr[q].work = r => q = p)
<1>1. run[r] \in ARun /\ r # Nobody
  BY NobodyAssumption DEF TInv, Typed, NobodyAssumption
<1>2. run[r].screen \in Screens
  BY <1>1 DEF ARun, TInv, RunInv, RunOk
<1>3. ~(modal.open /\ modal.run = r)
  BY DEF TInv, ModalInv
<1>4. \A q \in Screens : scr[q].work = r => q = run[r].screen /\ scr[q].preparing /\ scr[q].result = Nobody
  BY <1>1 DEF TInv, ScreenInv, ScreenOk
<1>5. \A q \in Screens : scr[q].result # r
  BY <1>1, <1>4 DEF TInv, ScreenInv, ScreenOk
<1>6. scr[run[r].screen].open => scr[run[r].screen].work = r
  BY <1>2, <1>3 DEF TInv, RunInv, RunOk, ARun, NobodyAssumption
<1> QED
  BY <1>2, <1>3, <1>4, <1>5, <1>6

\* A step of the thread of run r.
LEMMA ThreadStep ==
  ASSUME TInv, UNCHANGED <<phase, inFlight, stack, scr, modal, ams, sent, lost>>,
         NEW r \in Runs, NEW v \in ARun, run' = [run EXCEPT ![r] = v],
         run[r].stage \in {"queued", "working"}, v.stage \in {"working", "done"},
         v.screen = run[r].screen, v.stage = "working" => ~v.ok,
         scr[v.screen].open => /\ v.stage = "working" => v.dir /\ v.current
                               /\ v.ok => (v.dir \/ v.kind = "own") /\ v.current
  PROVE  TInv'
<1>1. /\ run' \in [Runs -> ARun] /\ run'[r] = v
      /\ \A q \in Runs : q # r => run'[q] = run[q]
  BY DEF TInv, Typed
<1>2. /\ v.screen \in Screens /\ ~(modal.open /\ modal.run = r)
      /\ scr[v.screen].open => scr[v.screen].work = r /\ scr[v.screen].preparing
      /\ \A q \in Screens : scr[q].result # r /\ (scr[q].work = r => q = v.screen)
  BY BusyRun
<1>3. Typed'
  BY <1>1 DEF TInv, Typed
<1>4. \A q \in Screens : {scr[q].work, scr[q].result} \subseteq {Nobody} \cup Runs
  BY DEF TInv, Typed, AScreen
<1>5. ScreenInv'
  BY <1>1, <1>2, <1>4 DEF TInv, ScreenInv, ScreenOk, Usable, App
<1>6. RunInv'
  BY <1>1, <1>2, NobodyAssumption DEF TInv, RunInv, RunOk, Usable, NobodyAssumption
<1>7. modal.open => run'[modal.run] = run[modal.run] /\ modal.run \in Runs
  BY <1>1, <1>2 DEF TInv, ModalInv
<1>8. ModalInv'
  BY <1>7 DEF TInv, ModalInv, Usable, FeedSlot, App
<1>9. ShapeInv' /\ LinkInv'
  BY <1>7 DEF TInv, ShapeInv, LinkInv, App
<1>10. FedAsPrepared' /\ DeclinedFileSurvives'
  BY DEF TInv, FedAsPrepared, DeclinedFileSurvives
<1> QED
  BY <1>3, <1>5, <1>6, <1>8, <1>9, <1>10 DEF TInv

\* A thread takes up its run,
LEMMA PrepareBeginStep ==
  ASSUME TInv, NEW r \in Runs, PrepareBegin(r)
  PROVE  TInv'
<1>1. run[r] \in ARun /\ run[r].stage = "queued"
  BY DEF TInv, Typed, PrepareBegin
<1>2. run[r].screen \in Screens
  BY <1>1, BusyRun
<1> DEFINE d == scr[run[r].screen].det
           a == [run[r] EXCEPT !.stage = "working"]
           v == [a EXCEPT !.det = d]
<1>3. run' = [run EXCEPT ![r] = v]
  BY DEF PrepareBegin, TInv, Typed
<1>4. d \in Seen
  BY <1>2 DEF TInv, Typed, AScreen
<1> HIDE DEF d
<1>5. /\ a \in ARun /\ a.stage = "working" /\ a.screen = run[r].screen /\ a.ok = run[r].ok
      /\ a.dir = run[r].dir /\ a.current = run[r].current /\ a.kind = run[r].kind
  BY <1>1 DEF ARun
<1> HIDE DEF a
<1>6. /\ v \in ARun /\ v.stage = "working" /\ v.screen = a.screen /\ v.ok = a.ok
      /\ v.dir = a.dir /\ v.current = a.current /\ v.kind = a.kind
  BY <1>4, <1>5 DEF ARun
<1> HIDE DEF v
<1>7. ~run[r].ok /\ (scr[run[r].screen].open => run[r].dir /\ run[r].current)
  BY <1>1, <1>2, NobodyAssumption DEF TInv, RunInv, RunOk, NobodyAssumption
<1>8. ~v.ok /\ v.screen = run[r].screen /\ (scr[v.screen].open => v.dir /\ v.current)
  BY <1>5, <1>6, <1>7
<1>9. UNCHANGED <<phase, inFlight, stack, scr, modal, ams, sent, lost>>
  BY DEF PrepareBegin
<1> QED
  BY <1>1, <1>3, <1>6, <1>8, <1>9, ThreadStep

\* and ends it.
LEMMA PrepareEndStep ==
  ASSUME TInv, NEW r \in Runs, PrepareEnd(r)
  PROVE  TInv'
<1>1. run[r] \in ARun /\ run[r].stage = "working"
  BY DEF TInv, Typed, PrepareEnd
<1>2. run[r].screen \in Screens
  BY <1>1, BusyRun
<1>3. ~run[r].ok /\ (scr[run[r].screen].open => run[r].dir /\ run[r].current)
  BY <1>1, <1>2, NobodyAssumption DEF TInv, RunInv, RunOk, NobodyAssumption
<1> DEFINE a == [run[r] EXCEPT !.stage = "done"]
<1>4. /\ a \in ARun /\ a.stage = "done" /\ a.screen = run[r].screen /\ a.ok = run[r].ok
      /\ a.dir = run[r].dir /\ a.current = run[r].current
  BY <1>1 DEF ARun
<1>5. ASSUME NEW b \in BOOLEAN, run' = [run EXCEPT ![r].stage = "done", ![r].dir = b] PROVE TInv'
  <2> DEFINE v == [a EXCEPT !.dir = b]
  <2>1. run' = [run EXCEPT ![r] = v]
    BY <1>5 DEF TInv, Typed
  <2> HIDE DEF a
  <2>2. v \in ARun /\ v.stage = "done" /\ v.screen = a.screen /\ v.ok = a.ok
    BY <1>4 DEF ARun
  <2> HIDE DEF v
  <2> QED
    BY <1>1, <1>3, <1>4, <2>1, <2>2, ThreadStep DEF PrepareEnd
<1>6. ASSUME NEW kind \in Kinds, scr[run[r].screen].open,
             run' = [run EXCEPT ![r].stage = "done", ![r].ok = TRUE, ![r].kind = kind]
      PROVE  TInv'
  <2> DEFINE b == [a EXCEPT !.ok = TRUE]
             v == [b EXCEPT !.kind = kind]
  <2>1. run' = [run EXCEPT ![r] = v]
    BY <1>6 DEF TInv, Typed
  <2> HIDE DEF a
  <2>2. b \in ARun /\ b.stage = "done" /\ b.screen = a.screen /\ b.dir = a.dir /\ b.current = a.current
    BY <1>4 DEF ARun
  <2> HIDE DEF b
  <2>3. v \in ARun /\ v.stage = "done" /\ v.screen = b.screen /\ v.dir = b.dir /\ v.current = b.current
    BY <2>2 DEF ARun
  <2> HIDE DEF v
  <2>4. v.screen = run[r].screen /\ (scr[v.screen].open => v.dir /\ v.current)
    BY <1>3, <1>4, <2>2, <2>3
  <2>5. UNCHANGED <<phase, inFlight, stack, scr, modal, ams, sent, lost>>
    BY DEF PrepareEnd
  <2> QED
    BY <1>1, <2>1, <2>3, <2>4, <2>5, ThreadStep
<1> QED
  BY <1>5, <1>6 DEF PrepareEnd

\* The result reaches its screen, or nobody.
LEMMA ApplyResultStep ==
  ASSUME TInv, NEW r \in Runs, ApplyResult(r)
  PROVE  TInv'
<1> DEFINE p == run[r].screen
<1>1. /\ run[r] \in ARun /\ run[r].stage = "done" /\ r # Nobody
      /\ UNCHANGED <<phase, inFlight, stack, modal, ams, sent, lost>>
  BY NobodyAssumption DEF TInv, Typed, ApplyResult, NobodyAssumption
<1>2. /\ p \in Screens /\ ~(modal.open /\ modal.run = r)
      /\ scr[p].open => scr[p].work = r /\ scr[p].preparing /\ scr[p].result = Nobody
      /\ \A q \in Screens : scr[q].result # r /\ (scr[q].work = r => q = p)
  BY <1>1, BusyRun
<1>3. scr \in [Screens -> AScreen] /\ run \in [Runs -> ARun] /\ scr[p] \in AScreen
  BY <1>2 DEF TInv, Typed
<1>4. \A q \in Screens : {scr[q].work, scr[q].result} \subseteq {Nobody} \cup Runs
  BY <1>3 DEF AScreen
<1>5. ShapeInv' /\ FedAsPrepared' /\ DeclinedFileSurvives'
  BY <1>1 DEF TInv, ShapeInv, FedAsPrepared, DeclinedFileSurvives, App
<1>6. CASE ~scr[p].open /\ run' = [run EXCEPT ![r] = NoRun] /\ UNCHANGED scr
  <2>1. NoRun \in ARun /\ NoRun.screen = Nobody /\ NoRun.stage = "free"
    BY SeenFacts, DefaultAssumption DEF NoRun, ARun, DefaultAssumption
  <2>2. /\ run' \in [Runs -> ARun] /\ run'[r] = NoRun
        /\ \A q \in Runs : q # r => run'[q] = run[q]
    BY <1>3, <1>6, <2>1
  <2>3. \A q \in Screens : scr[q].work # r
    BY <1>1, <1>2, <1>6 DEF TInv, ScreenInv, ScreenOk
  <2>4. modal.open => run'[modal.run] = run[modal.run] /\ modal.run \in Runs
    BY <1>2, <2>2 DEF TInv, ModalInv
  <2>5. Typed'
    BY <1>1, <1>6, <2>2 DEF TInv, Typed
  <2>6. ScreenInv'
    BY <1>1, <1>2, <1>4, <1>6, <2>2, <2>3 DEF TInv, ScreenInv, ScreenOk, Usable, App
  <2>7. RunInv'
    BY <1>1, <1>6, <2>1, <2>2 DEF TInv, RunInv, RunOk, Usable
  <2>8. ModalInv'
    BY <1>1, <1>6, <2>4 DEF TInv, ModalInv, Usable, FeedSlot, App
  <2>9. LinkInv'
    BY <1>1, <1>6, <2>4 DEF TInv, LinkInv
  <2> QED
    BY <1>5, <2>5, <2>6, <2>7, <2>8, <2>9 DEF TInv
<1>7. CASE scr[p].open /\ Delivered(r)
  <2> DEFINE v == [run[r] EXCEPT !.stage = "over"]
             res == IF run[r].ok THEN r ELSE Nobody
             a == [scr[p] EXCEPT !.preparing = FALSE]
             s == [a EXCEPT !.result = res]
  <2>1. run' = [run EXCEPT ![r] = v] /\ scr' = [scr EXCEPT ![p] = s]
    BY <1>3, <1>7 DEF Delivered
  <2>2. /\ v \in ARun /\ v.stage = "over" /\ v.screen = p /\ v.dir = run[r].dir /\ v.kind = run[r].kind
        /\ v.current = run[r].current /\ v.ok = run[r].ok
    BY <1>1 DEF ARun
  <2> HIDE DEF v
  <2>3. res \in {Nobody, r}
    OBVIOUS
  <2>4. /\ a \in AScreen /\ ~a.preparing /\ a.open = scr[p].open /\ a.work = scr[p].work
        /\ a.handed = scr[p].handed
    BY <1>3 DEF AScreen
  <2> HIDE DEF a
  <2>5. /\ s \in AScreen /\ ~s.preparing /\ s.open = scr[p].open /\ s.work = scr[p].work
        /\ s.handed = scr[p].handed /\ s.result = res
    BY <2>3, <2>4 DEF AScreen
  <2> HIDE DEF s
  <2>6. /\ run' \in [Runs -> ARun] /\ run'[r] = v /\ \A q \in Runs : q # r => run'[q] = run[q]
        /\ scr' \in [Screens -> AScreen] /\ scr'[p] = s /\ \A q \in Screens : q # p => scr'[q] = scr[q]
    BY <1>2, <1>3, <2>1, <2>2, <2>5
  <2>7. run[r].ok => Usable(r)
    BY <1>1, <1>2, <1>7, NobodyAssumption DEF TInv, RunInv, RunOk, NobodyAssumption
  <2>8. modal.open => run'[modal.run] = run[modal.run] /\ modal.run \in Runs
    BY <1>2, <2>6 DEF TInv, ModalInv
  <2>9. Typed'
    BY <1>1, <2>6 DEF TInv, Typed
  <2>10. Usable(r)' <=> Usable(r)
    BY <2>2, <2>6 DEF Usable
  <2>11. \A q \in Runs : q # r => (Usable(q)' <=> Usable(q))
    BY <2>6 DEF Usable
  <2>12. \A q \in Screens : scr'[q].open = scr[q].open /\ scr'[q].work = scr[q].work /\ scr'[q].handed = scr[q].handed
    BY <2>5, <2>6
  <2>13. ScreenInv'
    <3> SUFFICES ASSUME NEW q \in Screens PROVE ScreenOk(q)'
      BY DEF ScreenInv
    <3>1. CASE q = p
      <4>1. /\ scr'[q].open /\ scr'[q].work = r /\ ~scr'[q].preparing
            /\ scr'[q].result = IF run[r].ok THEN r ELSE Nobody
        BY <1>2, <1>7, <2>5, <2>6, <3>1
      <4>2. run'[r].screen = q /\ run'[r].stage = "over"
        BY <2>2, <2>6, <3>1
      <4>3. App'
        BY <1>1, <1>2, <1>7 DEF TInv, ScreenInv, ScreenOk, App
      <4>4. scr'[q].result # Nobody => scr'[q].result = r /\ Usable(r)'
        BY <2>7, <2>10, <4>1
      <4> QED
        BY <4>1, <4>2, <4>3, <4>4 DEF ScreenOk, Usable
    <3>2. CASE q # p
      <4>1. scr'[q] = scr[q] /\ scr[q].work # r /\ scr[q].result # r
        BY <1>2, <2>6, <3>2
      <4> QED
        BY <1>1, <1>4, <2>6, <2>11, <4>1 DEF TInv, ScreenInv, ScreenOk, App
    <3> QED
      BY <3>1, <3>2
  <2>14. RunInv'
    <3> SUFFICES ASSUME NEW q \in Runs PROVE RunOk(q)'
      BY DEF RunInv
    <3>1. CASE q = r
      BY <1>1, <1>2, <1>7, <2>2, <2>6, <2>12, <3>1, NobodyAssumption DEF TInv, RunInv, RunOk,
         NobodyAssumption
    <3>2. CASE q # r
      <4>1. run'[q] = run[q] /\ run[q].screen \in {Nobody} \cup Screens /\ RunOk(q)
        BY <1>3, <2>6, <3>2 DEF TInv, RunInv, ARun
      <4>2. run[q].screen = Nobody => run[q].stage = "free"
        BY <4>1 DEF RunOk
      <4>3. UNCHANGED modal
        BY <1>1
      <4> QED
        BY <2>11, <2>12, <3>2, <4>1, <4>2, <4>3 DEF RunOk
    <3> QED
      BY <3>1, <3>2
  <2>15. ModalInv'
    BY <1>1, <2>8, <2>12 DEF TInv, ModalInv, Usable, FeedSlot, App, RunInv, RunOk, Typed, ARun
  <2>16. LinkInv'
    <3>1. \A i \in 1 .. Len(stack) : stack[i].kind \in {"prepare", "settings"} => stack[i].of \in Screens
      BY DEF TInv, ShapeInv
    <3>2. \A q \in Screens : scr'[q].preparing => scr[q].preparing
      BY <2>5, <2>6
    <3> QED
      BY <1>1, <2>8, <2>12, <3>1, <3>2 DEF TInv, LinkInv
  <2> QED
    BY <1>5, <2>9, <2>13, <2>14, <2>15, <2>16 DEF TInv
<1> QED
  BY <1>6, <1>7 DEF ApplyResult

----------------------------------------------------------------------------
(* A working directory is made, and deleted. *)

\* A new run is queued, current, and has a directory.
LEMMA NewFacts ==
  /\ NoRun \in ARun /\ NoRun.screen = Nobody /\ NoRun.stage = "free"
  /\ \A p \in Screens : scr[p] \in AScreen =>
       /\ NewRun(p) \in ARun /\ NewRun(p).screen = p /\ NewRun(p).stage = "queued"
       /\ NewRun(p).dir /\ NewRun(p).current /\ ~NewRun(p).ok
<1>1. NoRun \in ARun
  BY SeenFacts, DefaultAssumption DEF NoRun, ARun, DefaultAssumption
<1>2. ASSUME NEW p \in Screens, scr[p] \in AScreen
      PROVE  /\ NewRun(p) \in ARun /\ NewRun(p).screen = p /\ NewRun(p).stage = "queued"
             /\ NewRun(p).dir /\ NewRun(p).current /\ ~NewRun(p).ok
  <2>1. scr[p].material \in Materials
    BY <1>2 DEF AScreen
  <2> QED
    BY <2>1, SeenFacts DEF NoRun, NewRun, ARun
<1> QED
  BY <1>1, <1>2 DEF NoRun

\* What cleanup_workdir leaves of a run.
LEMMA CleanedFacts ==
  ASSUME TInv, NEW r \in Runs
  PROVE  /\ Cleaned(r) \in ARun /\ ~Cleaned(r).ok
         /\ run[r].stage = "over" => Cleaned(r) = NoRun
         /\ run[r].stage # "over" => Cleaned(r).stage = run[r].stage /\ Cleaned(r).screen = run[r].screen
<1>1. run[r] \in ARun
  BY DEF TInv, Typed
<1>2. run[r].stage \in {"free", "queued", "working", "done", "over"} /\ run[r].screen \in {Nobody} \cup Screens
  BY <1>1 DEF ARun
<1> QED
  BY <1>2, SeenFacts, DefaultAssumption DEF Cleaned, NoRun, ARun, DefaultAssumption

\* Of the run of a screen that is not preparing nothing is left.
LEMMA DiscardFacts ==
  ASSUME TInv, NEW p \in Screens, ~scr[p].preparing
  PROVE  Discarding({p}) = [r \in Runs |-> IF scr[p].work = r THEN NoRun ELSE run[r]]
<1>1. ASSUME NEW r \in Runs, scr[p].work = r PROVE Cleaned(r) = NoRun
  <2>1. run[r].stage = "over"
    BY <1>1, NobodyAssumption DEF TInv, ScreenInv, ScreenOk, NobodyAssumption
  <2> QED
    BY <2>1, CleanedFacts
<1> QED
  BY <1>1 DEF Discarding

\* The settings of a screen are not open while it is on top.
LEMMA NoSettings ==
  ASSUME TInv, NEW p \in Screens, OnScreen(p)
  PROVE  /\ App /\ ~modal.open /\ scr[p].open
         /\ \A i \in 1 .. Len(stack) : stack[i].of = p => stack[i].kind \notin {"settings", "confirm"}
<1>1. /\ App /\ Len(stack) \in Nat \ {0} /\ stack[Len(stack)].kind = "prepare" /\ stack[Len(stack)].of = p
      /\ ~modal.open /\ scr[p].open
  BY TopFacts DEF OnScreen, On
<1>2. ASSUME NEW i \in 1 .. Len(stack), stack[i].of = p, stack[i].kind \in {"settings", "confirm"} PROVE FALSE
  <2>1. i > 1 /\ stack[i - 1].kind = "prepare" /\ stack[i - 1].of = p
    BY <1>2 DEF TInv, ShapeInv
  <2>2. i - 1 \in 1 .. Len(stack) /\ i - 1 # Len(stack) /\ Len(stack) \in 1 .. Len(stack)
    BY <1>1, <2>1
  <2>3. \A j, k \in 1 .. Len(stack) :
          stack[j].kind = "prepare" /\ stack[k].kind = "prepare" /\ stack[j].of = stack[k].of => j = k
    BY DEF TInv, ShapeInv
  <2> QED
    BY <1>1, <2>1, <2>2, <2>3
<1> QED
  BY <1>1, <1>2

\* The user starts a run.
LEMMA StartPrepareStep ==
  ASSUME TInv, NEW p \in Screens, StartPrepare(p)
  PROVE  TInv'
<1>1. /\ OnScreen(p) /\ ~scr[p].preparing
      /\ UNCHANGED <<phase, inFlight, stack, modal, ams, sent, lost>>
  BY DEF StartPrepare
<1>2. PICK r \in Runs :
        /\ Discarding({p})[r].stage = "free"
        /\ run' = [Discarding({p}) EXCEPT ![r] = NewRun(p)]
        /\ scr' = [scr EXCEPT ![p].work = r, ![p].result = Nobody, ![p].preparing = TRUE]
  BY DEF StartPrepare, Least
<1>3. /\ App /\ ~modal.open /\ scr[p].open
      /\ \A i \in 1 .. Len(stack) : stack[i].of = p => stack[i].kind \notin {"settings", "confirm"}
  BY <1>1, NoSettings
<1>4. /\ scr \in [Screens -> AScreen] /\ run \in [Runs -> ARun] /\ scr[p] \in AScreen
      /\ r # Nobody /\ Nobody \notin Screens
  BY NobodyAssumption DEF TInv, Typed, NobodyAssumption
<1> DEFINE new == NewRun(p)
           w == scr[p].work
           a == [scr[p] EXCEPT !.work = r]
           b == [a EXCEPT !.result = Nobody]
           s == [b EXCEPT !.preparing = TRUE]
<1>5. scr' = [scr EXCEPT ![p] = s]
  BY <1>2, <1>4
<1>6. a \in AScreen /\ a.open = scr[p].open /\ a.work = r /\ a.handed = scr[p].handed
  BY <1>4 DEF AScreen
<1> HIDE DEF a
<1>7. /\ b \in AScreen /\ b.open = scr[p].open /\ b.work = r /\ b.handed = scr[p].handed
      /\ b.result = Nobody
  BY <1>6 DEF AScreen
<1> HIDE DEF b
<1>8. /\ s \in AScreen /\ s.open = scr[p].open /\ s.work = r /\ s.handed = scr[p].handed
      /\ s.result = Nobody /\ s.preparing
  BY <1>7 DEF AScreen
<1> HIDE DEF s
<1>9. /\ new \in ARun /\ new.screen = p /\ new.stage = "queued" /\ new.dir /\ new.current /\ ~new.ok
      /\ NoRun \in ARun /\ NoRun.screen = Nobody /\ NoRun.stage = "free"
  BY <1>4, NewFacts
<1>9a. run' = [Discarding({p}) EXCEPT ![r] = new]
  BY <1>2
<1> HIDE DEF new, w
<1>10. Discarding({p}) = [x \in Runs |-> IF w = x THEN NoRun ELSE run[x]]
  BY <1>1, DiscardFacts DEF w
<1>11. /\ run' \in [Runs -> ARun] /\ run'[r] = new
       /\ \A x \in Runs : x # r => run'[x] = IF w = x THEN NoRun ELSE run[x]
  BY <1>9a, <1>4, <1>9, <1>10
<1>12. w = r \/ run[r].stage = "free"
  BY <1>2, <1>10
<1>13. /\ scr' \in [Screens -> AScreen] /\ scr'[p] = s
       /\ \A q \in Screens : q # p => scr'[q] = scr[q]
  BY <1>4, <1>5, <1>8
<1>14. Typed'
  BY <1>1, <1>11, <1>13 DEF TInv, Typed
<1>15. ScreenInv'
  <2> SUFFICES ASSUME NEW q \in Screens PROVE ScreenOk(q)'
    BY DEF ScreenInv
  <2>1. ScreenOk(q) /\ {scr[q].work, scr[q].result} \subseteq {Nobody} \cup Runs
    BY <1>4 DEF TInv, ScreenInv, AScreen
  <2>2. CASE q = p
    BY <1>1, <1>3, <1>4, <1>8, <1>9, <1>11, <1>13, <2>2 DEF ScreenOk, App
  <2>3. CASE q # p
    <3>1. scr[q].work # Nobody => run[scr[q].work].screen = q
      BY <2>1 DEF ScreenOk
    <3>2. w # Nobody => run[w].screen = p
      BY DEF TInv, ScreenInv, ScreenOk, w
    <3>3. run[r].screen # q
      <4>1. run[r].stage = "free" => run[r].screen = Nobody
        BY DEF TInv, RunInv, RunOk
      <4> QED
        BY <1>4, <1>12, <2>3, <3>2, <4>1
    <3>4. scr[q].work # Nobody => run'[scr[q].work] = run[scr[q].work]
      BY <1>11, <2>1, <2>3, <3>1, <3>2, <3>3
    <3>5. scr'[q] = scr[q]
      BY <1>13, <2>3
    <3>6. scr[q].result # Nobody => scr[q].result = scr[q].work
      BY <2>1 DEF ScreenOk
    <3> QED
      BY <1>1, <2>1, <3>4, <3>5, <3>6 DEF ScreenOk, Usable, App
  <2> QED
    BY <2>2, <2>3
<1>16. RunInv'
  <2> SUFFICES ASSUME NEW x \in Runs PROVE RunOk(x)'
    BY DEF RunInv
  <2>1. CASE x = r
    BY <1>3, <1>4, <1>8, <1>9, <1>11, <1>13, <2>1 DEF RunOk
  <2>2. CASE x # r /\ w = x
    <3>1. run'[x] = NoRun
      BY <1>11, <2>2
    <3> QED
      BY <1>4, <1>9, <3>1 DEF RunOk
  <2>3. CASE x # r /\ w # x
    <3>1. run'[x] = run[x] /\ run[x] \in ARun /\ RunOk(x)
      BY <1>4, <1>11, <2>3 DEF TInv, RunInv
    <3>2. run[x].screen # p
      BY <1>3, <1>4, <2>3, <3>1 DEF RunOk, w
    <3>3. run[x].screen # Nobody => scr'[run[x].screen] = scr[run[x].screen]
      BY <1>13, <3>1, <3>2 DEF ARun
    <3>4. run[x].stage = "over" => run[x].screen # Nobody
      BY <3>1 DEF RunOk
    <3> QED
      BY <1>1, <3>1, <3>3, <3>4 DEF RunOk, Usable
  <2> QED
    BY <2>1, <2>2, <2>3
<1>17. ModalInv'
  BY <1>1, <1>3 DEF TInv, ModalInv
<1>18. ShapeInv' /\ FedAsPrepared' /\ DeclinedFileSurvives'
  BY <1>1 DEF TInv, ShapeInv, FedAsPrepared, DeclinedFileSurvives, App
<1>19. LinkInv'
  <2>1. \A i \in 1 .. Len(stack) : stack[i].kind \in {"prepare", "settings"} => stack[i].of \in Screens
    BY DEF TInv, ShapeInv
  <2>2. \A q \in Screens : scr'[q].open = scr[q].open
    BY <1>8, <1>13
  <2> QED
    BY <1>1, <1>3, <1>13, <2>1, <2>2 DEF TInv, LinkInv
<1> QED
  BY <1>14, <1>15, <1>16, <1>17, <1>18, <1>19 DEF TInv

----------------------------------------------------------------------------
(* The user's steps that open or leave a prepare screen. *)

\* The user opens a prepare screen.
LEMMA NewPrintStep ==
  ASSUME TInv, NewPrint
  PROVE  TInv'
<1>1. /\ App /\ Top.kind \notin {"confirm", "help", "prepare"}
      /\ UNCHANGED <<phase, inFlight, run, modal, ams, sent, lost>>
  BY DEF NewPrint, AppKey
<1>2. PICK p \in Screens : Unused(p) /\ Push("prepare", p) /\ scr' = [scr EXCEPT ![p] = NewScreen]
  BY DEF NewPrint, Least
<1>3. ~scr[p].open /\ \A x \in Runs : run[x].screen # p
  BY <1>2 DEF Unused
<1>4. /\ scr \in [Screens -> AScreen] /\ run \in [Runs -> ARun] /\ Nobody \notin Screens
  BY NobodyAssumption DEF TInv, Typed, NobodyAssumption
<1> DEFINE s == NewScreen
<1>5. /\ s \in AScreen /\ s.open /\ ~s.preparing
      /\ s.work = Nobody /\ s.result = Nobody /\ s.handed = Nobody
  BY SeenFacts, DefaultAssumption DEF NewScreen, AScreen, DefaultAssumption
<1>6. scr' = [scr EXCEPT ![p] = s]
  BY <1>2
<1> HIDE DEF s
<1>7. /\ scr' \in [Screens -> AScreen] /\ scr'[p] = s
      /\ \A q \in Screens : q # p => scr'[q] = scr[q]
  BY <1>4, <1>5, <1>6
<1>8. ~modal.open
  BY <1>1, TopFacts
<1>9. ShapeInv' /\ stack' \in Seq(Entries)
  BY <1>1, <1>2, <1>3, <1>8, PushShape
<1>10. /\ Len(stack') = Len(stack) + 1
       /\ \A i \in 1 .. Len(stack) : stack'[i] = stack[i]
       /\ stack'[Len(stack')].kind = "prepare" /\ stack'[Len(stack')].of = p
  BY <1>2, PushFacts DEF TInv
<1>11. Typed'
  BY <1>1, <1>7, <1>9 DEF TInv, Typed
<1>12. ScreenInv'
  <2> SUFFICES ASSUME NEW q \in Screens PROVE ScreenOk(q)'
    BY DEF ScreenInv
  <2>1. CASE q = p
    BY <1>1, <1>5, <1>7, <2>1 DEF ScreenOk, App
  <2>2. CASE q # p
    <3>1. scr'[q] = scr[q] /\ ScreenOk(q)
      BY <1>7, <2>2 DEF TInv, ScreenInv
    <3> QED
      BY <1>1, <3>1 DEF ScreenOk, Usable, App
  <2> QED
    BY <2>1, <2>2
<1>13. RunInv'
  <2> SUFFICES ASSUME NEW x \in Runs PROVE RunOk(x)'
    BY DEF RunInv
  <2>1. RunOk(x) /\ run[x] \in ARun /\ run[x].screen # p
    BY <1>3, <1>4 DEF TInv, RunInv
  <2>2. run[x].screen # Nobody => scr'[run[x].screen] = scr[run[x].screen]
    BY <1>7, <2>1 DEF ARun
  <2>3. run[x].stage = "over" => run[x].screen # Nobody
    BY <2>1 DEF RunOk
  <2> QED
    BY <1>1, <2>1, <2>2, <2>3 DEF RunOk, Usable
<1>14. ModalInv'
  BY <1>1, <1>8 DEF TInv, ModalInv
<1>15. FedAsPrepared' /\ DeclinedFileSurvives'
  BY <1>1 DEF TInv, FedAsPrepared, DeclinedFileSurvives
<1>16. LinkInv'
  <2>1. \A i \in 1 .. Len(stack) : stack[i].kind \in {"prepare", "settings"} => stack[i].of \in Screens
    BY DEF TInv, ShapeInv
  <2>2. \A q \in Screens : (scr[q].open => scr'[q].open) /\ (scr'[q].preparing => scr[q].preparing)
    BY <1>5, <1>7
  <2>3. \A i \in 1 .. Len(stack) :
          /\ stack[i].kind = "prepare" => scr[stack[i].of].open
          /\ stack[i].kind = "settings" => ~scr[stack[i].of].preparing
          /\ stack[i].kind # "confirm"
    BY <1>8 DEF TInv, LinkInv
  <2>4. Len(stack) \in Nat
    BY DEF TInv, Typed
  <2>5. ASSUME NEW i \in 1 .. Len(stack')
        PROVE  /\ stack'[i].kind = "prepare" => scr'[stack'[i].of].open
               /\ stack'[i].kind = "settings" => ~scr'[stack'[i].of].preparing
               /\ stack'[i].kind # "confirm"
    <3>1. CASE i = Len(stack')
      BY <1>5, <1>7, <1>10, <3>1
    <3>2. CASE i # Len(stack')
      <4>1. i \in 1 .. Len(stack)
        BY <1>10, <2>4, <3>2
      <4>2. stack'[i] = stack[i]
        BY <1>10, <4>1
      <4> QED
        BY <2>1, <2>2, <2>3, <4>1, <4>2
    <3> QED
      BY <3>1, <3>2
  <2> QED
    BY <1>1, <1>8, <2>5 DEF LinkInv
<1> QED
  BY <1>9, <1>11, <1>12, <1>13, <1>14, <1>15, <1>16 DEF TInv

\* A screen that is gone owns nothing.
LEMMA UnmountedFacts ==
  ASSUME Typed, NEW p \in Screens
  PROVE  LET s == Unmounted(p)
         IN  /\ s \in AScreen /\ ~s.open /\ ~s.preparing
             /\ s.work = Nobody /\ s.result = Nobody /\ s.handed = Nobody
<1> DEFINE n == NoScreen
           d == scr[p].detecting
<1>1. d \in BOOLEAN
  BY DEF Typed, AScreen
<1>2. /\ n \in AScreen /\ ~n.open /\ ~n.preparing
      /\ n.work = Nobody /\ n.result = Nobody /\ n.handed = Nobody
  BY SeenFacts, DefaultAssumption DEF NoScreen, NewScreen, AScreen, DefaultAssumption
<1>3. Unmounted(p) = [n EXCEPT !.detecting = d]
  BY DEF Unmounted
<1> HIDE DEF n, d
<1> QED
  BY <1>1, <1>2, <1>3 DEF AScreen

\* The user leaves a prepare screen.
LEMMA BackStep ==
  ASSUME TInv, NEW p \in Screens, Back(p)
  PROVE  TInv'
<1> DEFINE s == Unmounted(p)
           w == scr[p].work
           c == Cleaned(w)
<1>1. /\ OnScreen(p) /\ UNCHANGED <<phase, inFlight, modal, ams, sent, lost>>
      /\ stack' = Pop /\ scr' = [scr EXCEPT ![p] = s] /\ run' = Discarding({p})
  BY DEF Back
<1>2. /\ App /\ ~modal.open /\ scr[p].open
      /\ \A i \in 1 .. Len(stack) : stack[i].of = p => stack[i].kind \notin {"settings", "confirm"}
      /\ Top.kind = "prepare" /\ Top.of = p
  BY <1>1, NoSettings DEF OnScreen, On
<1>3. /\ scr \in [Screens -> AScreen] /\ run \in [Runs -> ARun] /\ scr[p] \in AScreen
      /\ Nobody \notin Screens /\ Nobody \notin Runs
  BY NobodyAssumption DEF TInv, Typed, NobodyAssumption
<1>4. /\ s \in AScreen /\ ~s.open /\ ~s.preparing
      /\ s.work = Nobody /\ s.result = Nobody /\ s.handed = Nobody
  BY UnmountedFacts DEF TInv
<1> HIDE DEF s
<1>5. w \in Runs =>
        /\ c \in ARun /\ ~c.ok
        /\ c = NoRun \/ (c.stage = run[w].stage /\ c.screen = p /\ c.stage \notin {"over", "free"})
  <2> SUFFICES ASSUME w \in Runs
               PROVE  /\ c \in ARun /\ ~c.ok
                      /\ c = NoRun \/ (c.stage = run[w].stage /\ c.screen = p /\ c.stage \notin {"over", "free"})
    OBVIOUS
  <2>1. run[w].screen = p /\ run[w].stage # "free"
    BY <1>3 DEF TInv, ScreenInv, ScreenOk, RunInv, RunOk
  <2> QED
    BY <2>1, CleanedFacts
<1>6. run' = [x \in Runs |-> IF w = x THEN c ELSE run[x]]
  <2>1. \A x \in Runs : w = x => Cleaned(x) = c
    OBVIOUS
  <2> QED
    BY <1>1, <2>1 DEF Discarding
<1>6a. \A x \in Runs : w = x => run[x].screen = p
  BY <1>3 DEF TInv, ScreenInv, ScreenOk
<1> HIDE DEF c
<1>7. /\ run' \in [Runs -> ARun]
      /\ \A x \in Runs : run'[x] = IF w = x THEN c ELSE run[x]
  BY <1>3, <1>5, <1>6
<1>8. /\ scr' \in [Screens -> AScreen] /\ scr'[p] = s
      /\ \A q \in Screens : q # p => scr'[q] = scr[q]
  BY <1>1, <1>3, <1>4
<1>9. /\ ShapeInv' /\ stack' \in Seq(Entries) /\ Len(stack') = Len(stack) - 1 /\ Len(stack) \in Nat \ {0}
      /\ \A i \in 1 .. Len(stack') : stack'[i] = stack[i]
  BY <1>1, <1>2, PopShape
<1>10. Typed'
  BY <1>1, <1>7, <1>8, <1>9 DEF TInv, Typed
<1>11. ScreenInv'
  <2> SUFFICES ASSUME NEW q \in Screens PROVE ScreenOk(q)'
    BY DEF ScreenInv
  <2>1. CASE q = p
    BY <1>3, <1>4, <1>8, <2>1 DEF ScreenOk
  <2>2. CASE q # p
    <3>1. scr'[q] = scr[q] /\ ScreenOk(q) /\ {scr[q].work, scr[q].result} \subseteq {Nobody} \cup Runs
      BY <1>3, <1>8, <2>2 DEF TInv, ScreenInv, AScreen
    <3>2. scr[q].work # Nobody => run'[scr[q].work] = run[scr[q].work]
      BY <1>6a, <1>7, <2>2, <3>1 DEF ScreenOk
    <3>3. scr[q].result # Nobody => scr[q].result = scr[q].work
      BY <3>1 DEF ScreenOk
    <3> QED
      BY <1>1, <3>1, <3>2, <3>3 DEF ScreenOk, Usable, App
  <2> QED
    BY <2>1, <2>2
<1>12. RunInv'
  <2> SUFFICES ASSUME NEW x \in Runs PROVE RunOk(x)'
    BY DEF RunInv
  <2>1. CASE w = x
    <3>1. run'[x] = c /\ c \in ARun /\ ~c.ok
      BY <1>5, <1>7, <2>1
    <3>2. CASE c = NoRun
      BY <1>3, <3>1, <3>2 DEF RunOk, NoRun
    <3>3. CASE c # NoRun
      BY <1>3, <1>4, <1>5, <1>8, <2>1, <3>1, <3>3 DEF RunOk
    <3> QED
      BY <3>2, <3>3
  <2>2. CASE w # x
    <3>1. run'[x] = run[x] /\ run[x] \in ARun /\ RunOk(x)
      BY <1>3, <1>7, <2>2 DEF TInv, RunInv
    <3>2. run[x].screen # p
      BY <1>2, <1>3, <2>2, <3>1 DEF RunOk
    <3>3. run[x].screen # Nobody => scr'[run[x].screen] = scr[run[x].screen]
      BY <1>8, <3>1, <3>2 DEF ARun
    <3>4. run[x].stage = "over" => run[x].screen # Nobody
      BY <3>1 DEF RunOk
    <3> QED
      BY <1>1, <3>1, <3>3, <3>4 DEF RunOk, Usable
  <2> QED
    BY <2>1, <2>2
<1>13. ModalInv'
  BY <1>1, <1>2 DEF TInv, ModalInv
<1>14. FedAsPrepared' /\ DeclinedFileSurvives'
  BY <1>1 DEF TInv, FedAsPrepared, DeclinedFileSurvives
<1>15. LinkInv'
  <2>1. /\ Len(stack) \in 1 .. Len(stack) /\ stack[Len(stack)].kind = "prepare" /\ stack[Len(stack)].of = p
        /\ \A i \in 1 .. Len(stack') : i \in 1 .. Len(stack) /\ i # Len(stack) /\ stack'[i] = stack[i]
    BY <1>2, <1>9, TopFacts
  <2>2. /\ \A i, j \in 1 .. Len(stack) :
             stack[i].kind = "prepare" /\ stack[j].kind = "prepare" /\ stack[i].of = stack[j].of => i = j
        /\ \A i \in 1 .. Len(stack) : stack[i].kind \in {"prepare", "settings"} => stack[i].of \in Screens
    BY DEF TInv, ShapeInv
  <2>3. ASSUME NEW i \in 1 .. Len(stack'), stack[i].kind \in {"prepare", "settings"}
        PROVE  scr'[stack[i].of] = scr[stack[i].of]
    <3>1. i \in 1 .. Len(stack) /\ stack[i].of \in Screens /\ stack[i].of # p
      BY <1>2, <2>1, <2>2, <2>3
    <3> QED
      BY <1>8, <3>1
  <2>4. /\ \A i \in 1 .. Len(stack) :
             /\ stack[i].kind = "prepare" => scr[stack[i].of].open
             /\ stack[i].kind = "settings" => ~scr[stack[i].of].preparing
             /\ stack[i].kind # "confirm"
    BY <1>2 DEF TInv, LinkInv
  <2> QED
    BY <1>1, <1>2, <2>1, <2>3, <2>4 DEF LinkInv
<1> QED
  BY <1>9, <1>10, <1>11, <1>12, <1>13, <1>14, <1>15 DEF TInv

\* The user quits.
LEMMA QuitStep ==
  ASSUME TInv, Quit
  PROVE  TInv'
<1> DEFINE m == [modal EXCEPT !.open = FALSE]
           rest == Discarding(Screens)
<1>1. /\ App /\ ~inFlight /\ phase' = "closing" /\ stack' = <<>>
      /\ scr' = [p \in Screens |-> Unmounted(p)]
      /\ UNCHANGED <<inFlight, ams, sent, lost>>
      /\ modal' = [modal EXCEPT !.open = FALSE, !.owns = FALSE]
      /\ run' = IF modal.open /\ modal.owns THEN [rest EXCEPT ![modal.run] = Cleaned(modal.run)] ELSE rest
  BY DEF Quit, Closing
<1>2. /\ scr \in [Screens -> AScreen] /\ run \in [Runs -> ARun] /\ modal \in AModal
      /\ Nobody \notin Screens /\ Nobody \notin Runs
  BY NobodyAssumption DEF TInv, Typed, NobodyAssumption
<1>3. modal' = [m EXCEPT !.owns = FALSE]
  BY <1>1, <1>2 DEF AModal
<1>4. m \in AModal /\ ~m.open /\ m.job = modal.job
  BY <1>2 DEF AModal
<1> HIDE DEF m
<1>5. modal' \in AModal /\ ~modal'.open /\ modal'.job = modal.job
  BY <1>3, <1>4 DEF AModal
<1>6. \A p \in Screens :
        /\ scr'[p] \in AScreen /\ ~scr'[p].open /\ ~scr'[p].preparing
        /\ scr'[p].work = Nobody /\ scr'[p].result = Nobody /\ scr'[p].handed = Nobody
  BY <1>1, UnmountedFacts DEF TInv
<1>7. scr' \in [Screens -> AScreen]
  BY <1>1, <1>6
<1>8. modal.open /\ modal.owns => modal.run \in Runs
  BY DEF TInv, ModalInv
<1>9. ASSUME NEW x \in Runs PROVE run'[x] \in {run[x], Cleaned(x)} /\ (run'[x] = run[x] => Cleaned(x) = run[x] \/
        (~(modal.open /\ modal.owns /\ modal.run = x) /\ \A p \in Screens : scr[p].work # x))
  BY <1>1, <1>2, <1>8 DEF Discarding
<1>10. \A x \in Runs : run'[x] \in ARun
  BY <1>2, <1>9, CleanedFacts
<1>11. run' \in [Runs -> ARun]
  <2>1. rest = [x \in Runs |-> rest[x]]
    BY DEF Discarding
  <2>2. run' = [x \in Runs |-> run'[x]]
    BY <1>1, <2>1
  <2> QED
    BY <1>10, <2>2
<1>12. Typed'
  <2>1. stack' \in Seq(Entries)
    BY <1>1
  <2> QED
    BY <1>1, <1>5, <1>7, <1>11, <2>1 DEF TInv, Typed
<1>13. ScreenInv'
  BY <1>6 DEF ScreenInv, ScreenOk
<1>14. RunInv'
  <2> SUFFICES ASSUME NEW x \in Runs PROVE RunOk(x)'
    BY DEF RunInv
  <2>1. RunOk(x) /\ run[x] \in ARun
    BY <1>2 DEF TInv, RunInv
  <2>2. CASE run'[x] = Cleaned(x)
    <3>1. CASE run[x].stage = "over"
      <4>1. run'[x] = NoRun
        BY <2>2, <3>1, CleanedFacts
      <4> QED
        BY <1>2, <4>1 DEF RunOk, NoRun
    <3>2. CASE run[x].stage # "over"
      <4>1. run'[x].stage = run[x].stage /\ run'[x].screen = run[x].screen /\ ~run'[x].ok
        BY <2>2, <3>2, CleanedFacts
      <4> QED
        BY <1>6, <2>1, <3>2, <4>1 DEF RunOk, ARun
    <3> QED
      BY <3>1, <3>2
  <2>3. CASE run'[x] # Cleaned(x)
    <3>1. run'[x] = run[x]
      BY <1>9, <2>3
    <3>2. ~(modal.open /\ modal.owns /\ modal.run = x) /\ \A p \in Screens : scr[p].work # x
      BY <1>9, <2>3, <3>1
    <3>3. run[x].stage # "over"
      <4>1. modal.open => modal.owns
        BY DEF TInv, ModalInv
      <4> QED
        BY <2>1, <3>2, <4>1 DEF RunOk, ARun
    <3> QED
      BY <1>6, <2>1, <3>1, <3>3 DEF RunOk, ARun
  <2> QED
    BY <2>2, <2>3
<1>15. ModalInv'
  <2>1. modal.job = "idle"
    BY <1>1 DEF TInv, ModalInv
  <2> QED
    BY <1>1, <1>5, <2>1 DEF TInv, ModalInv
<1>16. ShapeInv' /\ LinkInv'
  <2>1. ~App' /\ 1 .. Len(stack') = {}
    BY <1>1 DEF App
  <2> QED
    BY <1>1, <1>5, <2>1 DEF ShapeInv, LinkInv
<1>17. FedAsPrepared' /\ DeclinedFileSurvives'
  BY <1>1 DEF TInv, FedAsPrepared, DeclinedFileSurvives
<1> QED
  BY <1>12, <1>13, <1>14, <1>15, <1>16, <1>17 DEF TInv

----------------------------------------------------------------------------
(* The settings are applied. *)

\* Settings that change a prepared model discard its run.
LEMMA ApplySettingsStep ==
  ASSUME TInv, NEW p \in Screens, ApplySettings(p)
  PROVE  TInv'
<1> DEFINE w == scr[p].work
<1>1. /\ App /\ Top.kind = "settings" /\ Top.of = p /\ stack' = Pop
      /\ UNCHANGED <<phase, inFlight, modal, ams, sent, lost>>
  BY DEF ApplySettings, On
<1>2. ~modal.open /\ scr[p].open /\ ~scr[p].preparing
  BY <1>1, TopFacts
<1>3. /\ scr \in [Screens -> AScreen] /\ run \in [Runs -> ARun] /\ scr[p] \in AScreen
      /\ Nobody \notin Screens /\ Nobody \notin Runs /\ NoRun \in ARun
  BY NobodyAssumption, NewFacts DEF TInv, Typed, NobodyAssumption
\* The one run of the screen is over.
<1>4. /\ w \in Runs => run[w].screen = p /\ run[w].stage = "over"
      /\ \A x \in Runs : run[x].screen = p => x = w
  BY <1>2, <1>3 DEF TInv, ScreenInv, ScreenOk, RunInv, RunOk
<1>5. \A x \in Runs : /\ run'[x] \in ARun
                      /\ x # w => run'[x] = run[x]
                      /\ x = w => run'[x] = NoRun \/ (/\ run'[x].stage = "over" /\ run'[x].screen = p
                                                      /\ scr[p].result = Nobody)
  <2>1. Discarding({p}) = [x \in Runs |-> IF w = x THEN NoRun ELSE run[x]]
    BY <1>2, DiscardFacts
  <2> SUFFICES ASSUME NEW x \in Runs
               PROVE  /\ run'[x] \in ARun
                      /\ x # w => run'[x] = run[x]
                      /\ x = w => run'[x] = NoRun \/ (/\ run'[x].stage = "over" /\ run'[x].screen = p
                                                      /\ scr[p].result = Nobody)
    OBVIOUS
  <2>2. CASE scr[p].result = Nobody
    <3>1. run'[x] = IF run[x].screen = p THEN [run[x] EXCEPT !.current = FALSE] ELSE run[x]
      BY <2>2 DEF ApplySettings, Outdated
    <3>2. /\ [run[x] EXCEPT !.current = FALSE] \in ARun
          /\ [run[x] EXCEPT !.current = FALSE].stage = run[x].stage
          /\ [run[x] EXCEPT !.current = FALSE].screen = run[x].screen
      BY <1>3 DEF ARun
    <3> QED
      BY <1>3, <1>4, <2>2, <3>1, <3>2
  <2>3. CASE scr[p].result # Nobody
    <3>1. run' = Outdated(Discarding({p}), p)
      BY <2>3 DEF ApplySettings
    <3>2. NoRun.screen # p
      BY <1>3, NewFacts
    <3> QED
      BY <1>3, <1>4, <2>1, <3>1, <3>2 DEF Outdated
  <2> QED
    BY <2>2, <2>3
<1>6. run' \in [Runs -> ARun]
  <2>1. run' = [x \in Runs |-> run'[x]]
    BY DEF ApplySettings, Outdated
  <2> QED
    BY <1>5, <2>1
<1>7. /\ scr' \in [Screens -> AScreen]
      /\ \A q \in Screens : q # p => scr'[q] = scr[q]
      /\ scr'[p].open /\ ~scr'[p].preparing /\ scr'[p].result = Nobody
      /\ scr'[p].work = IF scr[p].result = Nobody THEN w ELSE Nobody
      /\ scr'[p].handed = scr[p].handed
  <2>1. CASE scr[p].result = Nobody
    BY <1>2, <1>3, <2>1 DEF ApplySettings
  <2>2. CASE scr[p].result # Nobody
    <3> DEFINE a == [scr[p] EXCEPT !.result = Nobody]
               s == [a EXCEPT !.work = Nobody]
    <3>1. scr' = [scr EXCEPT ![p] = s]
      BY <1>3, <2>2 DEF ApplySettings
    <3>2. /\ a \in AScreen /\ a.open /\ ~a.preparing /\ a.result = Nobody
          /\ a.handed = scr[p].handed
      BY <1>2, <1>3 DEF AScreen
    <3> HIDE DEF a
    <3>3. /\ s \in AScreen /\ s.open /\ ~s.preparing /\ s.result = Nobody /\ s.work = Nobody
          /\ s.handed = scr[p].handed
      BY <3>2 DEF AScreen
    <3> HIDE DEF s
    <3> QED
      BY <1>3, <2>2, <3>1, <3>3
  <2> QED
    BY <2>1, <2>2
<1> HIDE DEF w
<1>8. /\ ShapeInv' /\ stack' \in Seq(Entries) /\ Len(stack') = Len(stack) - 1 /\ Len(stack) \in Nat \ {0}
      /\ \A i \in 1 .. Len(stack') : stack'[i] = stack[i]
  BY <1>1, PopShape
<1>9. Typed'
  BY <1>1, <1>6, <1>7, <1>8 DEF TInv, Typed
<1>10. ScreenInv'
  <2> SUFFICES ASSUME NEW q \in Screens PROVE ScreenOk(q)'
    BY DEF ScreenInv
  <2>1. CASE q = p
    <3>1. scr'[p].work # Nobody => scr'[p].work = w /\ w \in Runs /\ scr[p].result = Nobody
      BY <1>3, <1>7 DEF AScreen, w
    <3>2. scr'[p].work # Nobody => run'[w].stage = "over" /\ run'[w].screen = p
      <4>1. scr[p].result # Nobody \/ w = Nobody => scr'[p].work = Nobody
        BY <1>7
      <4>2. run'[w] = NoRun /\ w \in Runs => scr[p].result # Nobody
        <5>1. scr[p].result = Nobody => run'[w].screen = p \/ w \notin Runs
          BY <1>3, <1>4 DEF ApplySettings, Outdated, ARun
        <5> QED
          BY <1>3, <5>1, NewFacts
      <4> QED
        BY <1>5, <3>1, <4>2
    <3> QED
      BY <1>1, <1>7, <2>1, <3>1, <3>2 DEF ScreenOk, App
  <2>2. CASE q # p
    <3>1. scr'[q] = scr[q] /\ ScreenOk(q) /\ {scr[q].work, scr[q].result} \subseteq {Nobody} \cup Runs
      BY <1>3, <1>7, <2>2 DEF TInv, ScreenInv, AScreen
    <3>2. scr[q].work # Nobody => run'[scr[q].work] = run[scr[q].work]
      BY <1>4, <1>5, <2>2, <3>1 DEF ScreenOk
    <3>3. scr[q].result # Nobody => scr[q].result = scr[q].work
      BY <3>1 DEF ScreenOk
    <3> QED
      BY <1>1, <3>1, <3>2, <3>3 DEF ScreenOk, Usable, App
  <2> QED
    BY <2>1, <2>2
<1>11. RunInv'
  <2> SUFFICES ASSUME NEW x \in Runs PROVE RunOk(x)'
    BY DEF RunInv
  <2>1. CASE x = w
    <3>1. CASE run'[x] = NoRun
      BY <1>3, <3>1 DEF RunOk, NoRun
    <3>2. CASE run'[x] # NoRun
      <4>1. run'[x].stage = "over" /\ run'[x].screen = p /\ scr'[p].work = x
        BY <1>5, <1>7, <2>1, <3>2
      <4> QED
        BY <1>3, <1>7, <4>1 DEF RunOk
    <3> QED
      BY <3>1, <3>2
  <2>2. CASE x # w
    <3>1. run'[x] = run[x] /\ run[x] \in ARun /\ RunOk(x) /\ run[x].screen # p
      BY <1>3, <1>4, <1>5, <2>2 DEF TInv, RunInv
    <3>2. run[x].screen # Nobody => scr'[run[x].screen] = scr[run[x].screen]
      BY <1>7, <3>1 DEF ARun
    <3>3. run[x].stage = "over" => run[x].screen # Nobody
      BY <3>1 DEF RunOk
    <3> QED
      BY <1>1, <3>1, <3>2, <3>3 DEF RunOk, Usable
  <2> QED
    BY <2>1, <2>2
<1>12. ModalInv'
  BY <1>1, <1>2 DEF TInv, ModalInv
<1>13. FedAsPrepared' /\ DeclinedFileSurvives'
  BY <1>1 DEF TInv, FedAsPrepared, DeclinedFileSurvives
<1>14. LinkInv'
  <2>1. \A i \in 1 .. Len(stack) : stack[i].kind \in {"prepare", "settings"} => stack[i].of \in Screens
    BY DEF TInv, ShapeInv
  <2>2. \A q \in Screens : (scr[q].open => scr'[q].open) /\ (scr'[q].preparing => scr[q].preparing)
    BY <1>2, <1>7
  <2>3. \A i \in 1 .. Len(stack) :
          /\ stack[i].kind = "prepare" => scr[stack[i].of].open
          /\ stack[i].kind = "settings" => ~scr[stack[i].of].preparing
          /\ stack[i].kind # "confirm"
    BY <1>2 DEF TInv, LinkInv
  <2>4. \A i \in 1 .. Len(stack') : i \in 1 .. Len(stack)
    BY <1>8
  <2> QED
    BY <1>1, <1>2, <1>8, <2>1, <2>2, <2>3, <2>4, SMTT(30) DEF LinkInv
<1> QED
  BY <1>8, <1>9, <1>10, <1>11, <1>12, <1>13, <1>14 DEF TInv

----------------------------------------------------------------------------
(* The confirmation. *)

\* A prepare screen hands its result to the confirmation.
LEMMA OpenConfirmStep ==
  ASSUME TInv, NEW p \in Screens, OpenConfirm(p)
  PROVE  TInv'
<1> DEFINE r == scr[p].result
           a == [scr[p] EXCEPT !.handed = r]
           b == [a EXCEPT !.result = Nobody]
           s == [b EXCEPT !.work = Nobody]
<1>1. /\ OnScreen(p) /\ r # Nobody /\ ~scr[p].preparing /\ Push("confirm", p)
      /\ modal' = [NoModal EXCEPT !.open = TRUE, !.owns = TRUE, !.run = r]
      /\ UNCHANGED <<phase, inFlight, run, ams, sent, lost>>
  BY DEF OpenConfirm, Opened
<1>2. /\ App /\ ~modal.open /\ scr[p].open /\ Top.kind = "prepare" /\ Top.of = p
      /\ \A i \in 1 .. Len(stack) : stack[i].of = p => stack[i].kind \notin {"settings", "confirm"}
  BY <1>1, NoSettings DEF OnScreen, On
<1>3. /\ scr \in [Screens -> AScreen] /\ run \in [Runs -> ARun] /\ scr[p] \in AScreen
      /\ Nobody \notin Screens /\ Nobody \notin Runs
  BY NobodyAssumption DEF TInv, Typed, NobodyAssumption
<1>4. r \in Runs /\ r = scr[p].work /\ run[r].screen = p /\ run[r].stage = "over" /\ Usable(r)
  <2>1. r \in Runs
    BY <1>1, <1>3 DEF AScreen
  <2> QED
    BY <1>1, <1>3, <2>1 DEF TInv, ScreenInv, ScreenOk
<1>5. scr' = [scr EXCEPT ![p] = s]
  BY <1>3 DEF OpenConfirm
<1>6. modal' = [open |-> TRUE, run |-> r, owns |-> TRUE, job |-> "idle", confirm |-> FALSE,
                failed |-> FALSE, checked |-> Nothing]
  BY <1>1 DEF NoModal
<1>7. a \in AScreen /\ a.open /\ ~a.preparing /\ a.handed = r
  BY <1>1, <1>2, <1>3 DEF AScreen
<1> HIDE DEF a
<1>8. b \in AScreen /\ b.open /\ ~b.preparing /\ b.handed = r /\ b.result = Nobody
  BY <1>7 DEF AScreen
<1> HIDE DEF b
<1>9. s \in AScreen /\ s.open /\ ~s.preparing /\ s.handed = r /\ s.result = Nobody /\ s.work = Nobody
  BY <1>8 DEF AScreen
<1> HIDE DEF s, r
<1>10. /\ scr' \in [Screens -> AScreen] /\ scr'[p] = s
       /\ \A q \in Screens : q # p => scr'[q] = scr[q]
  BY <1>3, <1>5, <1>9
<1>11. /\ modal' \in AModal /\ modal'.open /\ modal'.owns /\ modal'.run = r /\ modal'.job = "idle"
       /\ ~modal'.confirm
  BY <1>4, <1>6 DEF AModal
<1>12. ShapeInv' /\ stack' \in Seq(Entries)
  BY <1>1, <1>2, PushShape
<1>13. /\ Len(stack') = Len(stack) + 1
       /\ \A i \in 1 .. Len(stack) : stack'[i] = stack[i]
       /\ stack'[Len(stack')].kind = "confirm" /\ stack'[Len(stack')].of = p
  BY <1>1, PushFacts DEF TInv
<1>14. Typed'
  BY <1>1, <1>10, <1>11, <1>12 DEF TInv, Typed
<1>15. ScreenInv'
  <2> SUFFICES ASSUME NEW q \in Screens PROVE ScreenOk(q)'
    BY DEF ScreenInv
  <2>1. CASE q = p
    BY <1>1, <1>2, <1>9, <1>10, <2>1 DEF ScreenOk, App
  <2>2. CASE q # p
    <3>1. scr'[q] = scr[q] /\ ScreenOk(q)
      BY <1>10, <2>2 DEF TInv, ScreenInv
    <3> QED
      BY <1>1, <3>1 DEF ScreenOk, Usable, App
  <2> QED
    BY <2>1, <2>2
<1>16. RunInv'
  <2> SUFFICES ASSUME NEW x \in Runs PROVE RunOk(x)'
    BY DEF RunInv
  <2>1. RunOk(x) /\ run[x] \in ARun /\ run'[x] = run[x]
    BY <1>1, <1>3 DEF TInv, RunInv
  <2>2. CASE x = r
    BY <1>1, <1>3, <1>4, <1>9, <1>10, <1>11, <2>1, <2>2 DEF RunOk
  <2>3. CASE x # r
    <3>1. run[x].screen # p
      BY <1>2, <1>3, <1>4, <2>1, <2>3 DEF RunOk
    <3>2. run[x].screen # Nobody => scr'[run[x].screen] = scr[run[x].screen]
      BY <1>10, <2>1, <3>1 DEF ARun
    <3>3. run[x].stage = "over" => run[x].screen # Nobody
      BY <2>1 DEF RunOk
    <3> QED
      BY <1>1, <1>2, <2>1, <3>2, <3>3 DEF RunOk, Usable
  <2> QED
    BY <2>2, <2>3
<1>17. ModalInv'
  <2>1. ~inFlight
    BY <1>2 DEF TInv, ModalInv
  <2> QED
    BY <1>1, <1>2, <1>4, <1>9, <1>10, <1>11, <2>1 DEF ModalInv, Usable, App
<1>18. FedAsPrepared' /\ DeclinedFileSurvives'
  BY <1>1 DEF TInv, FedAsPrepared, DeclinedFileSurvives
<1>19. LinkInv'
  <2>1. \A i \in 1 .. Len(stack) : stack[i].kind \in {"prepare", "settings"} => stack[i].of \in Screens
    BY DEF TInv, ShapeInv
  <2>2. \A q \in Screens : (scr[q].open => scr'[q].open) /\ (scr'[q].preparing => scr[q].preparing)
    BY <1>9, <1>10
  <2>3. \A i \in 1 .. Len(stack) :
          /\ stack[i].kind = "prepare" => scr[stack[i].of].open
          /\ stack[i].kind = "settings" => ~scr[stack[i].of].preparing
          /\ stack[i].kind # "confirm"
    BY <1>2 DEF TInv, LinkInv
  <2>4. Len(stack) \in Nat
    BY DEF TInv, Typed
  <2>5. ASSUME NEW i \in 1 .. Len(stack')
        PROVE  /\ stack'[i].kind = "prepare" => scr'[stack'[i].of].open
               /\ stack'[i].kind = "settings" => ~scr'[stack'[i].of].preparing
               /\ stack'[i].kind = "confirm" => stack'[i].of = p
    <3>1. CASE i = Len(stack')
      BY <1>13, <3>1
    <3>2. CASE i # Len(stack')
      <4>1. i \in 1 .. Len(stack)
        BY <1>13, <2>4, <3>2
      <4>2. stack'[i] = stack[i]
        BY <1>13, <4>1
      <4> QED
        BY <2>1, <2>2, <2>3, <4>1, <4>2
    <3> QED
      BY <3>1, <3>2
  <2>6. Len(stack') \in 1 .. Len(stack')
    BY <1>13, <2>4
  <2> QED
    BY <1>1, <1>4, <1>11, <1>13, <2>5, <2>6 DEF LinkInv
<1> QED
  BY <1>12, <1>14, <1>15, <1>16, <1>17, <1>18, <1>19 DEF TInv

\* The job's steps change the modal alone, while nothing covers it.
LEMMA ModalStep ==
  ASSUME TInv, UNCHANGED <<phase, stack, scr, run, ams, lost>>,
         modal.open, On("confirm"), modal' \in AModal,
         modal'.open, modal'.owns, modal'.run = modal.run,
         inFlight' \in BOOLEAN, inFlight' <=> modal'.job # "idle",
         modal'.job = "sending" /\ modal'.confirm /\ FeedSlot(run[modal.run]) # Nothing
           => Detect(modal'.checked) = run[modal.run].det,
         FedAsPrepared'
  PROVE  TInv'
<1>1. App /\ Top.kind = "confirm" /\ stack[Len(stack)].kind = "confirm"
  BY TopFacts DEF On
<1>2. Typed'
  BY DEF TInv, Typed
<1>3. ScreenInv'
  BY DEF TInv, ScreenInv, ScreenOk, Usable, App
<1>4. RunInv'
  BY DEF TInv, RunInv, RunOk, Usable
<1>5. ModalInv'
  BY <1>1 DEF TInv, ModalInv, Usable, App, FeedSlot
<1>6. ShapeInv' /\ DeclinedFileSurvives'
  BY DEF TInv, ShapeInv, App, DeclinedFileSurvives
<1>7. LinkInv'
  BY <1>1 DEF TInv, LinkInv
<1> QED
  BY <1>2, <1>3, <1>4, <1>5, <1>6, <1>7 DEF TInv

\* A job that is under way has an open modal, on top, and its run.
LEMMA BusyModal ==
  ASSUME TInv, modal.job # "idle"
  PROVE  modal.open /\ modal.owns /\ modal.run \in Runs /\ On("confirm")
<1>1. modal.open
  BY DEF TInv, ModalInv
<1>2. App /\ modal.owns /\ modal.run \in Runs
  BY <1>1 DEF TInv, ModalInv
<1> QED
  BY <1>1, <1>2, TopFacts DEF On, TInv, LinkInv

\* The user confirms.
LEMMA StartJobStep ==
  ASSUME TInv, StartJob
  PROVE  TInv'
<1>1. PICK confirm \in BOOLEAN : modal' = [modal EXCEPT !.job = "checking", !.confirm = confirm]
  BY DEF StartJob
<1>2. On("confirm") /\ UNCHANGED <<phase, stack, scr, run, ams, sent, lost>> /\ modal \in AModal
  BY DEF StartJob, TInv, Typed
<1>3. inFlight' \in BOOLEAN /\ inFlight'
  BY DEF StartJob
<1>4. modal.open /\ modal.owns
  BY <1>2, TopFacts DEF On, TInv, ModalInv
<1>5. /\ modal' \in AModal /\ modal'.open = modal.open /\ modal'.owns = modal.owns
      /\ modal'.run = modal.run /\ modal'.job = "checking"
  BY <1>1, <1>2 DEF AModal
<1>6. FedAsPrepared'
  BY <1>2 DEF TInv, FedAsPrepared
<1> QED
  BY <1>2, <1>3, <1>4, <1>5, <1>6, ModalStep

\* The second read: a print that feeds from the AMS goes on only if it agrees.
LEMMA JobCheckStep ==
  ASSUME TInv, JobCheck
  PROVE  TInv'
<1>1. PICK rep \in {ams, Nothing} :
        IF modal.confirm /\ ChangeProblem(run[modal.run], rep)
        THEN modal' = [modal EXCEPT !.job = "done", !.failed = TRUE]
        ELSE modal' = [modal EXCEPT !.job = "sending", !.checked = rep]
  BY DEF JobCheck
<1>2. /\ modal.job = "checking" /\ UNCHANGED <<phase, inFlight, stack, scr, run, ams, sent, lost>>
      /\ modal \in AModal /\ rep \in Reports \cup {Nothing}
  BY DEF JobCheck, TInv, Typed
<1>3. modal.open /\ modal.owns /\ On("confirm")
  BY <1>2, BusyModal
<1>4. inFlight' \in BOOLEAN /\ inFlight'
  BY <1>2 DEF TInv, Typed, ModalInv
<1>5. FedAsPrepared'
  BY <1>2 DEF TInv, FedAsPrepared
<1>6. CASE modal' = [modal EXCEPT !.job = "done", !.failed = TRUE]
  <2>1. /\ modal' \in AModal /\ modal'.open = modal.open /\ modal'.owns = modal.owns
        /\ modal'.run = modal.run /\ modal'.job = "done"
    BY <1>2, <1>6 DEF AModal
  <2> QED
    BY <1>2, <1>3, <1>4, <1>5, <2>1, ModalStep
<1>7. CASE ~(modal.confirm /\ ChangeProblem(run[modal.run], rep))
  <2>1. modal' = [modal EXCEPT !.job = "sending", !.checked = rep]
    BY <1>1, <1>7
  <2>2. /\ modal' \in AModal /\ modal'.open = modal.open /\ modal'.owns = modal.owns
        /\ modal'.run = modal.run /\ modal'.job = "sending" /\ modal'.confirm = modal.confirm
        /\ modal'.checked = rep
    BY <1>2, <2>1 DEF AModal
  <2>3. modal'.confirm /\ FeedSlot(run[modal.run]) # Nothing => Detect(modal'.checked) = run[modal.run].det
    BY <1>7, <2>2 DEF ChangeProblem
  <2> QED
    BY <1>2, <1>3, <1>4, <1>5, <2>2, <2>3, ModalStep
<1> QED
  BY <1>1, <1>6, <1>7

\* What is sent feeds from the tray that the second read has shown.
LEMMA JobSendStep ==
  ASSUME TInv, JobSend
  PROVE  TInv'
<1> DEFINE st == run[modal.run]
<1>1. PICK failed \in BOOLEAN :
        /\ modal' = [modal EXCEPT !.job = "done", !.failed = failed, !.checked = Nothing]
        /\ \/ UNCHANGED sent
           \/ /\ modal.confirm
              /\ sent' = [slot |-> FeedSlot(st), checked |-> modal.checked,
                          material |-> st.material, kind |-> st.kind]
  BY DEF JobSend
<1>2. /\ modal.job = "sending" /\ UNCHANGED <<phase, inFlight, stack, scr, run, ams, lost>>
      /\ modal \in AModal
  BY DEF JobSend, TInv, Typed
<1>3. modal.open /\ modal.owns /\ On("confirm")
  BY <1>2, BusyModal
<1>4. inFlight' \in BOOLEAN /\ inFlight'
  BY <1>2 DEF TInv, Typed, ModalInv
<1> DEFINE a == [modal EXCEPT !.job = "done"]
           b == [a EXCEPT !.failed = failed]
<1>5. modal' = [b EXCEPT !.checked = Nothing]
  BY <1>1, <1>2 DEF AModal
<1>6. a \in AModal /\ a.open = modal.open /\ a.owns = modal.owns /\ a.run = modal.run /\ a.job = "done"
  BY <1>2 DEF AModal
<1> HIDE DEF a
<1>7. b \in AModal /\ b.open = modal.open /\ b.owns = modal.owns /\ b.run = modal.run /\ b.job = "done"
  BY <1>6 DEF AModal
<1> HIDE DEF b
<1>8. /\ modal' \in AModal /\ modal'.open = modal.open /\ modal'.owns = modal.owns
      /\ modal'.run = modal.run /\ modal'.job = "done"
  BY <1>5, <1>7 DEF AModal
<1>9. FedAsPrepared'
  <2>1. CASE UNCHANGED sent
    BY <2>1 DEF TInv, FedAsPrepared
  <2>2. CASE /\ modal.confirm
             /\ sent' = [slot |-> FeedSlot(st), checked |-> modal.checked,
                         material |-> st.material, kind |-> st.kind]
    <3>1. /\ sent'.slot = FeedSlot(st) /\ sent'.checked = modal.checked
          /\ sent'.material = st.material
      BY <2>2
    <3>2. FeedSlot(st) # Nothing => Detect(modal.checked) = st.det
      BY <1>2, <2>2 DEF TInv, ModalInv
    <3> HIDE DEF st
    <3>3. FeedSlot(st) # Nothing =>
            /\ modal.checked # Nothing /\ modal.checked.now = FeedSlot(st)
            /\ modal.checked.tray[FeedSlot(st)] = st.material
      BY <3>2, FeedFacts
    <3> QED
      BY <3>1, <3>3 DEF FedAsPrepared
  <2> QED
    BY <1>1, <2>1, <2>2
<1> QED
  BY <1>2, <1>3, <1>4, <1>8, <1>9, ModalStep

\* The modal goes; what is left of the stack, and the monitor a print opens.
LEMMA LeaveFacts ==
  ASSUME TInv, On("confirm"), UNCHANGED phase, NEW rest, rest = Pop,
         stack' = rest \/ stack' = Append(rest, [kind |-> "monitor", of |-> Nobody])
  PROVE  /\ ShapeInv' /\ stack' \in Seq(Entries)
         /\ \A i \in 1 .. Len(stack') :
              \/ stack'[i].kind = "monitor"
              \/ i \in 1 .. Len(stack) /\ stack'[i] = stack[i] /\ stack[i].kind # "confirm"
<1> DEFINE e == [kind |-> "monitor", of |-> Nobody]
<1>1. /\ App /\ Top.kind = "confirm" /\ Len(stack) \in Nat \ {0} /\ Len(stack) > 1
      /\ Top = stack[Len(stack)]
  BY TopFacts DEF On
<1>2. /\ rest \in Seq(Entries) /\ Len(rest) = Len(stack) - 1
      /\ \A i \in 1 .. Len(stack) - 1 : rest[i] = stack[i]
  BY <1>1, PopFacts DEF TInv
<1>3. \A i \in 1 .. Len(rest) : i \in 1 .. Len(stack) /\ rest[i] = stack[i] /\ rest[i].kind # "confirm"
  <2> SUFFICES ASSUME NEW i \in 1 .. Len(rest)
               PROVE  i \in 1 .. Len(stack) /\ rest[i] = stack[i] /\ stack[i].kind # "confirm"
    BY <1>2
  <2>1. i \in 1 .. Len(stack) /\ Len(stack) \in 1 .. Len(stack) /\ Len(stack) > i /\ rest[i] = stack[i]
    BY <1>1, <1>2
  <2>2. stack[i].kind = "confirm" => stack[Len(stack)].kind = "help"
    BY <2>1 DEF TInv, ShapeInv
  <2> QED
    BY <1>1, <2>1, <2>2
<1>4. e \in Entries /\ e.kind = "monitor"
  BY DEF Entries
<1> HIDE DEF e
<1>5. /\ stack' \in Seq(Entries) /\ Len(stack') >= Len(rest)
      /\ \A i \in 1 .. Len(rest) : stack'[i] = rest[i]
      /\ \A i \in 1 .. Len(stack') : i \in 1 .. Len(rest) \/ stack'[i] = e
  <2>1. CASE stack' = rest
    BY <1>2, <2>1
  <2>2. CASE stack' = Append(rest, e)
    BY <1>2, <1>4, <2>2
  <2> QED
    BY <2>1, <2>2 DEF e
<1>6. \A i \in 1 .. Len(stack') :
        \/ stack'[i].kind = "monitor"
        \/ /\ i \in 1 .. Len(stack) /\ stack'[i] = stack[i] /\ stack[i].kind # "confirm"
           /\ i > 1 => i - 1 \in 1 .. Len(stack) /\ stack'[i - 1] = stack[i - 1]
  <2> SUFFICES ASSUME NEW i \in 1 .. Len(stack'), stack'[i].kind # "monitor"
               PROVE  /\ i \in 1 .. Len(stack) /\ stack'[i] = stack[i] /\ stack[i].kind # "confirm"
                      /\ i > 1 => i - 1 \in 1 .. Len(stack) /\ stack'[i - 1] = stack[i - 1]
    OBVIOUS
  <2>1. i \in 1 .. Len(rest)
    BY <1>4, <1>5
  <2>2. i > 1 => i - 1 \in 1 .. Len(rest)
    BY <1>1, <1>2, <2>1
  <2> QED
    BY <1>3, <1>5, <2>1, <2>2
<1>7. ShapeInv'
  <2>1. App' /\ Len(stack') > 0 /\ stack'[1].kind = "dashboard"
    <3>1. 1 \in 1 .. Len(rest)
      BY <1>1, <1>2
    <3>2. Len(stack') > 0 /\ stack'[1] = stack[1]
      BY <1>1, <1>2, <1>3, <1>5, <3>1
    <3> QED
      BY <1>1, <3>2 DEF TInv, ShapeInv, App
  <2>2. ASSUME NEW i \in 1 .. Len(stack')
        PROVE  /\ stack'[i].kind = "prepare" => stack'[i].of \in Screens
               /\ stack'[i].kind \in {"settings", "confirm"} =>
                    i > 1 /\ stack'[i - 1].kind = "prepare" /\ stack'[i - 1].of = stack'[i].of
               /\ stack'[i].kind # "confirm"
    BY <1>6 DEF TInv, ShapeInv
  <2>3. ASSUME NEW i \in 1 .. Len(stack'), NEW j \in 1 .. Len(stack'),
               stack'[i].kind = "prepare", stack'[j].kind = "prepare", stack'[i].of = stack'[j].of
        PROVE  i = j
    BY <1>6, <2>3 DEF TInv, ShapeInv
  <2> QED
    BY <2>1, <2>2, <2>3 DEF ShapeInv
<1> QED
  BY <1>5, <1>6, <1>7

\* The modal gives its run back, or the run is done with.
LEMMA LeaveStep ==
  ASSUME TInv, On("confirm"), UNCHANGED <<phase, ams>>, NEW rest, rest = Pop,
         stack' = rest \/ stack' = Append(rest, [kind |-> "monitor", of |-> Nobody]),
         inFlight' = FALSE, modal' = NoModal, FedAsPrepared', DeclinedFileSurvives',
         NEW s \in AScreen, scr' = [scr EXCEPT ![Top.of] = s],
         s.open, ~s.preparing, s.handed = Nobody,
         \/ run' = run /\ s.work = modal.run /\ s.result = modal.run
         \/ run' = [run EXCEPT ![modal.run] = NoRun] /\ s.work = Nobody /\ s.result = Nobody
  PROVE  TInv'
<1>1. PICK p : p = Top.of
  OBVIOUS
<1>2. PICK r : r = modal.run
  OBVIOUS
<1>3. /\ App /\ modal.open /\ p \in Screens /\ run[r].screen = p
  BY <1>1, <1>2, TopFacts DEF On
<1>4. /\ scr \in [Screens -> AScreen] /\ run \in [Runs -> ARun]
      /\ Nobody \notin Screens /\ Nobody \notin Runs
      /\ NoRun \in ARun /\ NoRun.screen = Nobody /\ NoRun.stage = "free"
  BY NobodyAssumption, NewFacts DEF TInv, Typed, NobodyAssumption
<1>5. r \in Runs /\ run[r].stage = "over" /\ Usable(r) /\ scr[p].open /\ scr[p].work = Nobody
  BY <1>2, <1>3 DEF TInv, ModalInv, RunInv, RunOk
<1>6. /\ scr' \in [Screens -> AScreen] /\ scr'[p] = s
      /\ \A q \in Screens : q # p => scr'[q] = scr[q]
  BY <1>1, <1>3, <1>4
<1>7. \/ run' = run /\ s.work = r /\ s.result = r
      \/ /\ run' \in [Runs -> ARun] /\ run'[r] = NoRun
         /\ \A x \in Runs : x # r => run'[x] = run[x]
         /\ s.work = Nobody /\ s.result = Nobody
  BY <1>2, <1>4, <1>5
<1>8. run' \in [Runs -> ARun] /\ \A x \in Runs : x # r => run'[x] = run[x]
  BY <1>4, <1>7
<1>9. /\ modal' \in AModal /\ ~modal'.open /\ modal'.job = "idle"
  BY DEF NoModal, AModal
<1>10. /\ ShapeInv' /\ stack' \in Seq(Entries)
       /\ \A i \in 1 .. Len(stack') :
            \/ stack'[i].kind = "monitor"
            \/ i \in 1 .. Len(stack) /\ stack'[i] = stack[i] /\ stack[i].kind # "confirm"
  BY LeaveFacts
<1>11. Typed'
  BY <1>6, <1>8, <1>9, <1>10 DEF TInv, Typed
<1>12. ScreenInv'
  <2> SUFFICES ASSUME NEW q \in Screens PROVE ScreenOk(q)'
    BY DEF ScreenInv
  <2>1. CASE q = p
    BY <1>3, <1>4, <1>5, <1>6, <1>7, <2>1 DEF ScreenOk, Usable, App
  <2>2. CASE q # p
    <3>1. scr'[q] = scr[q] /\ ScreenOk(q) /\ {scr[q].work, scr[q].result} \subseteq {Nobody} \cup Runs
      BY <1>4, <1>6, <2>2 DEF TInv, ScreenInv, AScreen
    <3>2. scr[q].work # Nobody => run'[scr[q].work] = run[scr[q].work]
      BY <1>3, <1>8, <2>2, <3>1 DEF ScreenOk
    <3>3. scr[q].result # Nobody => scr[q].result = scr[q].work
      BY <3>1 DEF ScreenOk
    <3> QED
      BY <3>1, <3>2, <3>3 DEF ScreenOk, Usable, App
  <2> QED
    BY <2>1, <2>2
<1>13. RunInv'
  <2> SUFFICES ASSUME NEW x \in Runs PROVE RunOk(x)'
    BY DEF RunInv
  <2>1. CASE x = r
    BY <1>3, <1>4, <1>5, <1>6, <1>7, <2>1 DEF RunOk
  <2>2. CASE x # r
    <3>1. run'[x] = run[x] /\ run[x] \in ARun /\ RunOk(x)
      BY <1>4, <1>8, <2>2 DEF TInv, RunInv
    <3>2. run[x].screen # p
      BY <1>2, <1>3, <1>4, <1>5, <2>2, <3>1 DEF RunOk
    <3>3. run[x].screen # Nobody => scr'[run[x].screen] = scr[run[x].screen]
      BY <1>6, <3>1, <3>2 DEF ARun
    <3>4. run[x].stage = "over" => run[x].screen # Nobody
      BY <3>1 DEF RunOk
    <3>5. modal.run # x
      BY <1>2, <2>2
    <3> QED
      BY <3>1, <3>3, <3>4, <3>5 DEF RunOk, Usable
  <2> QED
    BY <2>1, <2>2
<1>14. ModalInv'
  BY <1>9 DEF ModalInv
<1>15. LinkInv'
  <2>1. \A i \in 1 .. Len(stack) : stack[i].kind \in {"prepare", "settings"} => stack[i].of \in Screens
    BY DEF TInv, ShapeInv
  <2>2. \A q \in Screens : (scr[q].open => scr'[q].open) /\ (scr'[q].preparing => scr[q].preparing)
    BY <1>6
  <2>3. \A i \in 1 .. Len(stack) :
          /\ stack[i].kind = "prepare" => scr[stack[i].of].open
          /\ stack[i].kind = "settings" => ~scr[stack[i].of].preparing
    BY DEF TInv, LinkInv
  <2>4. ASSUME NEW i \in 1 .. Len(stack')
        PROVE  /\ stack'[i].kind = "prepare" => scr'[stack'[i].of].open
               /\ stack'[i].kind = "settings" => ~scr'[stack'[i].of].preparing
               /\ stack'[i].kind # "confirm"
    BY <1>10, <2>1, <2>2, <2>3
  <2> QED
    BY <1>9, <2>4 DEF LinkInv
<1> QED
  BY <1>10, <1>11, <1>12, <1>13, <1>14, <1>15 DEF TInv

\* The user declines.
LEMMA ConfirmBackStep ==
  ASSUME TInv, ConfirmBack
  PROVE  TInv'
<1>1. PICK p : p = Top.of
  OBVIOUS
<1>2. PICK r : r = scr[p].handed
  OBVIOUS
<1>3. PICK old : old = scr[p]
  OBVIOUS
<1> DEFINE a == [old EXCEPT !.work = r]
           b == [a EXCEPT !.result = r]
           s == [b EXCEPT !.handed = Nobody]
<1>4. /\ On("confirm") /\ modal.job = "idle" /\ modal' = NoModal /\ stack' = Pop
      /\ UNCHANGED <<phase, inFlight, run, ams, sent, lost>>
      /\ scr' = [scr EXCEPT ![p].work = r, ![p].result = r, ![p].handed = Nobody]
  BY <1>1, <1>2 DEF ConfirmBack
<1>5. /\ App /\ modal.open /\ p \in Screens /\ p = run[modal.run].screen
  BY <1>1, <1>4, TopFacts DEF On
<1>6. r = modal.run /\ r \in Runs /\ scr[p].open /\ ~scr[p].preparing /\ ~inFlight
  BY <1>2, <1>4, <1>5 DEF TInv, ModalInv, RunInv, RunOk, ScreenInv, ScreenOk
<1>7. scr \in [Screens -> AScreen] /\ old \in AScreen
  BY <1>3, <1>5 DEF TInv, Typed
<1>8. scr' = [scr EXCEPT ![p] = s]
  BY <1>3, <1>4, <1>5, <1>7
<1>9. a \in AScreen /\ a.open /\ ~a.preparing /\ a.work = r
  BY <1>3, <1>6, <1>7 DEF AScreen
<1> HIDE DEF a
<1>10. b \in AScreen /\ b.open /\ ~b.preparing /\ b.work = r /\ b.result = r
  BY <1>6, <1>9 DEF AScreen
<1> HIDE DEF b
<1>11. s \in AScreen /\ s.open /\ ~s.preparing /\ s.work = r /\ s.result = r /\ s.handed = Nobody
  BY <1>10 DEF AScreen
<1> HIDE DEF s
<1>12. FedAsPrepared' /\ DeclinedFileSurvives' /\ inFlight' = FALSE
  BY <1>4, <1>6 DEF TInv, FedAsPrepared, DeclinedFileSurvives, Typed
<1> QED
  BY <1>1, <1>4, <1>6, <1>8, <1>11, <1>12, LeaveStep

\* A screen that has handed its run to the modal, and loses it.
LEMMA HandedFacts ==
  ASSUME TInv, On("confirm")
  PROVE  LET p == Top.of
             s == [scr[p] EXCEPT !.handed = Nobody]
         IN  /\ modal.open /\ modal.run \in Runs /\ p \in Screens
             /\ s \in AScreen /\ s.open /\ ~s.preparing /\ s.handed = Nobody
             /\ s.work = Nobody /\ s.result = Nobody
<1>1. PICK p : p = Top.of
  OBVIOUS
<1>2. /\ App /\ modal.open /\ p \in Screens /\ p = run[modal.run].screen
  BY <1>1, TopFacts DEF On
<1>3. /\ modal.run \in Runs /\ scr[p].open /\ scr[p].work = Nobody
  BY <1>2 DEF TInv, ModalInv, RunInv, RunOk
<1>4. ~scr[p].preparing /\ scr[p].result = Nobody
  BY <1>2, <1>3 DEF TInv, ScreenInv, ScreenOk
<1>5. scr[p] \in AScreen
  BY <1>2 DEF TInv, Typed
<1>6. [scr[p] EXCEPT !.handed = Nobody] \in AScreen
  BY <1>5 DEF AScreen
<1> QED
  BY <1>1, <1>2, <1>3, <1>4, <1>5, <1>6 DEF AScreen

\* What the modal holds is there, so a file that is moved out is not lost.
LEMMA DeclineStep ==
  ASSUME TInv, Decline
  PROVE  TInv'
<1> DEFINE s == [scr[Top.of] EXCEPT !.handed = Nobody]
<1>1. /\ On("confirm") /\ modal.job = "idle" /\ modal' = NoModal /\ stack' = Pop
      /\ UNCHANGED <<phase, inFlight, ams, sent>>
      /\ run' = [run EXCEPT ![modal.run] = NoRun]
      /\ scr' = [scr EXCEPT ![Top.of] = s]
  BY DEF Decline
<1>2. /\ modal.open /\ s \in AScreen /\ s.open /\ ~s.preparing /\ s.handed = Nobody
      /\ s.work = Nobody /\ s.result = Nobody
  BY <1>1, HandedFacts
<1>3. ~inFlight /\ Usable(modal.run) /\ inFlight \in BOOLEAN
  BY <1>1, <1>2 DEF TInv, ModalInv, Typed
<1>4. PICK place \in Preserved(modal.run) :
        lost' = (\/ lost \/ (place = "inside" /\ ~Spared(place))
                 \/ (place = "moved" /\ ~run[modal.run].dir))
  BY DEF Decline
<1>5. place = "moved" => run[modal.run].dir
  BY <1>3 DEF Preserved, Usable
<1>6. DeclinedFileSurvives'
  BY <1>4, <1>5, Zenon DEF TInv, DeclinedFileSurvives, Spared
<1>7. FedAsPrepared' /\ inFlight' = FALSE
  BY <1>1, <1>3 DEF TInv, FedAsPrepared
<1> HIDE DEF s
<1> QED
  BY <1>1, <1>2, <1>6, <1>7, LeaveStep

\* The modal is the only one, and it is on top.
LEMMA ModalOnTop ==
  ASSUME TInv, On("confirm")
  PROVE  ModalAt = Len(stack) /\ Len(stack) \in Nat \ {0} /\ Top = stack[Len(stack)]
<1>1. /\ Len(stack) \in Nat \ {0} /\ Top = stack[Len(stack)] /\ stack[Len(stack)].kind = "confirm"
  BY TopFacts DEF On
<1>2. {i \in 1 .. Len(stack) : stack[i].kind = "confirm"} = {Len(stack)}
  <2>1. ASSUME NEW i \in 1 .. Len(stack), stack[i].kind = "confirm", i # Len(stack) PROVE FALSE
    <3>1. Len(stack) \in 1 .. Len(stack) /\ Len(stack) > i
      BY <1>1, <2>1
    <3>2. stack[Len(stack)].kind = "help"
      BY <2>1, <3>1 DEF TInv, ShapeInv
    <3> QED
      BY <1>1, <3>2
  <2> QED
    BY <1>1, <2>1
<1>3. Min({Len(stack)}) = Len(stack)
  BY <1>1 DEF Min
<1> QED
  BY <1>1, <1>2, <1>3 DEF ModalAt, SelectInSeq

\* The job reports its outcome to the confirmation.
LEMMA JobDoneStep ==
  ASSUME TInv, JobDone
  PROVE  TInv'
<1>1. /\ modal.job = "done" /\ inFlight' = FALSE /\ sent' = NoPrint
      /\ UNCHANGED <<phase, ams, lost>>
  BY DEF JobDone
<1>2. /\ modal.open /\ modal.owns /\ modal.run \in Runs /\ On("confirm")
      /\ ModalAt = Len(stack) /\ Len(stack) \in Nat \ {0} /\ Top = stack[Len(stack)]
  BY <1>1, BusyModal, ModalOnTop
<1>3. FedAsPrepared' /\ DeclinedFileSurvives'
  BY <1>1 DEF TInv, FedAsPrepared, DeclinedFileSurvives, NoPrint
<1>4. CASE modal.failed
  <2> DEFINE a == [modal EXCEPT !.job = "idle"]
             b == [a EXCEPT !.confirm = FALSE]
  <2>1. /\ modal' = [modal EXCEPT !.job = "idle", !.confirm = FALSE, !.failed = FALSE]
        /\ stack' = SubSeq(stack, 1, Len(stack)) /\ UNCHANGED <<scr, run>>
    BY <1>2, <1>4 DEF JobDone
  <2>2. stack' = stack
    BY <1>2, <2>1 DEF TInv, Typed
  <2>3. modal \in AModal /\ modal' = [b EXCEPT !.failed = FALSE]
    BY <2>1 DEF TInv, Typed, AModal
  <2>4. /\ a \in AModal /\ a.open = modal.open /\ a.owns = modal.owns /\ a.run = modal.run
        /\ a.job = "idle"
    BY <2>3 DEF AModal
  <2> HIDE DEF a
  <2>5. /\ b \in AModal /\ b.open = modal.open /\ b.owns = modal.owns /\ b.run = modal.run
        /\ b.job = "idle"
    BY <2>4 DEF AModal
  <2> HIDE DEF b
  <2>6. /\ modal' \in AModal /\ modal'.open = modal.open /\ modal'.owns = modal.owns
        /\ modal'.run = modal.run /\ modal'.job = "idle"
    BY <2>3, <2>5 DEF AModal
  <2>7. inFlight' \in BOOLEAN /\ ~inFlight'
    BY <1>1
  <2> QED
    BY <1>1, <1>2, <1>3, <2>1, <2>2, <2>6, <2>7, ModalStep
<1>5. CASE ~modal.failed
  <2> DEFINE s == [scr[Top.of] EXCEPT !.handed = Nobody]
             e == [kind |-> "monitor", of |-> Nobody]
  <2>1. PICK rest : rest = SubSeq(stack, 1, Len(stack) - 1)
    OBVIOUS
  <2>2. /\ run' = [run EXCEPT ![modal.run] = NoRun] /\ modal' = NoModal
        /\ scr' = [scr EXCEPT ![Top.of] = s]
        /\ stack' = rest \o (IF modal.confirm THEN <<e>> ELSE <<>>)
    BY <1>2, <1>5, <2>1 DEF JobDone
  <2>3. /\ s \in AScreen /\ s.open /\ ~s.preparing /\ s.handed = Nobody
        /\ s.work = Nobody /\ s.result = Nobody
    BY <1>2, HandedFacts
  <2>4. rest = Pop /\ rest \in Seq(Entries)
    BY <1>2, <2>1, PopFacts DEF TInv, Pop, Front
  <2>5. e \in Entries
    BY DEF Entries
  <2> HIDE DEF s, e
  <2>6. rest \o <<e>> = Append(rest, e) /\ rest \o <<>> = rest
    BY <2>4, <2>5
  <2>7. stack' = rest \/ stack' = Append(rest, e)
    BY <2>2, <2>6
  <2> QED
    BY <1>1, <1>2, <1>3, <2>2, <2>3, <2>4, <2>7, LeaveStep DEF e
<1> QED
  BY <1>4, <1>5

----------------------------------------------------------------------------
(* The invariant holds. *)

\* The dashboard alone.
LEMMA TInit ==
  Init => TInv
<1> SUFFICES ASSUME Init PROVE TInv
  OBVIOUS
<1> DEFINE e == [kind |-> "dashboard", of |-> Nobody]
<1>1. /\ phase = "running" /\ inFlight = FALSE /\ stack = <<e>> /\ modal = NoModal
      /\ scr = [p \in Screens |-> NoScreen] /\ run = [r \in Runs |-> NoRun]
      /\ ams \in Reports /\ sent = NoPrint /\ lost = FALSE
  BY DEF Init
<1>2. e \in Entries /\ e.kind = "dashboard"
  BY DEF Entries
<1> HIDE DEF e
<1>3. stack \in Seq(Entries) /\ Len(stack) = 1 /\ stack[1] = e
  BY <1>1, <1>2
<1>4. /\ NoScreen \in AScreen /\ ~NoScreen.open /\ ~NoScreen.preparing
      /\ NoScreen.work = Nobody /\ NoScreen.result = Nobody /\ NoScreen.handed = Nobody
  BY SeenFacts, DefaultAssumption DEF NoScreen, NewScreen, AScreen, DefaultAssumption
<1>5. NoModal \in AModal /\ ~NoModal.open /\ NoModal.job = "idle"
  BY DEF NoModal, AModal
<1>6. NoRun \in ARun /\ NoRun.screen = Nobody /\ NoRun.stage = "free"
  BY NewFacts
<1>7. Typed
  BY <1>1, <1>3, <1>4, <1>5, <1>6 DEF Typed
<1>8. ScreenInv
  BY <1>1, <1>4 DEF ScreenInv, ScreenOk
<1>9. RunInv
  BY <1>1, <1>6, NobodyAssumption DEF RunInv, RunOk, NobodyAssumption
<1>10. ModalInv
  BY <1>1, <1>5 DEF ModalInv
<1>11. ShapeInv
  BY <1>1, <1>2, <1>3 DEF ShapeInv, App
<1>12. LinkInv
  BY <1>1, <1>2, <1>3, <1>5 DEF LinkInv
<1>13. FedAsPrepared /\ DeclinedFileSurvives
  BY <1>1 DEF FedAsPrepared, DeclinedFileSurvives, NoPrint
<1> QED
  BY <1>7, <1>8, <1>9, <1>10, <1>11, <1>12, <1>13 DEF TInv

\* Every action keeps the invariant.
LEMMA TStep ==
  TInv /\ [Next]_vars => TInv'
<1> SUFFICES ASSUME TInv, [Next]_vars PROVE TInv'
  OBVIOUS
<1>1. CASE OpenMonitor \/ Help \/ CloseOverlay \/ CancelSettings \/ \E p \in Screens : OpenSettings(p)
  BY <1>1, OverlayStep
<1>2. CASE NewPrint
  BY <1>2, NewPrintStep
<1>3. CASE Quit
  BY <1>3, QuitStep
<1>4. CASE ConfirmBack
  BY <1>4, ConfirmBackStep
<1>5. CASE Decline
  BY <1>5, DeclineStep
<1>6. CASE StartJob
  BY <1>6, StartJobStep
<1>7. CASE JobCheck
  BY <1>7, JobCheckStep
<1>8. CASE JobSend
  BY <1>8, JobSendStep
<1>9. CASE JobDone
  BY <1>9, JobDoneStep
<1>10. CASE Swap \/ Ended
  BY <1>10, SwapStep
<1>11. ASSUME NEW p \in Screens,
              \/ Back(p) \/ Pick(p) \/ StartPrepare(p) \/ ApplySettings(p) \/ OpenConfirm(p) \/ Detection(p)
       PROVE  TInv'
  BY <1>11, BackStep, PickStep, StartPrepareStep, ApplySettingsStep, OpenConfirmStep, DetectionStep
<1>12. ASSUME NEW r \in Runs, PrepareBegin(r) \/ PrepareEnd(r) \/ ApplyResult(r)
       PROVE  TInv'
  BY <1>12, PrepareBeginStep, PrepareEndStep, ApplyResultStep
<1>13. CASE UNCHANGED vars
  <2>1. UNCHANGED <<phase, inFlight, stack, scr, run, modal, ams, sent, lost>>
    BY <1>13 DEF vars
  <2>2. ShapeInv' /\ LinkInv' /\ stack' \in Seq(Entries)
    BY <2>1 DEF TInv, Typed, ShapeInv, LinkInv, App
  <2> QED
    BY <2>1, <2>2, FrameStep
<1> QED
  BY <1>1, <1>2, <1>3, <1>4, <1>5, <1>6, <1>7, <1>8, <1>9, <1>10, <1>11, <1>12, <1>13
     DEF Next, User, Threads

\* What the run's property says follows from the invariant.
LEMMA TOwned ==
  TInv => WorkdirOwned
<1> SUFFICES ASSUME TInv PROVE WorkdirOwned
  OBVIOUS
<1>1. /\ scr \in [Screens -> AScreen] /\ run \in [Runs -> ARun]
      /\ Nobody \notin Screens /\ Nobody \notin Runs
  BY NobodyAssumption DEF TInv, Typed, NobodyAssumption
<1>2. DirHasOneOwner
  <2> SUFFICES ASSUME NEW r \in Runs
               PROVE  /\ Cardinality(ScreensOwning(r)) <= IF ModalOwns(r) THEN 0 ELSE 1
                      /\ run[r].dir /\ run[r].stage = "over" => ModalOwns(r) \/ ScreensOwning(r) # {}
    BY DEF DirHasOneOwner
  <2>1. PICK p : p = run[r].screen
    OBVIOUS
  <2>2. RunOk(r) /\ p \in {Nobody} \cup Screens
    BY <1>1, <2>1 DEF TInv, RunInv, ARun
  <2>3. ScreensOwning(r) \subseteq {p}
    BY <1>1, <2>1 DEF ScreensOwning, TInv, ScreenInv, ScreenOk
  <2>4. ModalOwns(r) => ScreensOwning(r) = {}
    <3>1. ModalOwns(r) => scr[p].work = Nobody
      BY <2>1 DEF ModalOwns, TInv, ModalInv
    <3> QED
      BY <1>1, <2>3, <3>1 DEF ScreensOwning
  <2>5. ScreensOwning(r) = {} \/ ScreensOwning(r) = {p}
    BY <2>3
  <2>6. Cardinality({}) = 0 /\ Cardinality({p}) = 1
    BY FS_EmptySet, FS_Singleton
  <2>7. Cardinality(ScreensOwning(r)) <= IF ModalOwns(r) THEN 0 ELSE 1
    BY <2>4, <2>5, <2>6
  <2>8. run[r].stage = "over" => ModalOwns(r) \/ ScreensOwning(r) # {}
    <3> SUFFICES ASSUME run[r].stage = "over", ~ModalOwns(r) PROVE p \in ScreensOwning(r)
      OBVIOUS
    <3>1. p \in Screens /\ scr[p].open
      BY <1>1, <2>1, <2>2 DEF RunOk
    <3>2. ~(modal.open /\ modal.run = r)
      BY DEF ModalOwns, TInv, ModalInv
    <3> QED
      BY <1>1, <2>1, <2>2, <3>1, <3>2 DEF ScreensOwning, RunOk
  <2> QED
    BY <2>7, <2>8
<1>3. PreviewIsCurrent
  BY DEF PreviewIsCurrent, TInv, ScreenInv, ScreenOk, Usable
<1>4. JobHasFile
  BY DEF JobHasFile, TInv, ModalInv, Usable
<1>5. BusyModalOnTop
  BY DEF BusyModalOnTop, Top, Last, TInv, LinkInv
<1> QED
  BY <1>2, <1>3, <1>4, <1>5 DEF WorkdirOwned, TInv

\* It implies the type invariant.
LEMMA TTyped ==
  TInv => TypeOK
<1> SUFFICES ASSUME TInv PROVE TypeOK
  OBVIOUS
<1>1. /\ stack \in Seq(Entries) /\ scr \in [Screens -> AScreen] /\ run \in [Runs -> ARun]
      /\ modal \in AModal /\ phase \in {"running", "closing", "ended"} /\ inFlight \in BOOLEAN
  BY DEF TInv, Typed
<1>2. \A i \in 1 .. Len(stack) :
        /\ stack[i].kind \in {"dashboard", "prepare", "settings", "confirm", "monitor", "help"}
        /\ stack[i].of \in {Nobody} \cup Screens
  <2> SUFFICES ASSUME NEW i \in 1 .. Len(stack)
               PROVE  /\ stack[i].kind \in {"dashboard", "prepare", "settings", "confirm", "monitor", "help"}
                      /\ stack[i].of \in {Nobody} \cup Screens
    OBVIOUS
  <2>1. stack[i] \in Entries
    BY <1>1
  <2> QED
    BY <2>1 DEF Entries
<1>3. \A p \in Screens :
        /\ scr[p].material \in Materials
        /\ scr[p].detecting \in BOOLEAN
        /\ {scr[p].work, scr[p].result, scr[p].handed} \subseteq {Nobody} \cup Runs
  BY <1>1 DEF AScreen
<1>4. \A r \in Runs :
        /\ run[r].screen \in {Nobody} \cup Screens
        /\ run[r].stage \in {"free", "queued", "working", "done", "over"}
        /\ run[r].dir \in BOOLEAN /\ run[r].kind \in {"sliced"} \cup Kinds
  BY <1>1 DEF ARun
<1> QED
  BY <1>1, <1>2, <1>3, <1>4 DEF TypeOK, AModal

\* So it always holds.
LEMMA TAlways ==
  Spec => []TInv
<1> QED
  BY TInit, TStep, PTL DEF Spec

\* The working directory of a run has one owner, a preview is of a file that is there
\* and current, a job has its file, a declined file is kept and nothing covers a busy
\* modal: for every number of screens and runs, however the handlers of the screens
\* and the threads that slice, read the AMS and print interleave.
THEOREM ScreensOwnTheirFiles ==
  Spec => []WorkdirOwned
<1> QED
  BY TAlways, TOwned, PTL

----------------------------------------------------------------------------
(* The wizard: what kind of file there is at each step, and where. *)

\* A source is given before the file is fetched, and an archive opened before slicing.
KindInv ==
  /\ step \in {"printer", "detect", "material", "prepare"} => source \in Sources
  /\ step = "extract" => file \in {"model", "archive", "ready"}
  /\ step = "slice" => file \in {"model", "ready"}
  /\ ArchiveIsOpened

\* A slice is in the directory until the wizard leaves, and then where it should be.
SliceInv ==
  /\ sliced => \/ step \in {"confirm", "check", "job"} /\ at = "inside"
               \/ step \in {"cleanup", "over"}
  /\ sliced /\ exit # "stopped" /\ step \in {"cleanup", "over"}
       => delivered \/ at \in {"moved", "kept"}

WFileInv == KindInv /\ SliceInv /\ OwnFileStays /\ NoWorkdirLeft

\* Nothing is asked, sliced or made yet.
LEMMA WFileInit ==
  WInit => WFileInv
  BY DEF WInit, WFileInv, KindInv, SliceInv, OwnFileStays, NoWorkdirLeft, ArchiveIsOpened

\* Every prompt, step and way out keeps it.
LEMMA WFileStep ==
  WFileInv /\ [WNext]_wvars => WFileInv'
<1> SUFFICES ASSUME WFileInv, [WNext]_wvars PROVE WFileInv'
  OBVIOUS
<1> USE SourcesAssumption
    DEF SourcesAssumption, WFileInv, KindInv, SliceInv, OwnFileStays, NoWorkdirLeft, ArchiveIsOpened,
        asked, work, choice, job, Leave, Go, Preserve
<1>1. CASE Preflight
  BY <1>1 DEF Preflight
<1>2. CASE AskSource
  BY <1>2 DEF AskSource
<1>3. CASE AskPrinter
  BY <1>3 DEF AskPrinter
<1>4. CASE DetectMaterial
  BY <1>4 DEF DetectMaterial
<1>5. CASE AskPresets
  BY <1>5 DEF AskPresets
<1>6. CASE Fetch
  BY <1>6 DEF Fetch
<1>7. CASE Extract
  BY <1>7 DEF Extract
<1>8. CASE Slice
  BY <1>8 DEF Slice
<1>9. CASE AskConfirm
  BY <1>9 DEF AskConfirm
<1>10. CASE CheckAms
  BY <1>10 DEF CheckAms
<1>11. CASE RunJob
  BY <1>11 DEF RunJob
<1>12. CASE Cleanup
  BY <1>12 DEF Cleanup
<1>13. CASE Stop
  BY <1>13 DEF Stop
<1>14. CASE UNCHANGED wvars
  BY <1>14 DEF wvars
<1> QED
  BY <1>1, <1>2, <1>3, <1>4, <1>5, <1>6, <1>7, <1>8, <1>9, <1>10, <1>11, <1>12, <1>13, <1>14
  DEF WNext, Ask, Work, Prepare

\* However plate go ends - declined, failed, or stopped at any prompt - the user's own
\* file is where it was, a finished slice is on the printer or kept, the directory
\* is gone, and no archive went to the printer.
THEOREM WizardKeepsWork ==
  WSpec => []WorkKept
<1>1. WFileInv => WorkKept
  BY DEF WFileInv, SliceInv, KindInv, WorkKept, SliceSurvives
<1> QED
  BY <1>1, WFileInit, WFileStep, PTL DEF WSpec

----------------------------------------------------------------------------
(* The wizard: the detection, and the second read before a print. *)

\* The detection is of the report that was shown; a job that is to feed from the AMS
\* starts after a read that agrees with it, and the material is chosen before.
WReadInv ==
  /\ det = Detect(shown)
  /\ fed = [slot |-> fed.slot, checked |-> fed.checked]
  /\ step = "job" /\ starts /\ FeedSlot(State) # Nothing => Detect(fed.checked) = det
  /\ fed.slot # Nothing => step \in {"cleanup", "over"}
  /\ WizardFedAsPrepared

\* What the wizard takes from the AMS is what it read.
LEMMA WReadStep ==
  WReadInv /\ [WNext]_wvars => WReadInv'
<1> SUFFICES ASSUME WReadInv, [WNext]_wvars PROVE WReadInv'
  OBVIOUS
<1>1. CASE CheckAms
  <2>1. PICK rep :
          /\ step = "check" /\ UNCHANGED <<starts, choice>>
          /\ \/ step' = "cleanup" /\ UNCHANGED fed
             \/ /\ ~(starts /\ ChangeProblem(State, rep)) /\ step' = "job"
                /\ fed' = [fed EXCEPT !.checked = IF FeedSlot(State) = Nothing THEN @ ELSE rep]
    BY <1>1 DEF CheckAms, Leave, Go
  <2>2. fed.slot = Nothing /\ State' = State
    BY <2>1 DEF WReadInv, State, choice
  <2>3. CASE step' = "cleanup" /\ UNCHANGED fed
    BY <2>1, <2>2, <2>3 DEF WReadInv, WizardFedAsPrepared, choice
  <2>4. CASE /\ ~(starts /\ ChangeProblem(State, rep)) /\ step' = "job"
             /\ fed' = [fed EXCEPT !.checked = IF FeedSlot(State) = Nothing THEN @ ELSE rep]
    <3>1. /\ fed' = [slot |-> fed'.slot, checked |-> fed'.checked] /\ fed'.slot = Nothing
          /\ FeedSlot(State) # Nothing => fed'.checked = rep
      BY <2>2, <2>4 DEF WReadInv
    <3>2. starts /\ FeedSlot(State) # Nothing => Detect(rep) = State.det
      BY <2>4 DEF ChangeProblem
    <3>3. State.det = det
      BY DEF State
    <3> QED
      BY <2>1, <2>2, <2>4, <3>1, <3>2, <3>3 DEF WReadInv, WizardFedAsPrepared, choice
  <2> QED
    BY <2>1, <2>3, <2>4
<1>2. CASE RunJob
  <2>1. /\ step = "job" /\ step' = "cleanup" /\ UNCHANGED choice
        /\ fed' = IF starts THEN [fed EXCEPT !.slot = FeedSlot(State)] ELSE fed
    BY <1>2 DEF RunJob, Leave
  <2>2. fed.slot = Nothing
    BY <2>1 DEF WReadInv
  <2>3. /\ fed' = [slot |-> fed'.slot, checked |-> fed'.checked] /\ fed'.checked = fed.checked
        /\ fed'.slot = IF starts THEN FeedSlot(State) ELSE Nothing
    BY <2>1, <2>2 DEF WReadInv
  <2>4. fed'.slot # Nothing => /\ fed.checked # Nothing /\ fed.checked.now = fed'.slot
                               /\ fed.checked.tray[fed'.slot] = material
    <3>1. State.det = det /\ State.material = material
      BY DEF State
    <3>2. fed'.slot # Nothing => fed'.slot = FeedSlot(State) /\ FeedSlot(State) # Nothing /\ Detect(fed.checked) = State.det
      BY <2>1, <2>3, <3>1 DEF WReadInv
    <3> QED
      BY <3>1, <3>2, FeedFacts
  <2> QED
    BY <2>1, <2>3, <2>4 DEF WReadInv, WizardFedAsPrepared, choice
<1>3. CASE DetectMaterial \/ AskPresets
  <2>1. step \in {"detect", "material"} /\ step' \in {"material", "prepare"} /\ UNCHANGED fed
    BY <1>3 DEF DetectMaterial, AskPresets, Go, job
  <2>2. det' = Detect(shown')
    BY <1>3 DEF DetectMaterial, AskPresets, WReadInv
  <2> QED
    BY <2>1, <2>2 DEF WReadInv, WizardFedAsPrepared
<1>4. CASE \/ Preflight \/ AskSource \/ AskPrinter \/ Fetch \/ Extract \/ Slice \/ AskConfirm \/ Cleanup
           \/ Stop \/ UNCHANGED wvars
  <2>1. UNCHANGED <<material, det, shown, fed>>
    BY <1>4 DEF Preflight, AskSource, AskPrinter, Fetch, Extract, Slice, AskConfirm, Cleanup, Stop,
                choice, job, wvars
  <2>2. /\ step' = "job" => step = "job" /\ UNCHANGED starts
        /\ step \in {"cleanup", "over"} => step' \in {"cleanup", "over"}
    BY <1>4 DEF Preflight, AskSource, AskPrinter, Fetch, Extract, Slice, AskConfirm, Cleanup, Stop,
                Leave, Go, wvars
  <2>3. State' = State
    BY <2>1 DEF State
  <2> QED
    BY <2>1, <2>2, <2>3 DEF WReadInv, WizardFedAsPrepared
<1> QED
  BY <1>1, <1>2, <1>3, <1>4 DEF WNext, Ask, Work, Prepare

\* Its variables keep their types.
LEMMA WTypedStep ==
  WTypeOK /\ WReadInv' /\ [WNext]_wvars => WTypeOK'
<1> SUFFICES ASSUME WTypeOK, WReadInv', [WNext]_wvars PROVE WTypeOK'
  OBVIOUS
<1>1. det'.material \in Materials \cup {Nothing}
  BY DetectFacts DEF WReadInv
<1> USE DEF WTypeOK, WKinds, Places, asked, work, choice, job, Leave, Go, Preserve, MaxAttempts
<1>2. CASE Preflight
  BY <1>1, <1>2 DEF Preflight
<1>3. CASE AskSource
  BY <1>1, <1>3 DEF AskSource
<1>4. CASE AskPrinter
  BY <1>1, <1>4 DEF AskPrinter
<1>5. CASE DetectMaterial
  BY <1>1, <1>5 DEF DetectMaterial
<1>6. CASE AskPresets
  BY <1>1, <1>6 DEF AskPresets
<1>7. CASE Fetch
  BY <1>1, <1>7, SourcesAssumption DEF Fetch, SourcesAssumption
<1>8. CASE Extract
  BY <1>1, <1>8 DEF Extract
<1>9. CASE Slice
  <2>1. sliced' \in BOOLEAN
    BY <1>9, Zenon DEF Slice
  <2> QED
    BY <1>1, <1>9, <2>1 DEF Slice
<1>10. CASE AskConfirm
  BY <1>1, <1>10 DEF AskConfirm
<1>11. CASE CheckAms
  BY <1>1, <1>11 DEF CheckAms
<1>12. CASE RunJob
  <2>1. delivered' \in BOOLEAN /\ own' \in BOOLEAN
    BY <1>12, Zenon DEF RunJob
  <2>2. at' \in Places /\ exit' \in {"done", "failed"} /\ step' = "cleanup"
    BY <1>12 DEF RunJob
  <2>3. UNCHANGED <<configured, dir, sliced, starts, attempt, source, file, material>>
    BY <1>12 DEF RunJob
  <2> QED
    BY <1>1, <2>1, <2>2, <2>3
<1>13. CASE Cleanup
  <2>1. dir' \in BOOLEAN
    BY <1>13, Zenon DEF Cleanup
  <2> QED
    BY <1>1, <1>13, <2>1 DEF Cleanup
<1>14. CASE Stop
  BY <1>1, <1>14 DEF Stop
<1>15. CASE UNCHANGED wvars
  BY <1>1, <1>15 DEF wvars
<1> QED
  BY <1>2, <1>3, <1>4, <1>5, <1>6, <1>7, <1>8, <1>9, <1>10, <1>11, <1>12, <1>13, <1>14, <1>15
  DEF WNext, Ask, Work, Prepare

WInv == WFileInv /\ WReadInv /\ WTypeOK

\* The wizard before its first question.
LEMMA WInitInv ==
  WInit => WInv
<1> SUFFICES ASSUME WInit PROVE WInv
  OBVIOUS
<1>1. WReadInv
  BY SeenFacts DEF WInit, WReadInv, WizardFedAsPrepared, NotFed, State, FeedSlot
<1>2. /\ own \in BOOLEAN /\ dir \in BOOLEAN /\ sliced \in BOOLEAN /\ starts \in BOOLEAN
      /\ delivered \in BOOLEAN
  BY Zenon DEF WInit
<1>3. NoDetection.material = Nothing /\ 0 \in 0 .. MaxAttempts
  BY DEF NoDetection, MaxAttempts
<1>4. WTypeOK
  BY <1>2, <1>3, DefaultAssumption DEF WInit, WTypeOK, DefaultAssumption, WKinds, Places
<1> QED
  BY <1>1, <1>4, WFileInit DEF WInv

\* Every action of the wizard keeps the invariant.
LEMMA WStep ==
  WInv /\ [WNext]_wvars => WInv'
<1> QED
  BY WFileStep, WReadStep, WTypedStep DEF WInv

\* It implies the two promises on the feeding.
LEMMA WFedRight ==
  WInv => WizardFedAsPrepared /\ DetectionIsReal
<1> QED
  BY DetectFacts DEF WInv, WReadInv, DetectionIsReal

----------------------------------------------------------------------------
(* Either front end, on its own or in the instance that TLC checks. *)

\* Both front ends keep their invariants side by side.
LEMMA FrontsAlways ==
  MCSpec => [](TInv /\ WInv)
<1>1. MCInit => TInv /\ WInv
  BY TInit, WInitInv DEF MCInit
<1>2. [MCNext]_all => [Next]_vars /\ [WNext]_wvars
  BY DEF MCNext, all
<1> QED
  BY <1>1, <1>2, TStep, WStep, PTL DEF MCSpec

\* Whichever front end starts a print that feeds from the AMS, a second read has shown
\* that tray active with the material the file was prepared for: for every set of
\* reports and materials, wherever the swap of a spool falls.
THEOREM FrontsFeedRight ==
  MCSpec => []FedRight
<1>1. TInv /\ WInv => FedRight
  BY WFedRight DEF FedRight, TInv
<1> QED
  BY <1>1, FrontsAlways, PTL

\* The variables of both front ends keep their types.
THEOREM FrontsTypeCorrect ==
  MCSpec => []InteractiveTypes
<1>1. TInv /\ WInv => InteractiveTypes
  BY TTyped DEF InteractiveTypes, WInv
<1> QED
  BY <1>1, FrontsAlways, PTL
=============================================================================
