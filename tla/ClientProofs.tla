---------------------------- MODULE ClientProofs ----------------------------
(***************************************************************************)
(* Theorems about the bench of MCClient: the screens of the Vita, the      *)
(* account with the settings file that keeps it, the sound from the        *)
(* packets to the device, the pictures, the losses of the video and what   *)
(* is done about them, the touches, and the table of consoles.             *)
(* Each component has an inductive invariant, of which the property        *)
(* follows. A component that does not run stays as it is, so what its      *)
(* module promises holds on the bench.                                     *)
(***************************************************************************)
EXTENDS MCClient, Integers, Sequences, FiniteSetTheorems, SequenceTheorems, TLAPS

Sub == INSTANCE SubsequenceProofs
AudioNum == INSTANCE SeqNumProofs WITH Modulus <- AudioModulus
VideoNum == INSTANCE SeqNumProofs WITH Modulus <- VideoModulus

\* A step of the bench is one of a component, or leaves it as it is.
LEMMA BenchStep ==
    ASSUME [Next]_vars
    PROVE  /\ V!Next \/ UNCHANGED videoVars
           /\ A!Next \/ UNCHANGED audioVars
           /\ O!Next \/ UNCHANGED soundVars
           /\ D!Next \/ UNCHANGED pictureVars
           /\ R!Next \/ UNCHANGED recoveryVars
           /\ I!Next \/ UNCHANGED padVars
           /\ U!Next \/ UNCHANGED screenVars
           /\ H!Next \/ UNCHANGED hostVars
           /\ P!Next \/ UNCHANGED accountVars
           /\ C!Next \/ UNCHANGED configVars
           /\ bench' = bench
  BY DEF Next, vars, Video, Audio, Sound, Picture, Recovery, Pads, Screens, Hosts, Account,
     Config

-----------------------------------------------------------------------------
(* The screens *)

Zones == {"content", "nav", "modal"}

\* Each modal of a stack has an owner of its own; while threads are between the pop of the
\* overlay and the clearing of its flag, that flag owns no modal.
Fits(stack, own, threads) ==
    /\ stack \in Seq(Zones) /\ Len(stack) >= 1
    /\ own \subseteq U!Owners
    /\ Len(stack) <= Cardinality(own) + 1
    /\ threads # {} /\ "connection" \in own => Len(stack) <= Cardinality(own)

\* The owners are few.
LEMMA OwnersFinite ==
    ASSUME NEW own \in SUBSET U!Owners
    PROVE  IsFiniteSet(own) /\ Cardinality(own) \in Nat
  <1>1. IsFiniteSet({"connection", "error", "debug", "popup", "register"})
    <2>1. IsFiniteSet({}) BY FS_EmptySet
    <2>2. IsFiniteSet({"connection"}) BY <2>1, FS_AddElement
    <2>3. IsFiniteSet({"connection"} \cup {"error"}) BY <2>2, FS_AddElement
    <2>4. IsFiniteSet({"connection", "error"} \cup {"debug"}) BY <2>3, FS_AddElement
    <2>5. IsFiniteSet({"connection", "error", "debug"} \cup {"popup"}) BY <2>4, FS_AddElement
    <2>6. IsFiniteSet({"connection", "error", "debug", "popup"} \cup {"register"})
      BY <2>5, FS_AddElement
    <2> QED BY <2>6
  <1>2. U!Owners = {"connection", "error", "debug", "popup", "register"}
    BY DEF U!Owners, U!Overlays
  <1> QED
    BY <1>1, <1>2, FS_Subset, FS_CardinalityType

\* A modal that is pushed for a new owner is accounted for ...
LEMMA PushFits ==
    ASSUME NEW stack, NEW own, NEW threads, Fits(stack, own, threads),
           NEW o \in U!Owners, o \notin own, o # "connection" \/ threads = {}
    PROVE  Fits(U!PushModal(stack), own \cup {o}, threads)
  <1>1. Cardinality(own \cup {o}) = Cardinality(own) + 1 /\ Cardinality(own) \in Nat
    BY OwnersFinite, FS_AddElement DEF Fits
  <1>2. U!PushModal(stack) = stack \/ U!PushModal(stack) = Append(stack, "modal")
    BY DEF U!PushModal
  <1>3. /\ Append(stack, "modal") \in Seq(Zones)
        /\ Len(Append(stack, "modal")) = Len(stack) + 1
        /\ Len(stack) \in Nat
    BY DEF Fits, Zones
  <1> QED
    BY <1>1, <1>2, <1>3 DEF Fits

\* What popping the last zone leaves.
LEMMA PopLeaves ==
    ASSUME NEW stack \in Seq(Zones), Len(stack) >= 1
    PROVE  /\ U!PopModal(stack) \in Seq(Zones) /\ Len(U!PopModal(stack)) >= 1
           /\ \/ Len(U!PopModal(stack)) = Len(stack) - 1
              \/ Len(stack) = 1 /\ U!PopModal(stack) = stack
  <1>1. CASE Len(stack) = 1
    BY <1>1 DEF U!PopModal
  <1>2. CASE Len(stack) # 1
    <2>1. /\ Len(stack) \in Nat /\ Len(stack) - 1 \in Int /\ 1 \in Int
          /\ 1 <= Len(stack) - 1 /\ Len(stack) - 1 - 1 + 1 = Len(stack) - 1
      <3>1. Len(stack) \in Nat
        OBVIOUS
      <3>2. \A n \in Nat : n >= 1 /\ n # 1 =>
                n - 1 \in Int /\ 1 \in Int /\ 1 <= n - 1 /\ n - 1 - 1 + 1 = n - 1
        OBVIOUS
      <3> QED
        BY <1>2, <3>1, <3>2
    <2>3. \A i \in 1 .. Len(stack) - 1 : stack[i] \in Zones
      BY <2>1
    <2>2. /\ SubSeq(stack, 1, Len(stack) - 1) \in Seq(Zones)
          /\ Len(SubSeq(stack, 1, Len(stack) - 1)) = Len(stack) - 1
      BY <2>1, <2>3, SubSeqProperties
    <2> QED
      BY <1>2, <2>1, <2>2 DEF U!PopModal
  <1> QED
    BY <1>1, <1>2

\* ... and one that is popped with its owner too.
LEMMA PopFits ==
    ASSUME NEW stack, NEW own, NEW threads, Fits(stack, own, threads),
           NEW o \in own, o # "connection" \/ threads = {}
    PROVE  Fits(U!PopModal(stack), own \ {o}, threads)
  <1>1. Cardinality(own \ {o}) = Cardinality(own) - 1 /\ Cardinality(own) \in Nat
        /\ Cardinality(own \ {o}) \in Nat
    BY OwnersFinite, FS_RemoveElement, own \ {o} \subseteq U!Owners DEF Fits
  <1>2. "connection" \in own \ {o} => Cardinality(own \ {o}) >= 1
    <2>1. Cardinality(own \ {o}) = 0 => own \ {o} = {}
      BY OwnersFinite, FS_EmptySet, own \ {o} \subseteq U!Owners DEF Fits
    <2> QED
      BY <1>1, <2>1
  <1>3. stack \in Seq(Zones) /\ Len(stack) >= 1 /\ own \ {o} \subseteq U!Owners
        /\ Len(stack) \in Nat
    BY DEF Fits
  <1> DEFINE popped == U!PopModal(stack)
  <1>4. /\ popped \in Seq(Zones) /\ Len(popped) >= 1 /\ Len(popped) \in Nat
        /\ Len(popped) = Len(stack) - 1 \/ Len(popped) = 1
    BY <1>3, PopLeaves
  <1> HIDE DEF popped
  <1>5. Cardinality(own) >= 1
    BY <1>1
  <1> DEFINE all == Cardinality(own)
             others == Cardinality(own \ {o})
             left == Len(popped)
             had == Len(stack)
  <1>8. /\ all \in Nat /\ others \in Nat /\ left \in Nat /\ had \in Nat
        /\ others = all - 1 /\ left >= 1 /\ all >= 1
        /\ left = had - 1 \/ left = 1
    BY <1>1, <1>3, <1>4, <1>5
  <1>9. had <= all + 1 /\ (threads # {} /\ "connection" \in own => had <= all)
    BY DEF Fits
  <1> HIDE DEF all, others, left, had
  <1>6. left <= others + 1
    BY <1>8, <1>9
  <1>7. ASSUME threads # {}, "connection" \in own \ {o}
        PROVE  left <= others
    <2>1. had <= all /\ others >= 1
      BY <1>2, <1>7, <1>9 DEF others
    <2> QED
      BY <1>8, <2>1
  <1> QED
    BY <1>3, <1>4, <1>6, <1>7 DEF Fits, popped, left, others

\* A modal that is popped once too often leaves the others accounted for.
LEMMA PopMoreFits ==
    ASSUME NEW stack, NEW own, NEW threads, Fits(stack, own, threads)
    PROVE  Fits(U!PopModal(stack), own, threads)
  <1>1. Cardinality(own) \in Nat /\ Len(stack) \in Nat
    BY OwnersFinite DEF Fits
  <1> QED
    BY <1>1, PopLeaves DEF Fits

\* The end of a frame keeps the account.
LEMMA TurnFits ==
    ASSUME NEW next, NEW stack, NEW own, Fits(stack, own, popping),
           U!Turn(next, stack, own)
    PROVE  /\ screen' = next
           /\ Fits(focus', owners', popping)
           /\ \A o \in U!Owners \ {"register"} : o \in owners' <=> o \in own
  <1> DEFINE leaves == U!Shown = "register" /\ next # U!Shown /\ "register" \in own
             left == IF leaves THEN [f |-> U!PopModal(stack), o |-> own \ {"register"}]
                     ELSE [f |-> stack, o |-> own]
             enters == next = "register" /\ next # U!Shown /\ "register" \notin left.o
  <1>1. /\ screen' = next
        /\ focus' = IF enters THEN U!PushModal(left.f) ELSE left.f
        /\ owners' = IF enters THEN left.o \cup {"register"} ELSE left.o
    BY DEF U!Turn
  <1>2. /\ Fits(left.f, left.o, popping)
        /\ \A o \in U!Owners \ {"register"} : o \in left.o <=> o \in own
    <2>1. CASE leaves
      <3>1. left.f = U!PopModal(stack) /\ left.o = own \ {"register"}
        BY <2>1
      <3> QED
        BY <2>1, <3>1, PopFits
    <2>2. CASE ~leaves
      BY <2>2
    <2> QED
      BY <2>1, <2>2
  <1> HIDE DEF left
  <1>3. "register" \in U!Owners
    BY DEF U!Owners
  <1>4. enters => Fits(U!PushModal(left.f), left.o \cup {"register"}, popping)
    BY <1>2, <1>3, PushFits
  <1> HIDE DEF enters
  <1>5. CASE enters
    BY <1>1, <1>2, <1>4, <1>5
  <1>6. CASE ~enters
    BY <1>1, <1>2, <1>6
  <1> QED
    BY <1>5, <1>6

\* The modal of the overlay is popped before its flag is cleared.
LEMMA OverlayFits ==
    ASSUME NEW stack, NEW own, NEW threads, NEW t, Fits(stack, own, threads),
           "connection" \in own
    PROVE  Fits(U!PopModal(stack), own, threads \cup {t})
  <1> DEFINE all == Cardinality(own)
             left == Len(U!PopModal(stack))
             had == Len(stack)
  <1>1. own \subseteq U!Owners /\ all \in Nat /\ all # 0
    BY OwnersFinite, FS_EmptySet DEF Fits
  <1>2. /\ stack \in Seq(Zones) /\ had >= 1 /\ had \in Nat
    BY DEF Fits
  <1>3. /\ U!PopModal(stack) \in Seq(Zones) /\ left >= 1 /\ left \in Nat
        /\ left = had - 1 \/ left = 1
    BY <1>2, PopLeaves
  <1>4. had <= all + 1
    BY DEF Fits
  <1> HIDE DEF all, left, had
  <1>5. left <= all /\ left <= all + 1
    BY <1>1, <1>2, <1>3, <1>4
  <1> QED
    BY <1>1, <1>3, <1>5 DEF Fits, all, left

\* ... with its flag, by the worker's failure ...
LEMMA OverlayPopped ==
    ASSUME NEW stack, NEW own, NEW threads, Fits(stack, own, threads), "connection" \in own
    PROVE  Fits(U!PopModal(stack), own \ {"connection"}, threads)
  <1>1. Fits(stack, own, {})
    BY DEF Fits
  <1>2. Fits(U!PopModal(stack), own \ {"connection"}, {})
    BY <1>1, PopFits
  <1> QED
    BY <1>2 DEF Fits

\* ... or some time before it.
LEMMA FlagClearedFits ==
    ASSUME NEW stack, NEW own, NEW threads, Fits(stack, own, threads), threads # {},
           NEW left
    PROVE  Fits(stack, own \ {"connection"}, left)
  <1>1. CASE "connection" \notin own
    <2>1. own \ {"connection"} = own
      BY <1>1
    <2> QED
      BY <1>1, <2>1 DEF Fits
  <1>2. CASE "connection" \in own
    <2> DEFINE all == Cardinality(own)
               others == Cardinality(own \ {"connection"})
               had == Len(stack)
    <2>1. all \in Nat /\ others = all - 1
      BY <1>2, OwnersFinite, FS_RemoveElement DEF Fits
    <2>2. had <= all /\ had \in Nat
      BY <1>2 DEF Fits
    <2> HIDE DEF all, others, had
    <2>3. had <= others + 1
      BY <2>1, <2>2
    <2> QED
      BY <2>3 DEF Fits, others, had
  <1> QED
    BY <1>1, <1>2

\* What an activation of a card does to the stack, from a stack that fits and no thread
\* between the pop of the overlay and the clearing of its flag.
LEMMA ActivateFits ==
    ASSUME NEW stack, NEW own, NEW flag, NEW way, Fits(stack, own, popping), popping = {},
           "connection" \in own <=> "connection" \in owners, "popup" \notin own,
           U!Activate(stack, own, flag, way)
    PROVE  Fits(focus', owners', popping) /\ "popup" \notin owners'
  <1>0. "connection" \in U!Owners /\ "popup" \in U!Owners
    BY DEF U!Owners, U!Overlays
  <1>1. \/ U!Turn("main", stack, own)
        \/ U!Turn("register", stack, own)
        \/ U!Turn("waking", U!Overlaid(stack), own \cup {"connection"})
        \/ U!Turn("main", IF "connection" \in owners THEN U!PopModal(stack) ELSE stack,
                  own \ {"connection"})
    BY DEF U!Activate
  <1>2. Fits(U!Overlaid(stack), own \cup {"connection"}, popping)
    <2>1. CASE "connection" \in owners
      <3>1. own \cup {"connection"} = own
        BY <2>1
      <3> QED
        BY <2>1, <3>1 DEF U!Overlaid
    <2>2. CASE "connection" \notin owners
      BY <1>0, <2>2, PushFits DEF U!Overlaid
    <2> QED
      BY <2>1, <2>2
  <1>3. Fits(IF "connection" \in owners THEN U!PopModal(stack) ELSE stack,
             own \ {"connection"}, popping)
    <2>1. CASE "connection" \in owners
      BY <2>1, PopFits
    <2>2. CASE "connection" \notin owners
      <3>1. own \ {"connection"} = own
        BY <2>2
      <3> QED
        BY <2>2, <3>1
    <2> QED
      BY <2>1, <2>2
  <1>4. \E next, st, ow : U!Turn(next, st, ow) /\ Fits(st, ow, popping) /\ "popup" \notin ow
    BY <1>1, <1>2, <1>3
  <1> QED
    BY <1>0, <1>4, TurnFits

\* The modals have their owners, and the popup is one only while it is shown.
FocusKept == Fits(focus, owners, popping) /\ ("popup" \in owners => "popup" \in up)

\* A thread that takes the overlay down leaves its flag without a modal.
LEMMA OverlayDownFits ==
    ASSUME FocusKept, NEW t, U!OverlayDown(t), owners' = owners
    PROVE  FocusKept'
  <1>1. /\ focus' = IF "connection" \in owners THEN U!PopModal(focus) ELSE focus
        /\ up' = up \ {"connection"} /\ popping' = popping \cup {t}
    BY DEF U!OverlayDown
  <1>2. Fits(focus', owners, popping')
    <2>1. CASE "connection" \in owners
      BY <1>1, <2>1, OverlayFits DEF FocusKept
    <2>2. CASE "connection" \notin owners
      BY <1>1, <2>2 DEF FocusKept, Fits
    <2> QED
      BY <2>1, <2>2
  <1> QED
    BY <1>1, <1>2 DEF FocusKept

\* No step of the screens leaves a modal without an owner.
LEMMA FocusStep ==
    ASSUME Rapid = FALSE, FocusKept, U!Next
    PROVE  FocusKept'
  <1>0. /\ {"connection", "error", "debug", "popup", "register"} \subseteq U!Owners
        /\ Fits(focus, owners, popping) /\ focus \in Seq(Zones) /\ Len(focus) >= 1
    BY DEF U!Owners, U!Overlays, FocusKept, Fits
  <1>1. ASSUME NEW next, NEW stack, NEW own, U!Turn(next, stack, own),
               Fits(stack, own, popping), popping' = popping,
               "popup" \in own => "popup" \in up'
        PROVE  FocusKept'
    <2>1. /\ Fits(focus', owners', popping)
          /\ "popup" \in owners' => "popup" \in own
      BY <1>0, <1>1, TurnFits
    <2> QED
      BY <1>1, <2>1 DEF FocusKept
  <1>2. CASE U!DismissError
    <2>1. /\ up' = up \ {"error"} /\ owners' = owners \ {"error"} /\ popping' = popping
          /\ focus' = IF "error" \in owners THEN U!PopModal(focus) ELSE focus
      BY <1>2 DEF U!DismissError, U!PopOwned
    <2>2. CASE "error" \in owners
      BY <1>0, <2>1, <2>2, PopFits DEF FocusKept
    <2>3. CASE "error" \notin owners
      <3>1. owners \ {"error"} = owners
        BY <2>3
      <3> QED
        BY <1>0, <2>1, <2>3, <3>1 DEF FocusKept
    <2> QED
      BY <2>2, <2>3
  <1>3. CASE U!DebugMenu
    <2>0. popping' = popping /\ ("popup" \in owners' => "popup" \in up')
      BY <1>3 DEF U!DebugMenu, U!PushOnce, U!PopOwned, FocusKept
    <2>1. CASE U!PushOnce("debug")
      <3>1. CASE "debug" \in owners
        <4>1. owners \cup {"debug"} = owners
          BY <3>1
        <4> QED
          BY <1>0, <2>0, <2>1, <3>1, <4>1 DEF U!PushOnce, FocusKept
      <3>2. CASE "debug" \notin owners
        BY <1>0, <2>0, <2>1, <3>2, PushFits DEF U!PushOnce, FocusKept
      <3> QED
        BY <3>1, <3>2
    <2>2. CASE U!PopOwned("debug")
      <3>1. CASE "debug" \in owners
        BY <1>0, <2>0, <2>2, <3>1, PopFits DEF U!PopOwned, FocusKept
      <3>2. CASE "debug" \notin owners
        <4>1. owners \ {"debug"} = owners
          BY <3>2
        <4> QED
          BY <1>0, <2>0, <2>2, <3>2, <4>1 DEF U!PopOwned, FocusKept
      <3> QED
        BY <3>1, <3>2
    <2>3. CASE /\ owners' = (owners \ {"debug"}) \cup {"error"}
               /\ LET shown == IF "error" \in owners THEN focus ELSE U!PushModal(focus)
                  IN  focus' = IF "debug" \in owners THEN U!PopModal(shown) ELSE shown
      <3> DEFINE shown == IF "error" \in owners THEN focus ELSE U!PushModal(focus)
      <3>1. Fits(shown, owners \cup {"error"}, popping)
        <4>1. CASE "error" \in owners
          <5>1. owners \cup {"error"} = owners
            BY <4>1
          <5> QED
            BY <1>0, <4>1, <5>1
        <4>2. CASE "error" \notin owners
          BY <1>0, <4>2, PushFits
        <4> QED
          BY <4>1, <4>2
      <3>2. (owners \ {"debug"}) \cup {"error"} = (owners \cup {"error"}) \ {"debug"}
        OBVIOUS
      <3>3. focus' = IF "debug" \in owners THEN U!PopModal(shown) ELSE shown
        BY <2>3
      <3> HIDE DEF shown
      <3>4. CASE "debug" \in owners
        BY <2>0, <2>3, <3>1, <3>2, <3>3, <3>4, PopFits DEF FocusKept
      <3>5. CASE "debug" \notin owners
        <4>1. (owners \cup {"error"}) \ {"debug"} = owners \cup {"error"}
          BY <3>5
        <4> QED
          BY <2>0, <2>3, <3>1, <3>2, <3>3, <3>5, <4>1 DEF FocusKept
      <3> QED
        BY <3>4, <3>5
    <2> QED
      BY <1>3, <2>1, <2>2, <2>3 DEF U!DebugMenu
  <1>4. \A zone \in Zones : Fits(U!SetZone(focus, zone), owners, popping)
    <2> SUFFICES ASSUME NEW zone \in Zones PROVE Fits(U!SetZone(focus, zone), owners, popping)
      OBVIOUS
    <2>1. U!SetZone(focus, zone) \in Seq(Zones) /\ Len(U!SetZone(focus, zone)) = Len(focus)
      BY <1>0 DEF U!SetZone
    <2> QED
      BY <1>0, <2>1 DEF Fits
  <1>5. "content" \in Zones /\ "nav" \in Zones
    BY DEF Zones
  <1>6. CASE U!ZoneCrossing
    BY <1>0, <1>1, <1>4, <1>5, <1>6 DEF U!ZoneCrossing, FocusKept
  <1>7. CASE U!Navigate
    <2>1. /\ \E next : \/ U!Turn(next, U!SetZone(focus, "nav"), owners)
                       \/ U!Turn(next, focus, owners)
                       \/ U!Turn(next, U!SetZone(focus, "content"), owners)
          /\ popping' = popping /\ up' = up
      BY <1>7 DEF U!Navigate
    <2> QED
      BY <1>0, <1>1, <1>4, <1>5, <2>1 DEF FocusKept
  <1>8. ASSUME U!MayConnect PROVE popping = {}
    BY <1>8, Rapid = FALSE DEF U!MayConnect
  <1>9. CASE U!PressCard \/ U!TapCard
    <2>1. /\ U!MayConnect /\ "popup" \notin up /\ popping' = popping
          /\ U!Activate(focus, owners, forced, "lan")
      BY <1>9 DEF U!PressCard, U!TapCard
    <2>2. Fits(focus', owners', popping) /\ "popup" \notin owners'
      BY <1>0, <1>8, <2>1, ActivateFits DEF FocusKept
    <2> QED
      BY <2>1, <2>2 DEF FocusKept
  <1>10. CASE U!OpenPopup
    <2>1. /\ "popup" \notin up /\ up' = up \cup {"popup"} /\ popping' = popping
          /\ U!Turn("main", U!PushModal(focus), owners \cup {"popup"})
      BY <1>10 DEF U!OpenPopup
    <2>2. Fits(U!PushModal(focus), owners \cup {"popup"}, popping)
      BY <1>0, <2>1, PushFits DEF FocusKept
    <2> QED
      BY <1>1, <2>1, <2>2
  <1>11. CASE U!AnswerPopup
    <2> DEFINE closed == owners \ {"popup"}
    <2>1. /\ popping = {} /\ popping' = popping
          /\ \/ U!Turn("main", U!PopModal(focus), closed)
             \/ \E way \in U!Ways :
                    U!Activate(U!PopModal(focus), closed, forced \/ way = "psn", way)
      BY <1>8, <1>11 DEF U!AnswerPopup
    <2>2. Fits(U!PopModal(focus), closed, popping)
      <3>1. CASE "popup" \in owners
        BY <1>0, <3>1, PopFits
      <3>2. CASE "popup" \notin owners
        <4>1. closed = owners
          BY <3>2
        <4> QED
          BY <1>0, <4>1, PopMoreFits
      <3> QED
        BY <3>1, <3>2
    <2>3. CASE U!Turn("main", U!PopModal(focus), closed)
      BY <1>1, <2>1, <2>2, <2>3
    <2>4. CASE \E way \in U!Ways :
                   U!Activate(U!PopModal(focus), closed, forced \/ way = "psn", way)
      <3>1. "popup" \notin closed /\ ("connection" \in closed <=> "connection" \in owners)
        OBVIOUS
      <3> HIDE DEF closed
      <3>2. Fits(focus', owners', popping) /\ "popup" \notin owners'
        BY <2>1, <2>2, <2>4, <3>1, ActivateFits
      <3> QED
        BY <2>1, <3>2 DEF FocusKept
    <2> QED
      BY <2>1, <2>3, <2>4
  <1>12. CASE U!Repair \/ U!LeaveRegistration \/ U!SubmitPin
    <2>1. /\ \E next : U!Turn(next, focus, owners)
          /\ popping' = popping /\ up' = up
      BY <1>12 DEF U!Repair, U!LeaveRegistration, U!SubmitPin
    <2> QED
      BY <1>0, <1>1, <2>1 DEF FocusKept
  <1>13. CASE U!Waking
    <2>1. /\ popping' = popping
          /\ \/ \E next : U!Turn(next, focus, owners) /\ up' = up
             \/ /\ worker = "none" /\ up' = up \ {"connection"}
                /\ U!Turn("main",
                          IF "connection" \in owners THEN U!PopModal(focus) ELSE focus,
                          owners \ {"connection"})
      BY <1>13 DEF U!Waking, U!Stay
    <2>2. CASE \E next : U!Turn(next, focus, owners) /\ up' = up
      BY <1>0, <1>1, <2>1, <2>2 DEF FocusKept
    <2>3. CASE /\ up' = up \ {"connection"}
               /\ U!Turn("main",
                         IF "connection" \in owners THEN U!PopModal(focus) ELSE focus,
                         owners \ {"connection"})
      <3>1. Fits(IF "connection" \in owners THEN U!PopModal(focus) ELSE focus,
                 owners \ {"connection"}, popping)
        <4>1. CASE "connection" \in owners
          BY <1>0, <4>1, OverlayPopped
        <4>2. CASE "connection" \notin owners
          <5>1. owners \ {"connection"} = owners
            BY <4>2
          <5> QED
            BY <1>0, <4>2, <5>1
        <4> QED
          BY <4>1, <4>2
      <3> QED
        BY <1>1, <2>1, <2>3, <3>1 DEF FocusKept
    <2> QED
      BY <2>1, <2>2, <2>3
  <1>14. CASE U!Cancel
    BY <1>0, <1>1, <1>14 DEF U!Cancel, FocusKept
  <1>15. CASE U!CancelWaited
    <2>1. /\ popping' = popping \cup {"ui"} /\ owners' = owners /\ up' = up
          /\ focus' = IF "connection" \in owners THEN U!PopModal(focus) ELSE focus
      BY <1>15 DEF U!CancelWaited
    <2>2. Fits(focus', owners, popping')
      <3>1. CASE "connection" \in owners
        BY <1>0, <2>1, <3>1, OverlayFits
      <3>2. CASE "connection" \notin owners
        BY <1>0, <2>1, <3>2 DEF Fits
      <3> QED
        BY <3>1, <3>2
    <2> QED
      BY <2>1, <2>2 DEF FocusKept
  <1>16. CASE U!FlagCleared
    <2>1. PICK t \in popping : /\ popping' = popping \ {t}
                               /\ owners' = owners \ {"connection"}
                               /\ focus' = focus /\ up' = up
      BY <1>16 DEF U!FlagCleared
    <2>2. Fits(focus, owners \ {"connection"}, popping')
      BY <1>0, <2>1, FlagClearedFits
    <2> QED
      BY <2>1, <2>2 DEF FocusKept
  <1>17. CASE U!WorkerEnds \/ U!FirstPicture \/ U!Quit
    <2>1. /\ owners' = owners
          /\ \/ up' = up /\ popping' = popping /\ focus' = focus
             \/ \E t : U!OverlayDown(t)
      BY <1>17 DEF U!WorkerEnds, U!FirstPicture, U!Quit
    <2> QED
      BY <2>1, OverlayDownFits DEF FocusKept
  <1>18. CASE U!WorkerEnters \/ U!PinRequested \/ U!Restart \/ U!ErrorHint
              \/ U!ConsoleChanges
    <2>1. UNCHANGED <<focus, owners, popping>> /\ ("popup" \in up => "popup" \in up')
      BY <1>18 DEF U!WorkerEnters, U!PinRequested, U!Restart, U!ErrorHint, U!ConsoleChanges
    <2> QED
      BY <2>1 DEF FocusKept
  <1> QED
    BY <1>2, <1>3, <1>6, <1>7, <1>9, <1>10, <1>11, <1>12, <1>13, <1>14, <1>15, <1>16, <1>17,
       <1>18 DEF U!Next, U!UiThread, U!Others

\* While the overlay of a connection is up, its waking screen is shown below it or there is
\* a session, and no PIN is entered before there is one.
ExitKept ==
    /\ "connection" \in up => screen = "waking" \/ session # "none"
    /\ pin => "connection" \notin up \/ session # "none"

\* No step of the screens shuts the user in.
LEMMA ExitStep ==
    ASSUME ExitKept, U!Next
    PROVE  ExitKept'
  <1> USE DEF ExitKept, U!Shown, U!Reconnecting, U!OnMain, U!MayConnect, U!Pages
  <1>1. \A next, stack, own : U!Turn(next, stack, own) => screen' = next
    BY DEF U!Turn
  <1>2. ASSUME NEW stack, NEW own, NEW flag, NEW way, U!MayConnect, session' = session,
               pin' = pin, U!Activate(stack, own, flag, way)
        PROVE  ExitKept'
    BY <1>1, <1>2 DEF U!Activate
  <1>3. CASE U!DismissError \/ U!DebugMenu
    BY <1>3 DEF U!DismissError, U!DebugMenu
  <1>4. CASE U!ZoneCrossing \/ U!Navigate
    BY <1>1, <1>4 DEF U!ZoneCrossing, U!Navigate
  <1>5. CASE U!PressCard \/ U!TapCard
    BY <1>2, <1>5 DEF U!PressCard, U!TapCard
  <1>6. CASE U!OpenPopup
    BY <1>1, <1>6 DEF U!OpenPopup
  <1>7. CASE U!AnswerPopup
    <2>1. /\ U!MayConnect /\ session' = session /\ pin' = pin
          /\ \/ up' = up \ {"popup"} /\ screen' = "main"
             \/ \E st, own, flag, way : U!Activate(st, own, flag, way)
      BY <1>1, <1>7 DEF U!AnswerPopup
    <2> QED
      BY <1>2, <2>1
  <1>8. CASE U!Repair \/ U!LeaveRegistration \/ U!SubmitPin
    BY <1>1, <1>8 DEF U!Repair, U!LeaveRegistration, U!SubmitPin
  <1>9. CASE U!Waking
    BY <1>1, <1>9 DEF U!Waking, U!Stay
  <1>10. CASE U!Cancel \/ U!CancelWaited \/ U!FlagCleared
    BY <1>1, <1>10 DEF U!Cancel, U!CancelWaited, U!FlagCleared
  <1>11. CASE U!WorkerEnters \/ U!WorkerEnds \/ U!PinRequested
    BY <1>11 DEF U!WorkerEnters, U!WorkerEnds, U!OverlayDown, U!PinRequested
  <1>12. CASE U!FirstPicture \/ U!Restart \/ U!Quit \/ U!ErrorHint \/ U!ConsoleChanges
    BY <1>12 DEF U!FirstPicture, U!Restart, U!Quit, U!OverlayDown, U!ErrorHint,
       U!ConsoleChanges
  <1> QED
    BY <1>3, <1>4, <1>5, <1>6, <1>7, <1>8, <1>9, <1>10, <1>11, <1>12
    DEF U!Next, U!UiThread, U!Others

\* The choice of the Internet has its flag, until the worker takes both or the attempt is
\* given up before there is a worker to take them.
ChoiceKept ==
    /\ route # <<"psn", "lan">>
    /\ chosen = "psn" /\ ~forced => worker # "start"
    /\ chosen = "psn" /\ ~forced => ("connection" \in up => session # "none")

\* No step of the screens loses the choice.
LEMMA ChoiceStep ==
    ASSUME Rapid = FALSE, ExitKept, ChoiceKept, U!Next
    PROVE  ChoiceKept'
  <1> USE DEF ChoiceKept
  <1>1. ASSUME U!MayConnect
        PROVE  worker # "start" /\ ("connection" \in up => session # "none")
    BY <1>1, Rapid = FALSE
    DEF U!MayConnect, U!OnMain, U!Shown, U!Reconnecting, ExitKept
  <1>2. ASSUME NEW stack, NEW own, NEW flag, NEW way, U!MayConnect, session' = session,
               route' = route, U!Activate(stack, own, flag, way), way = "psn" => flag
        PROVE  ChoiceKept'
    <2>1. \/ chosen' = way /\ (way = "psn" => forced')
          \/ UNCHANGED <<chosen, worker>> /\ ("connection" \in up' => "connection" \in up)
      BY <1>2 DEF U!Activate, U!Restored
    <2>2. (chosen' = "psn" => forced') \/ ~(worker' = "start")
      BY <1>1, <1>2, <2>1
    <2>3. (chosen' = "psn" => forced') \/ "connection" \notin up' \/ session' # "none"
      BY <1>1, <1>2, <2>1
    <2> QED
      BY <1>2, <2>2, <2>3
  <1>3. CASE U!DismissError \/ U!DebugMenu
    BY <1>3 DEF U!DismissError, U!DebugMenu
  <1>4. CASE U!ZoneCrossing \/ U!Navigate
    BY <1>4 DEF U!ZoneCrossing, U!Navigate
  <1>5. CASE U!PressCard \/ U!TapCard
    BY <1>2, <1>5 DEF U!PressCard, U!TapCard
  <1>6. CASE U!OpenPopup
    BY <1>6 DEF U!OpenPopup
  <1>7. CASE U!AnswerPopup
    <2>1. /\ U!MayConnect /\ session' = session /\ route' = route
          /\ \/ up' = up \ {"popup"} /\ UNCHANGED <<worker, forced, chosen>>
             \/ \E st, own, way : U!Activate(st, own, forced \/ way = "psn", way)
      BY <1>7 DEF U!AnswerPopup
    <2>2. CASE up' = up \ {"popup"} /\ UNCHANGED <<worker, forced, chosen>>
      BY <2>1, <2>2
    <2>3. CASE \E st, own, way : U!Activate(st, own, forced \/ way = "psn", way)
      <3>1. PICK st, own, way : U!Activate(st, own, forced \/ way = "psn", way)
        BY <2>3
      <3> DEFINE flag == forced \/ way = "psn"
      <3>2. U!Activate(st, own, flag, way)
        BY <3>1
      <3>3. way = "psn" => flag
        OBVIOUS
      <3> HIDE DEF flag
      <3> QED
        BY <1>2, <2>1, <3>2, <3>3
    <2> QED
      BY <2>1, <2>2, <2>3
  <1>8. CASE U!Repair \/ U!LeaveRegistration \/ U!SubmitPin
    BY <1>8 DEF U!Repair, U!LeaveRegistration, U!SubmitPin
  <1>9. CASE U!Waking
    BY <1>9 DEF U!Waking, U!StartThread
  <1>10. CASE U!Cancel \/ U!CancelWaited \/ U!FlagCleared
    BY <1>10 DEF U!Cancel, U!CancelWaited, U!FlagCleared
  <1>11. CASE U!WorkerEnters
    BY <1>11 DEF U!WorkerEnters
  <1>12. CASE U!WorkerEnds \/ U!PinRequested
    BY <1>12 DEF U!WorkerEnds, U!OverlayDown, U!PinRequested
  <1>13. CASE U!FirstPicture \/ U!Restart \/ U!Quit \/ U!ErrorHint \/ U!ConsoleChanges
    BY <1>13 DEF U!FirstPicture, U!Restart, U!Quit, U!OverlayDown, U!ErrorHint,
       U!ConsoleChanges
  <1> QED
    BY <1>3, <1>4, <1>5, <1>6, <1>7, <1>8, <1>9, <1>10, <1>11, <1>12, <1>13
    DEF U!Next, U!UiThread, U!Others

\* The inductive invariant of the screens ...
ScreensInv == FocusKept /\ ExitKept /\ ChoiceKept

\* ... holds at first ...
LEMMA ScreensInit == U!Init => ScreensInv
  <1> SUFFICES ASSUME U!Init PROVE ScreensInv
    OBVIOUS
  <1>1. Fits(focus, owners, popping)
    <2>1. focus = <<"content">> /\ owners = {} /\ popping = {}
      BY DEF U!Init
    <2>2. <<"content">> \in Seq(Zones) /\ Len(<<"content">>) = 1
      BY DEF Zones
    <2> QED
      BY <2>1, <2>2, FS_EmptySet DEF Fits
  <1> QED
    BY <1>1 DEF U!Init, ScreensInv, FocusKept, ExitKept, ChoiceKept

\* ... and while another component runs.
LEMMA ScreensStutter == ScreensInv /\ UNCHANGED screenVars => ScreensInv'
  BY DEF ScreensInv, screenVars, FocusKept, ExitKept, ChoiceKept, Fits

\* However deep the stack may grow: no modal is left without an owner, a connection can
\* always be left, and the choice of the Internet is not lost, unless a whole frame passes
\* between two statements of another thread (ui/ui_focus.c, 69-95; ui/ui_state.c, 96-206;
\* ui/ui_screens.c, 757-816).
THEOREM ScreensAlwaysKeepFocus ==
    ASSUME Rapid = FALSE
    PROVE  Spec => []ScreensKeepFocus
  <1>1. Init => ScreensInv
    BY ScreensInit DEF Init
  <1>2. ScreensInv /\ [Next]_vars => ScreensInv'
    BY BenchStep, FocusStep, ExitStep, ChoiceStep, ScreensStutter, Rapid = FALSE
    DEF ScreensInv
  <1>3. ScreensInv => ScreensKeepFocus
    <2> SUFFICES ASSUME ScreensInv PROVE ScreensKeepFocus
      OBVIOUS
    <2>1. U!NoOrphanModal
      <3> DEFINE all == Cardinality(owners)
                 had == Len(focus)
      <3>1. had \in Nat /\ all \in Nat /\ had <= all + 1
        BY OwnersFinite DEF ScreensInv, FocusKept, Fits
      <3> HIDE DEF all, had
      <3>2. had - 1 <= all
        BY <3>1
      <3>3. Len(focus) - 1 <= Cardinality(owners)
        BY <3>2 DEF all, had
      <3>4. U!Cardinality(owners) = Cardinality(owners)
        BY DEF U!Cardinality, Cardinality
      <3> QED
        BY <3>3, <3>4, Zenon DEF U!NoOrphanModal, U!Depth
    <2> QED
      BY <2>1 DEF ScreensInv, ExitKept, ChoiceKept, ScreensKeepFocus, U!OverlayHasExit,
         U!InternetNotLost
  <1> QED
    BY <1>1, <1>2, <1>3, PTL DEF Spec

-----------------------------------------------------------------------------
(* The account *)

TokenRecords ==
    [access : {"none", "stale", "valid"}, refresh : Nat, npsso : {"none", "good", "lost"}]

\* A runtime of psn_auth.c.
Runtime(r) ==
    /\ DOMAIN r = {"state", "login", "tokens", "pending", "server"}
    /\ r.tokens \in TokenRecords /\ r.server \in Nat

\* A function of psn_auth.c that changes the tokens has them saved.
Keeps(r, s) ==
    /\ Runtime(s)
    /\ ~s.pending => ~r.pending /\ s.tokens = r.tokens

\* An answer that is applied.
LEMMA ApplyKeeps ==
    ASSUME NEW r, Runtime(r), NEW refresh \in Nat, NEW s, s = P!Apply(r, refresh)
    PROVE  Keeps(r, s) /\ s.state = "TOKEN_VALID" /\ s.server = r.server
  <1>1. [r.tokens EXCEPT !.access = "valid", !.refresh = refresh] \in TokenRecords
    BY DEF Runtime, TokenRecords
  <1>2. /\ DOMAIN s = DOMAIN r
        /\ s.state = "TOKEN_VALID" /\ s.pending = TRUE /\ s.server = r.server
        /\ s.tokens = [r.tokens EXCEPT !.access = "valid", !.refresh = refresh]
    BY DEF P!Apply, Runtime
  <1> QED
    BY <1>1, <1>2 DEF Keeps, Runtime

\* An exchange that succeeds.
LEMMA GrantedKeeps ==
    ASSUME NEW r, Runtime(r), NEW s \in P!Granted(r)
    PROVE  Keeps(r, s) /\ s.state = "TOKEN_VALID"
  <1> DEFINE more == [r EXCEPT !.server = @ + 1]
  <1>1. r.server \in Nat /\ r.server + 1 \in Nat /\ r.tokens.refresh \in Nat
    BY DEF Runtime, TokenRecords
  <1>2. /\ Runtime(more) /\ more.tokens = r.tokens /\ more.pending = r.pending
    BY <1>1 DEF Runtime
  <1>3. s = P!Apply(more, r.server + 1) \/ s = P!Apply(r, r.tokens.refresh)
    BY DEF P!Granted
  <1> HIDE DEF more
  <1>4. CASE s = P!Apply(more, r.server + 1)
    <2>1. Keeps(more, s) /\ s.state = "TOKEN_VALID"
      BY <1>1, <1>2, <1>4, ApplyKeeps
    <2> QED
      BY <1>2, <2>1 DEF Keeps
  <1>5. CASE s = P!Apply(r, r.tokens.refresh)
    BY <1>1, <1>5, ApplyKeeps
  <1> QED
    BY <1>3, <1>4, <1>5

\* ... is due to be saved.
LEMMA GrantedPends ==
    ASSUME NEW r, Runtime(r), NEW s \in P!Granted(r)
    PROVE  s.pending
  <1>1. \A t, refresh : Runtime(t) => P!Apply(t, refresh).pending
    BY DEF P!Apply, Runtime
  <1>2. Runtime([r EXCEPT !.server = @ + 1])
    BY DEF Runtime
  <1> QED
    BY <1>1, <1>2 DEF P!Granted

\* An error keeps what there was.
LEMMA ErrorKeeps ==
    ASSUME NEW r, Runtime(r)
    PROVE  /\ Keeps(r, r) /\ Keeps(r, P!SetError(r))
           /\ P!SetError(r).state = "ERROR"
           /\ P!SetError(r).tokens = r.tokens
           /\ P!SetError(r).pending = r.pending
  <1>1. /\ DOMAIN P!SetError(r) = DOMAIN r /\ P!SetError(r).state = "ERROR"
        /\ P!SetError(r).tokens = r.tokens /\ P!SetError(r).pending = r.pending
        /\ P!SetError(r).server = r.server
    BY DEF P!SetError, Runtime
  <1> QED
    BY <1>1 DEF Keeps, Runtime

\* A login with the NPSSO.
LEMMA LoginKeeps ==
    ASSUME NEW r, Runtime(r), NEW npsso, NEW recovering,
           NEW s \in P!LoginWithNpsso(r, npsso, recovering)
    PROVE  /\ Keeps(r, s) /\ s.state \in {r.state, "ERROR", "TOKEN_VALID"}
           /\ s = r \/ s = P!SetError(r) \/ s.state = "TOKEN_VALID"
  <1>1. CASE s = r \/ s = P!SetError(r)
    BY <1>1, ErrorKeeps
  <1>2. CASE \E g \in P!Granted(r), kept \in {"good", "lost"} :
                 s = [g EXCEPT !.tokens.npsso = kept]
    <2>1. PICK g \in P!Granted(r), kept \in {"good", "lost"} :
                   s = [g EXCEPT !.tokens.npsso = kept]
      BY <1>2
    <2>2. Keeps(r, g) /\ g.state = "TOKEN_VALID"
      BY GrantedKeeps
    <2>3. [g.tokens EXCEPT !.npsso = kept] \in TokenRecords
      BY <2>2 DEF Keeps, Runtime, TokenRecords
    <2>4. /\ DOMAIN s = DOMAIN g /\ s.state = "TOKEN_VALID"
          /\ s.pending = g.pending /\ s.server = g.server
          /\ s.tokens = [g.tokens EXCEPT !.npsso = kept]
      BY <2>1, <2>2 DEF Keeps, Runtime
    <2>5. g.pending
      BY GrantedPends
    <2> QED
      BY <2>2, <2>3, <2>4, <2>5 DEF Keeps, Runtime
  <1> QED
    BY <1>1, <1>2 DEF P!LoginWithNpsso

\* A refresh, whatever comes of it, does not remain under way.
LEMMA RefreshKeeps ==
    ASSUME NEW r, Runtime(r), NEW posted, NEW s \in P!Refresh(r, posted)
    PROVE  Keeps(r, s) /\ s.state \in {"ERROR", "TOKEN_VALID"}
  <1>1. CASE s = P!SetError(r)
    BY <1>1, ErrorKeeps
  <1>2. CASE s \in P!Granted(r)
    BY <1>2, GrantedKeeps
  <1>3. CASE s \in P!Recovered([r EXCEPT !.state = "TOKEN_REFRESHING"])
    <2> DEFINE t == [r EXCEPT !.state = "TOKEN_REFRESHING"]
    <2>1. Runtime(t) /\ t.tokens = r.tokens /\ t.pending = r.pending
      BY DEF Runtime
    <2>2. PICK g \in P!LoginWithNpsso(t, t.tokens.npsso, TRUE) :
                   s = IF g.state = "TOKEN_VALID" THEN g ELSE P!SetError(g)
      BY <1>3 DEF P!Recovered
    <2> HIDE DEF t
    <2>3. Keeps(t, g)
      BY <2>1, LoginKeeps
    <2>4. Keeps(g, s) /\ s.state \in {"ERROR", "TOKEN_VALID"}
      BY <2>2, <2>3, ErrorKeeps DEF Keeps
    <2> QED
      BY <2>1, <2>3, <2>4 DEF Keeps
  <1> QED
    BY <1>1, <1>2, <1>3 DEF P!Refresh

\* ... and where it is not needed, nothing changes.
LEMMA RefreshIfNeededKeeps ==
    ASSUME NEW r, Runtime(r), NEW force, NEW s \in P!RefreshIfNeeded(r, force)
    PROVE  Keeps(r, s) /\ s.state \in {r.state, "ERROR", "TOKEN_VALID"}
  <1>1. s = r \/ s \in P!Refresh(r, r.tokens.refresh)
    BY DEF P!RefreshIfNeeded
  <1> QED
    BY <1>1, ErrorKeeps, RefreshKeeps

\* A login is begun or cancelled without a change of the tokens.
LEMMA DeviceLoginKeeps ==
    ASSUME NEW r, Runtime(r)
    PROVE  /\ \A s \in P!BeginDeviceLogin(r) :
                  Keeps(r, s) /\ s.state \in {"DEVICE_LOGIN_PENDING", "ERROR"}
           /\ /\ Keeps(r, P!CancelDeviceLogin(r))
              /\ P!CancelDeviceLogin(r).state \in {"TOKEN_VALID", "LOGGED_OUT"}
              /\ P!CancelDeviceLogin(r).tokens = r.tokens
              /\ P!CancelDeviceLogin(r).pending = r.pending
  <1>1. ASSUME NEW s \in P!BeginDeviceLogin(r)
        PROVE  Keeps(r, s) /\ s.state \in {"DEVICE_LOGIN_PENDING", "ERROR"}
    <2>1. CASE s = P!SetError(r)
      BY <2>1, ErrorKeeps
    <2>2. CASE s = [r EXCEPT !.state = "DEVICE_LOGIN_PENDING", !.login = TRUE]
      BY <2>2 DEF Keeps, Runtime
    <2> QED
      BY <2>1, <2>2 DEF P!BeginDeviceLogin
  <1>2. /\ DOMAIN P!CancelDeviceLogin(r) = DOMAIN r
        /\ P!CancelDeviceLogin(r).state \in {"TOKEN_VALID", "LOGGED_OUT"}
        /\ P!CancelDeviceLogin(r).tokens = r.tokens
        /\ P!CancelDeviceLogin(r).pending = r.pending
        /\ P!CancelDeviceLogin(r).server = r.server
    BY DEF P!CancelDeviceLogin, Runtime
  <1>3. Keeps(r, P!CancelDeviceLogin(r))
    BY <1>2 DEF Keeps, Runtime
  <1> QED
    BY <1>1, <1>2, <1>3

\* Of the tokens, the file holds what the servers give out once.
Saved(kept, t) == kept.refresh = t.refresh /\ kept.npsso = t.npsso

\* The inductive invariant of the account: what is not in the file is due to be saved, what
\* is being saved does not change, and a refresh under way has its thread.
AccountInv ==
    /\ tokens \in TokenRecords /\ savedTokens \in TokenRecords /\ server \in Nat
    /\ ~pending => Saved(savedTokens, tokens)
    /\ saving => Saved(savedTokens, tokens)
    /\ state = "TOKEN_REFRESHING" => renewing # 0

\* No step of the account breaks it.
LEMMA AccountStep ==
    ASSUME Racing = FALSE, AccountInv, P!Next
    PROVE  AccountInv'
  <1>1. /\ Runtime(P!Now) /\ P!Now.state = state /\ P!Now.tokens = tokens
        /\ P!Now.pending = pending /\ P!Now.server = server
    BY DEF Runtime, P!Now, AccountInv
  <1>2. ASSUME NEW r, Keeps(P!Now, r), P!Becomes(r), savedTokens' \in {savedTokens, r.tokens},
               ~saving', r.state # "TOKEN_REFRESHING" \/ renewing' # 0
        PROVE  AccountInv'
    <2>1. /\ state' = r.state /\ tokens' = r.tokens /\ server' = r.server
          /\ r.pending => pending'
      BY <1>2 DEF P!Becomes
    <2>2. r.tokens \in TokenRecords /\ r.server \in Nat
      BY <1>2 DEF Keeps, Runtime
    <2>3. ~r.pending => ~pending /\ r.tokens = tokens
      BY <1>1, <1>2 DEF Keeps
    <2>4. ~pending' => Saved(savedTokens', tokens')
      <3>1. CASE savedTokens' = r.tokens
        BY <2>1, <3>1 DEF Saved
      <3>2. CASE savedTokens' = savedTokens
        BY <2>1, <2>3, <3>2 DEF AccountInv
      <3> QED
        BY <1>2, <3>1, <3>2
    <2>5. savedTokens' \in TokenRecords
      BY <1>2, <2>2 DEF AccountInv
    <2> QED
      BY <1>2, <2>1, <2>2, <2>4, <2>5 DEF AccountInv
  <1>3. CASE P!PersistBegins \/ P!PersistEnds
    BY <1>3 DEF P!PersistBegins, P!PersistEnds, AccountInv, Saved
  <1>4. CASE P!IdleRefresh \/ P!NetworkChange
    <2>1. PICK r, force : r \in P!RefreshIfNeeded(P!Now, force) /\ P!Becomes(r)
      BY <1>4 DEF P!IdleRefresh, P!NetworkChange
    <2>2. ~saving /\ UNCHANGED <<savedTokens, saving, renewing>>
      BY <1>4 DEF P!IdleRefresh, P!NetworkChange, P!Idle
    <2>3. Keeps(P!Now, r) /\ r.state \in {state, "ERROR", "TOKEN_VALID"}
      BY <1>1, <2>1, RefreshIfNeededKeeps
    <2> QED
      BY <1>2, <2>1, <2>2, <2>3 DEF AccountInv
  <1>5. CASE P!CrossPastes \/ P!DialogCancelled \/ P!StreamStarts \/ P!StreamEnds
    BY <1>5 DEF P!CrossPastes, P!DialogCancelled, P!StreamStarts, P!StreamEnds, AccountInv
  <1>6. CASE P!CrossSignsIn
    <2>1. PICK r \in P!RefreshIfNeeded(P!Now, FALSE) :
              P!Becomes(r) \/ \E b \in P!BeginDeviceLogin(r) : P!Becomes(b)
      BY <1>6 DEF P!CrossSignsIn
    <2>2. ~saving /\ renewing = 0 /\ UNCHANGED <<savedTokens, saving, renewing>>
      BY <1>6 DEF P!CrossSignsIn, P!OnProfile, P!Idle
    <2>3. Keeps(P!Now, r) /\ r.state \in {state, "ERROR", "TOKEN_VALID"} /\ Runtime(r)
      BY <1>1, RefreshIfNeededKeeps DEF Keeps
    <2>4. CASE P!Becomes(r)
      BY <1>2, <2>2, <2>3, <2>4 DEF AccountInv
    <2>5. CASE \E b \in P!BeginDeviceLogin(r) : P!Becomes(b)
      <3>1. PICK b \in P!BeginDeviceLogin(r) : P!Becomes(b)
        BY <2>5
      <3>2. Keeps(r, b) /\ b.state \in {"DEVICE_LOGIN_PENDING", "ERROR"}
        BY <2>3, DeviceLoginKeeps
      <3>3. Keeps(P!Now, b)
        BY <2>3, <3>2 DEF Keeps
      <3> QED
        BY <1>2, <2>2, <3>1, <3>2, <3>3
    <2> QED
      BY <2>1, <2>4, <2>5
  <1>7. CASE P!CrossRefreshesHosts
    BY <1>7 DEF P!CrossRefreshesHosts, P!OnProfile, P!Idle, AccountInv, Saved
  <1>8. CASE P!SubmitCode
    <2>1. PICK r \in {P!Now, P!SetError(P!Now)} \cup P!Granted(P!Now) :
              P!Becomes(r) /\ savedTokens' \in {savedTokens, r.tokens}
      BY <1>8 DEF P!SubmitCode
    <2>2. ~saving /\ UNCHANGED <<saving, renewing>>
      BY <1>8 DEF P!SubmitCode, P!Idle
    <2>3. Keeps(P!Now, r) /\ r.state \in {state, "ERROR", "TOKEN_VALID"}
      BY <1>1, ErrorKeeps, GrantedKeeps
    <2> QED
      BY <1>2, <2>1, <2>2, <2>3 DEF AccountInv
  <1>9. CASE P!OpenNpsso \/ P!CancelLogin
    <2>1. /\ P!Becomes(P!CancelDeviceLogin(P!Now)) \/ P!Becomes(P!Now)
          /\ ~saving /\ UNCHANGED <<savedTokens, saving, renewing>>
      BY <1>9 DEF P!OpenNpsso, P!CancelLogin, P!OnProfile, P!Idle
    <2>2. CASE P!Becomes(P!Now)
      BY <1>1, <1>2, <2>1, <2>2, ErrorKeeps DEF AccountInv
    <2>3. CASE P!Becomes(P!CancelDeviceLogin(P!Now))
      <3>1. Keeps(P!Now, P!CancelDeviceLogin(P!Now))
            /\ P!CancelDeviceLogin(P!Now).state \in {"TOKEN_VALID", "LOGGED_OUT"}
        BY <1>1, DeviceLoginKeeps
      <3> QED
        BY <1>2, <2>1, <2>3, <3>1
    <2> QED
      BY <2>1, <2>2, <2>3
  <1>10. CASE P!EnterNpsso
    <2>1. PICK r \in P!LoginWithNpsso(P!Now, "good", FALSE) :
              P!Becomes(r) /\ savedTokens' \in {savedTokens, r.tokens}
      BY <1>10 DEF P!EnterNpsso
    <2>2. ~saving /\ UNCHANGED <<saving, renewing>>
      BY <1>10 DEF P!EnterNpsso, P!Idle
    <2>3. Keeps(P!Now, r) /\ r.state \in {state, "ERROR", "TOKEN_VALID"}
      BY <1>1, LoginKeeps
    <2> QED
      BY <1>2, <2>1, <2>2, <2>3 DEF AccountInv
  <1>11. CASE P!Logout
    <2> DEFINE gone == [tokens EXCEPT !.access = "none", !.refresh = 0]
               out == [P!Now EXCEPT !.tokens = gone]
    <2>1. gone \in TokenRecords
      BY DEF AccountInv, TokenRecords
    <2>2. Runtime(out) /\ out.tokens = gone
      BY <1>1, <2>1 DEF Runtime
    <2>3. /\ P!Becomes(P!CancelDeviceLogin(out)) /\ savedTokens' = gone
          /\ ~saving /\ UNCHANGED <<saving, renewing>>
      BY <1>11 DEF P!Logout, P!OnProfile, P!Idle
    <2> HIDE DEF gone, out
    <2>4. /\ P!CancelDeviceLogin(out).state \in {"TOKEN_VALID", "LOGGED_OUT"}
          /\ P!CancelDeviceLogin(out).tokens = gone
          /\ Runtime(P!CancelDeviceLogin(out))
      BY <2>2, DeviceLoginKeeps DEF Keeps
    <2>5. tokens' = gone /\ server' \in Nat /\ state' \in {"TOKEN_VALID", "LOGGED_OUT"}
      BY <2>3, <2>4 DEF P!Becomes, Runtime
    <2> QED
      BY <2>1, <2>3, <2>5 DEF AccountInv, Saved
  <1>12. CASE P!WorkerPosts
    BY <1>12 DEF P!WorkerPosts, P!HasTokens, AccountInv
  <1>13. CASE P!WorkerHears
    <2>1. PICK r \in P!Refresh(P!Now, renewing) : P!Becomes(r)
      BY <1>13 DEF P!WorkerHears
    <2>2. ~saving /\ UNCHANGED <<savedTokens, saving>>
      BY <1>13, Racing = FALSE DEF P!WorkerHears
    <2>3. Keeps(P!Now, r) /\ r.state \in {"ERROR", "TOKEN_VALID"}
      BY <1>1, RefreshKeeps
    <2> QED
      BY <1>2, <2>1, <2>2, <2>3
  <1>14. CASE P!Expires
    <2>1. /\ tokens' = [tokens EXCEPT !.access = "stale"]
          /\ UNCHANGED <<state, pending, savedTokens, saving, renewing, server>>
      BY <1>14 DEF P!Expires
    <2>2. tokens' \in TokenRecords /\ tokens'.refresh = tokens.refresh
          /\ tokens'.npsso = tokens.npsso
      BY <2>1 DEF AccountInv, TokenRecords
    <2> QED
      BY <2>1, <2>2 DEF AccountInv, Saved
  <1>15. CASE P!Revoked
    BY <1>15 DEF P!Revoked, AccountInv
  <1>16. CASE P!PowerCycle
    <2> DEFINE stale == [savedTokens EXCEPT !.access = IF @ = "valid" THEN "stale" ELSE @]
    <2>1. /\ stale \in TokenRecords /\ stale.refresh = savedTokens.refresh
          /\ stale.npsso = savedTokens.npsso
      BY DEF AccountInv, TokenRecords
    <2>2. /\ tokens' \in {savedTokens, stale} /\ state' = "LOGGED_OUT"
          /\ UNCHANGED <<savedTokens, server>>
      BY <1>16 DEF P!PowerCycle
    <2> HIDE DEF stale
    <2>3. tokens' \in TokenRecords /\ Saved(savedTokens', tokens')
      BY <2>1, <2>2 DEF AccountInv, Saved
    <2> QED
      BY <2>2, <2>3 DEF AccountInv
  <1> QED
    BY <1>3, <1>4, <1>5, <1>6, <1>7, <1>8, <1>9, <1>10, <1>11, <1>12, <1>13, <1>14, <1>15,
       <1>16 DEF P!Next

\* It holds at first ...
LEMMA AccountInit == P!Init => AccountInv
  BY DEF P!Init, AccountInv, P!NoTokens, TokenRecords, Saved

\* ... and while another component runs.
LEMMA AccountStutter == AccountInv /\ UNCHANGED accountVars => AccountInv'
  BY DEF AccountInv, accountVars, Saved


-----------------------------------------------------------------------------
(* The configuration *)

FileFields == {"toml", "queueDepth", "general", "tooHigh", "ours", "foreign", "plain",
               "expiry", "latency", "manual", "registered"}

\* No more consoles than there is room for are all read back.
LEMMA AllParsed ==
    ASSUME NEW f, f.registered \subseteq Owned,
           Cardinality(f.registered) <= MaxRegistered
    PROVE  C!Parsed(f) = [tokens |-> C!Tokens(f), expiry |-> f.expiry,
                          latency |-> C!Latency(f), registered |-> f.registered,
                          manual |-> f.manual \cap f.registered]
  <1> DEFINE size == IF C!Cardinality(f.registered) < MaxRegistered
                     THEN C!Cardinality(f.registered) ELSE MaxRegistered
             kept == CHOOSE s \in SUBSET f.registered : C!Cardinality(s) = size
  <1>1. \A S : C!Cardinality(S) = Cardinality(S)
    BY DEF C!Cardinality, Cardinality
  <1>2. IsFiniteSet(Owned) /\ MaxRegistered \in Nat
    BY MCClientAssumption DEF C!ConfigAssumption, C!IsFiniteSet, IsFiniteSet
  <1>3. IsFiniteSet(f.registered)
    BY <1>2, FS_Subset
  <1>4. Cardinality(f.registered) \in Nat
    BY <1>3, FS_CardinalityType
  <1>5. size = Cardinality(f.registered)
    BY <1>1, <1>2, <1>4
  <1> HIDE DEF size
  <1>6. \E s \in SUBSET f.registered : C!Cardinality(s) = size
    BY <1>1, <1>5
  <1>7. kept \in SUBSET f.registered /\ C!Cardinality(kept) = size
    BY <1>6
  <1> HIDE DEF kept
  <1>8. kept = f.registered
    BY <1>1, <1>3, <1>5, <1>7, FS_Subset
  <1> QED
    BY <1>8 DEF C!Parsed, kept, size

\* To put the queue depth right changes nothing else.
LEMMA FixedKeeps ==
    ASSUME NEW f, DOMAIN f = FileFields
    PROVE  LET g == C!Fixed(f)
           IN  /\ DOMAIN g = FileFields
               /\ g.toml = f.toml /\ g.general = f.general /\ g.tooHigh = f.tooHigh
               /\ g.ours = f.ours /\ g.foreign = f.foreign /\ g.plain = f.plain
               /\ g.expiry = f.expiry /\ g.latency = f.latency
               /\ g.manual = f.manual /\ g.registered = f.registered
  BY DEF C!Fixed, FileFields

\* What a save has written so far.
LEMMA PrefixReads ==
    ASSUME NEW c, NEW n \in 0 .. 6, NEW fails
    PROVE  LET p == C!Prefix(c, n, fails)
           IN  /\ DOMAIN p = FileFields
               /\ p.toml /\ (p.general <=> n >= 1)
               /\ p.ours \subseteq c.tokens \ fails
               /\ n >= 2 => p.ours = c.tokens \ fails
               /\ p.foreign = {} /\ p.plain = {}
               /\ p.expiry => n >= 2 /\ p.ours \ {"npsso"} # {}
               /\ n >= 3 => p.latency["settings"] = {c.latency}
               /\ p.manual \subseteq c.manual /\ p.registered \subseteq c.registered
               /\ n >= 6 => p.manual = c.manual /\ p.registered = c.registered
  <1> DEFINE p == C!Prefix(c, n, fails)
  <1>1. DOMAIN p = FileFields /\ p.toml /\ (p.general <=> n >= 1)
    BY DEF C!Prefix, FileFields
  <1>2. /\ p.ours = (IF n >= 2 THEN c.tokens \ fails ELSE {})
        /\ p.foreign = {} /\ p.plain = {}
        /\ p.expiry => n >= 2 /\ (c.tokens \ fails) \ {"npsso"} # {}
    BY DEF C!Prefix, C!Encrypted
  <1>3. p.latency["settings"] = (IF n >= 3 THEN {c.latency} ELSE {})
    BY DEF C!Prefix, C!Places
  <1>4. /\ p.manual = (IF n >= 5 THEN c.manual ELSE {})
        /\ p.registered = (IF n >= 6 THEN c.registered ELSE {})
    BY DEF C!Prefix
  <1> HIDE DEF p
  <1>5. /\ p.ours \subseteq c.tokens \ fails
        /\ n >= 2 => p.ours = c.tokens \ fails
    BY <1>2
  <1>6. p.expiry => n >= 2 /\ p.ours \ {"npsso"} # {}
    BY <1>2
  <1>7. n >= 3 => p.latency["settings"] = {c.latency}
    BY <1>3
  <1>8. /\ p.manual \subseteq c.manual /\ p.registered \subseteq c.registered
        /\ n >= 6 => p.manual = c.manual /\ p.registered = c.registered
    BY <1>4
  <1> QED
    BY <1>1, <1>2, <1>5, <1>6, <1>7, <1>8 DEF p

\* A file that a save has left.
Remnant(f, c, fails) ==
    /\ DOMAIN f = FileFields
    /\ f.ours \subseteq c.tokens \ fails /\ f.foreign = {} /\ f.plain = {}
    /\ f.expiry => f.ours \ {"npsso"} # {}
    /\ f.manual \subseteq c.manual /\ f.registered \subseteq c.registered

\* Where it was cut makes no difference.
LEMMA TornReads ==
    ASSUME NEW c, NEW n \in 0 .. 6, NEW fails
    PROVE  /\ Remnant(C!Prefix(c, n, fails), c, fails)
           /\ \A f \in C!Torn(c, n, fails) : Remnant(f, c, fails)
  <1> DEFINE p == C!Prefix(c, n, fails)
  <1>1. Remnant(p, c, fails) /\ (n = 1 => ~p.expiry)
    <2>1. DOMAIN p = FileFields
      BY PrefixReads
    <2>2. p.ours \subseteq c.tokens \ fails /\ p.foreign = {} /\ p.plain = {}
      BY PrefixReads
    <2>3. p.expiry => n >= 2 /\ p.ours \ {"npsso"} # {}
      BY PrefixReads
    <2>4. p.manual \subseteq c.manual /\ p.registered \subseteq c.registered
      BY PrefixReads
    <2> HIDE DEF p
    <2> QED
      BY <2>1, <2>2, <2>3, <2>4 DEF Remnant
  <1> HIDE DEF p
  <1>3. Remnant([p EXCEPT !.toml = FALSE], c, fails)
    BY <1>1 DEF Remnant, FileFields
  <1>4. ASSUME n = 1, NEW some \in SUBSET (c.tokens \ fails)
        PROVE  Remnant([p EXCEPT !.ours = some], c, fails)
    BY <1>1, <1>4 DEF Remnant, FileFields
  <1>5. ASSUME NEW some \in SUBSET c.manual
        PROVE  Remnant([p EXCEPT !.manual = some], c, fails)
    BY <1>1 DEF Remnant, FileFields
  <1>6. ASSUME NEW some \in SUBSET c.registered
        PROVE  Remnant([p EXCEPT !.registered = some], c, fails)
    BY <1>1 DEF Remnant, FileFields
  <1>7. ASSUME NEW f \in C!Torn(c, n, fails)
        PROVE  Remnant(f, c, fails)
    <2>1. \/ f = p \/ f = [p EXCEPT !.toml = FALSE]
          \/ n = 1 /\ \E some \in SUBSET (c.tokens \ fails) : f = [p EXCEPT !.ours = some]
          \/ \E some \in SUBSET c.manual : f = [p EXCEPT !.manual = some]
          \/ \E some \in SUBSET c.registered : f = [p EXCEPT !.registered = some]
      BY DEF C!Torn, C!Encrypted, p
    <2> QED
      BY <1>1, <1>3, <1>4, <1>5, <1>6, <2>1
  <1> QED
    BY <1>1, <1>7 DEF p


SettingFields == {"tokens", "expiry", "latency", "registered", "manual"}

\* What the user can have set up.
Fit(o) ==
    /\ DOMAIN o = {"tokens", "latency", "registered", "manual"}
    /\ o.manual \subseteq o.registered /\ o.registered \subseteq Owned
    /\ Cardinality(o.registered) <= MaxRegistered
    /\ o.latency \in BOOLEAN

\* What the program has, or reads, is what the user has set up.
Same(c, o) ==
    /\ c.registered = o.registered /\ c.manual = o.manual
    /\ c.latency = o.latency /\ c.tokens = o.tokens

\* A save writes what the program has, and until it ends the file may be cut short.
SaveUnderWay ==
    job = "save" => short /\ written \in 0 .. 6 /\ file = C!Prefix(cfg, written, failing)

\* A file that was not cut short holds all that could be written ...
WholeFile ==
    ~short => /\ C!Readable(file)
              /\ C!Tokens(file) = owned.tokens \ failing
              /\ C!Latency(file) = owned.latency
              /\ file.registered = owned.registered /\ file.manual = owned.manual

\* ... and one that was, nothing else.
CutFile ==
    short /\ C!Readable(file) =>
        /\ C!Tokens(file) \subseteq owned.tokens \ failing
        /\ file.registered \subseteq owned.registered
        /\ file.manual \cap file.registered \subseteq owned.manual

\* What cannot be read was written by this version, without a token in the clear.
CleanFile ==
    /\ job # "off" => (file.plain # {} => file.foreign \cup file.ours # {})
    /\ file.expiry => (file.ours \cup file.foreign \cup file.plain) \ {"npsso"} # {}
    /\ ~C!Readable(file) => file.plain = {}

\* The inductive invariant of the configuration.
ConfigInv ==
    /\ job \in {"off", "run", "save"} /\ (job = "off" => failing = {})
    /\ DOMAIN file = FileFields /\ DOMAIN cfg = SettingFields
    /\ Fit(owned) /\ (job # "off" => Same(cfg, owned))
    /\ SaveUnderWay /\ WholeFile /\ CutFile /\ CleanFile

\* A remnant of a save is as good as a file that was cut short can be.
LEMMA RemnantFits ==
    ASSUME NEW f, NEW c, NEW o, NEW fails, Remnant(f, c, fails), Same(c, o)
    PROVE  /\ C!Tokens(f) = f.ours /\ C!Tokens(f) \subseteq o.tokens \ fails
           /\ f.registered \subseteq o.registered /\ f.manual \subseteq o.manual
           /\ f.plain = {}
           /\ f.expiry => (f.ours \cup f.foreign \cup f.plain) \ {"npsso"} # {}
  BY DEF Remnant, Same, C!Tokens

\* A save begins without breaking the invariant.
LEMMA SavesStep ==
    ASSUME NEW c, C!Saves(c), cfg' = c, DOMAIN c = SettingFields, Fit(owned'), Same(c, owned')
    PROVE  ConfigInv'
  <1>1. /\ job' = "save" /\ written' = 0 /\ short' = TRUE
        /\ file' = C!Prefix(c, 0, {})
    BY DEF C!Saves
  <1>2. C!Prefix(c, 0, {}) = C!Prefix(c, 0, failing')
    BY DEF C!Prefix
  <1>3. /\ DOMAIN file' = FileFields /\ ~file'.general
    BY <1>1, PrefixReads
  <1>4. Remnant(file', c, {})
    BY <1>1, TornReads
  <1>5. ~C!Readable(file')
    BY <1>3 DEF C!Readable
  <1>6. CleanFile'
    BY <1>4, <1>5, RemnantFits DEF CleanFile
  <1>7. SaveUnderWay'
    BY <1>1, <1>2 DEF SaveUnderWay
  <1>8. WholeFile' /\ CutFile'
    BY <1>1, <1>5 DEF WholeFile, CutFile
  <1> QED
    BY <1>1, <1>3, <1>6, <1>7, <1>8 DEF ConfigInv

\* The file as the program reads it.
LEMMA LoadReads ==
    ASSUME ConfigInv, job = "off", C!Readable(file)
    PROVE  LET f == C!Fixed(file)
               c == C!Parsed(f)
           IN  /\ DOMAIN c = SettingFields
               /\ c.tokens = C!Tokens(file) /\ c.latency = C!Latency(file)
               /\ c.registered = file.registered
               /\ c.manual = file.manual \cap file.registered
               /\ c.tokens \subseteq owned.tokens /\ c.registered \subseteq owned.registered
               /\ c.manual \subseteq owned.manual /\ c.manual \subseteq c.registered
               /\ c.registered \subseteq Owned /\ Cardinality(c.registered) <= MaxRegistered
               /\ ~short => Same(c, owned)
  <1> DEFINE f == C!Fixed(file)
             c == C!Parsed(f)
  <1>1. /\ f.ours = file.ours /\ f.foreign = file.foreign /\ f.plain = file.plain
        /\ f.expiry = file.expiry /\ f.latency = file.latency
        /\ f.manual = file.manual /\ f.registered = file.registered
    BY FixedKeeps DEF ConfigInv
  <1>2. C!Tokens(f) = C!Tokens(file) /\ C!Latency(f) = C!Latency(file)
    BY <1>1, Zenon DEF C!Tokens, C!Latency, C!PlaceOf
  <1>3. /\ owned.registered \subseteq Owned /\ owned.manual \subseteq owned.registered
        /\ Cardinality(owned.registered) <= MaxRegistered
    BY DEF ConfigInv, Fit
  <1>4. /\ file.registered \subseteq owned.registered
        /\ file.manual \cap file.registered \subseteq owned.manual
        /\ C!Tokens(file) \subseteq owned.tokens
    BY DEF ConfigInv, WholeFile, CutFile
  <1>5. IsFiniteSet(owned.registered) /\ MaxRegistered \in Nat
    <2>1. IsFiniteSet(Owned) /\ MaxRegistered \in Nat
      BY MCClientAssumption DEF C!ConfigAssumption, C!IsFiniteSet, IsFiniteSet
    <2> QED
      BY <1>3, <2>1, FS_Subset
  <1>6. Cardinality(file.registered) <= MaxRegistered
    <2>1. /\ IsFiniteSet(file.registered)
          /\ Cardinality(file.registered) <= Cardinality(owned.registered)
      BY <1>4, <1>5, FS_Subset
    <2>2. Cardinality(file.registered) \in Nat /\ Cardinality(owned.registered) \in Nat
      BY <1>5, <2>1, FS_CardinalityType
    <2> QED
      BY <1>3, <1>5, <2>1, <2>2
  <1>7. c = [tokens |-> C!Tokens(f), expiry |-> f.expiry, latency |-> C!Latency(f),
             registered |-> f.registered, manual |-> f.manual \cap f.registered]
    BY <1>1, <1>3, <1>4, <1>6, AllParsed
  <1> HIDE DEF f, c
  <1>8. /\ DOMAIN c = SettingFields
        /\ c.tokens = C!Tokens(file) /\ c.latency = C!Latency(file)
        /\ c.registered = file.registered
        /\ c.manual = file.manual \cap file.registered
    BY <1>1, <1>2, <1>7 DEF SettingFields
  <1>9. ~short => Same(c, owned)
    BY <1>3, <1>8 DEF ConfigInv, WholeFile, Same
  <1> QED
    BY <1>3, <1>4, <1>6, <1>8, <1>9 DEF f, c


\* What is read is a setting.
LEMMA LatencyIsBoolean == \A f : C!Latency(f) \in BOOLEAN
  BY Zenon DEF C!Latency

\* The program starts with the file as it is, put right, migrated or not to be read.
LEMMA LoadStep ==
    ASSUME ConfigInv, C!Load
    PROVE  ConfigInv'
  <1> DEFINE f == C!Fixed(file)
             c == IF C!Readable(f) THEN C!Parsed(f) ELSE C!Defaults
             left == [tokens |-> owned.tokens \cap c.tokens, latency |-> c.latency,
                      registered |-> owned.registered \cap c.registered,
                      manual |-> owned.manual \cap c.manual]
  <1>1. /\ job = "off" /\ failing = {} /\ Fit(owned)
        /\ cfg' = c /\ owned' = IF ~short THEN owned ELSE left
        /\ \/ C!Readable(f) /\ C!Saves(c)
           \/ /\ ~C!Readable(f) \/ ~C!Migrates(f)
              /\ job' = "run" /\ file' = f /\ UNCHANGED <<written, failing, short>>
    BY DEF C!Load, ConfigInv
  <1>2. /\ DOMAIN f = FileFields
        /\ f.toml = file.toml /\ f.general = file.general
        /\ f.ours = file.ours /\ f.foreign = file.foreign /\ f.plain = file.plain
        /\ f.expiry = file.expiry /\ f.latency = file.latency
        /\ f.manual = file.manual /\ f.registered = file.registered
    BY FixedKeeps DEF ConfigInv
  <1>3. /\ C!Tokens(f) = C!Tokens(file) /\ C!Latency(f) = C!Latency(file)
        /\ C!Readable(f) <=> C!Readable(file)
    BY <1>2, Zenon DEF C!Tokens, C!Latency, C!PlaceOf, C!Readable
  <1>4. ~short => C!Readable(f)
    BY <1>3 DEF ConfigInv, WholeFile
  <1>5. /\ DOMAIN c = SettingFields /\ Fit(owned') /\ Same(c, owned')
        /\ C!Readable(f) =>
               /\ c.tokens = C!Tokens(file) /\ c.latency = C!Latency(file)
               /\ c.registered = file.registered
               /\ c.manual = file.manual \cap file.registered
        /\ ~short => owned' = owned
        /\ c.tokens \subseteq owned.tokens
    <2>1. CASE C!Readable(f)
      <3>1. /\ DOMAIN c = SettingFields
            /\ c.tokens = C!Tokens(file) /\ c.latency = C!Latency(file)
            /\ c.registered = file.registered
            /\ c.manual = file.manual \cap file.registered
            /\ c.tokens \subseteq owned.tokens /\ c.registered \subseteq owned.registered
            /\ c.manual \subseteq owned.manual /\ c.manual \subseteq c.registered
            /\ c.registered \subseteq Owned /\ Cardinality(c.registered) <= MaxRegistered
            /\ ~short => Same(c, owned)
        BY <1>1, <1>3, <2>1, LoadReads
      <3>2. c.latency \in BOOLEAN
        BY <3>1, LatencyIsBoolean
      <3> HIDE DEF c
      <3>3. CASE ~short
        BY <1>1, <3>1, <3>3
      <3>4. CASE short
        <4>1. /\ DOMAIN left = {"tokens", "latency", "registered", "manual"}
              /\ left.tokens = c.tokens /\ left.latency = c.latency
              /\ left.registered = c.registered /\ left.manual = c.manual
          BY <3>1
        <4>2. owned' = left
          BY <1>1, <3>4
        <4> HIDE DEF left
        <4> QED
          BY <3>1, <3>2, <3>4, <4>1, <4>2 DEF Fit, Same
      <3> QED
        BY <3>1, <3>3, <3>4
    <2>2. CASE ~C!Readable(f)
      <3>1. /\ DOMAIN c = SettingFields /\ c.tokens = {} /\ c.latency = TRUE
            /\ c.registered = {} /\ c.manual = {}
        BY <2>2 DEF C!Defaults, SettingFields
      <3> HIDE DEF c
      <3>2. /\ DOMAIN left = {"tokens", "latency", "registered", "manual"}
            /\ left.tokens = {} /\ left.latency = TRUE
            /\ left.registered = {} /\ left.manual = {}
        BY <3>1
      <3>3. short /\ owned' = left
        BY <1>1, <1>4, <2>2
      <3>4. Cardinality({}) <= MaxRegistered
        BY FS_EmptySet, MCClientAssumption DEF C!ConfigAssumption
      <3>5. TRUE \in BOOLEAN
        OBVIOUS
      <3> HIDE DEF left
      <3> QED
        BY <2>2, <3>1, <3>2, <3>3, <3>4, <3>5 DEF Fit, Same
    <2> QED
      BY <2>1, <2>2
  <1> HIDE DEF f, c, left
  <1>6. CASE C!Saves(c)
    BY <1>1, <1>5, <1>6, SavesStep
  <1>7. CASE /\ ~C!Readable(f) \/ ~C!Migrates(f)
             /\ job' = "run" /\ file' = f /\ UNCHANGED <<written, failing, short>>
    <2>1. WholeFile'
      <3>1. ASSUME ~short PROVE WholeFile'
        BY <1>1, <1>2, <1>3, <1>5, <1>7, <3>1 DEF ConfigInv, WholeFile
      <3> QED
        BY <1>7, <3>1 DEF WholeFile
    <2>2. CutFile'
      <3>1. ASSUME short, C!Readable(f) PROVE CutFile'
        <4>1. C!Tokens(file') = c.tokens /\ owned'.tokens = c.tokens /\ failing' = {}
          BY <1>1, <1>3, <1>5, <1>7, <3>1 DEF Same
        <4>2. /\ file'.registered = c.registered /\ owned'.registered = c.registered
              /\ file'.manual \cap file'.registered = c.manual /\ owned'.manual = c.manual
          BY <1>2, <1>5, <1>7, <3>1 DEF Same
        <4> QED
          BY <4>1, <4>2 DEF CutFile
      <3> QED
        BY <1>7, <3>1 DEF CutFile
    <2>3. CleanFile'
      <3>1. CleanFile
        BY DEF ConfigInv
      <3>2. C!Readable(f) => (f.plain # {} => f.foreign \cup f.ours # {})
        BY <1>7 DEF C!Migrates, C!PlainUsed
      <3> QED
        BY <1>2, <1>3, <1>7, <3>1, <3>2 DEF CleanFile
    <2> QED
      BY <1>1, <1>2, <1>5, <1>7, <2>1, <2>2, <2>3 DEF ConfigInv, SaveUnderWay
  <1> QED
    BY <1>1, <1>6, <1>7

\* Each change of the user is saved at once.
LEMMA ChangeStep ==
    ASSUME ConfigInv, C!SignIn \/ C!SignOut \/ C!Toggle \/ \E c \in Owned : C!Register(c)
    PROVE  ConfigInv'
  <1>1. /\ Same(cfg, owned) /\ Fit(owned) /\ DOMAIN cfg = SettingFields
    BY DEF ConfigInv, C!SignIn, C!SignOut, C!Toggle, C!Register, C!Changes
  <1>2. ASSUME NEW c, C!Changes(c), DOMAIN c = SettingFields, Fit(owned'), Same(c, owned')
        PROVE  ConfigInv'
    BY <1>2, SavesStep DEF C!Changes
  <1>3. CASE C!SignIn
    <2> DEFINE c == [cfg EXCEPT !.tokens = C!Kinds, !.expiry = TRUE]
               o == [owned EXCEPT !.tokens = C!Kinds]
    <2>1. DOMAIN c = SettingFields /\ Fit(o) /\ Same(c, o)
      BY <1>1 DEF Same, Fit, SettingFields
    <2>2. C!Changes(c) /\ owned' = o
      BY <1>3 DEF C!SignIn
    <2> HIDE DEF c, o
    <2> QED
      BY <1>2, <2>1, <2>2
  <1>4. CASE C!SignOut
    <2> DEFINE c == [cfg EXCEPT !.tokens = @ \cap {"npsso"}, !.expiry = FALSE]
               o == [owned EXCEPT !.tokens = @ \cap {"npsso"}]
    <2>1. DOMAIN c = SettingFields /\ Fit(o) /\ Same(c, o)
      BY <1>1 DEF Same, Fit, SettingFields
    <2>2. C!Changes(c) /\ owned' = o
      BY <1>4 DEF C!SignOut
    <2> HIDE DEF c, o
    <2> QED
      BY <1>2, <2>1, <2>2
  <1>5. CASE C!Toggle
    <2> DEFINE c == [cfg EXCEPT !.latency = ~@]
               o == [owned EXCEPT !.latency = ~@]
    <2>1. /\ DOMAIN c = SettingFields /\ DOMAIN o = DOMAIN owned
          /\ c.latency = ~cfg.latency /\ o.latency = ~owned.latency
          /\ c.tokens = cfg.tokens /\ o.tokens = owned.tokens
          /\ c.registered = cfg.registered /\ o.registered = owned.registered
          /\ c.manual = cfg.manual /\ o.manual = owned.manual
      BY <1>1 DEF Fit, SettingFields
    <2>2. C!Changes(c) /\ owned' = o
      BY <1>5 DEF C!Toggle
    <2> HIDE DEF c, o
    <2>3. cfg.latency = owned.latency
      BY <1>1 DEF Same
    <2>4. c.latency = o.latency
      BY <2>1, <2>3, Zenon
    <2>5. o.latency \in BOOLEAN
      BY <2>1, Zenon
    <2>6. Fit(o) /\ Same(c, o)
      BY <1>1, <2>1, <2>4, <2>5 DEF Same, Fit
    <2> QED
      BY <1>2, <2>1, <2>2, <2>6
  <1>6. CASE \E c \in Owned : C!Register(c)
    <2>1. PICK d \in Owned : C!Register(d)
      BY <1>6
    <2> DEFINE c == [cfg EXCEPT !.registered = @ \cup {d}]
               o == [owned EXCEPT !.registered = @ \cup {d}]
    <2>2. /\ DOMAIN c = SettingFields /\ DOMAIN o = DOMAIN owned
          /\ c.latency = cfg.latency /\ o.latency = owned.latency
          /\ c.tokens = cfg.tokens /\ o.tokens = owned.tokens
          /\ c.registered = cfg.registered \cup {d}
          /\ o.registered = owned.registered \cup {d}
          /\ c.manual = cfg.manual /\ o.manual = owned.manual
      BY <1>1 DEF Fit, SettingFields
    <2>3. /\ C!Changes(c) /\ owned' = o
          /\ d \notin cfg.registered /\ C!Cardinality(cfg.registered) < MaxRegistered
      BY <2>1 DEF C!Register
    <2>4. Cardinality(owned.registered \cup {d}) <= MaxRegistered
      <3>1. IsFiniteSet(Owned) /\ MaxRegistered \in Nat
        BY MCClientAssumption DEF C!ConfigAssumption, C!IsFiniteSet, IsFiniteSet
      <3>2. IsFiniteSet(owned.registered) /\ d \notin owned.registered
        BY <1>1, <2>3, <3>1, FS_Subset DEF Fit, Same
      <3>3. /\ Cardinality(owned.registered \cup {d}) = Cardinality(owned.registered) + 1
            /\ Cardinality(owned.registered) \in Nat
        BY <3>2, FS_AddElement, FS_CardinalityType
      <3>4. C!Cardinality(cfg.registered) = Cardinality(owned.registered)
        BY <1>1 DEF C!Cardinality, Cardinality, Same
      <3> QED
        BY <2>3, <3>1, <3>3, <3>4
    <2> HIDE DEF c, o
    <2>5. Fit(o) /\ Same(c, o)
      BY <1>1, <2>2, <2>4 DEF Same, Fit
    <2> QED
      BY <1>2, <2>2, <2>3, <2>5
  <1> QED
    BY <1>3, <1>4, <1>5, <1>6


\* A save writes its parts, ends, or is cut short by the card or by the power.
LEMMA SaveStep ==
    ASSUME ConfigInv, C!SavePart \/ C!SaveEnds \/ C!SaveFails \/ C!PowerCut
    PROVE  ConfigInv'
  <1>1. /\ DOMAIN cfg = SettingFields /\ DOMAIN file = FileFields /\ Fit(owned)
        /\ job # "off" => Same(cfg, owned)
        /\ SaveUnderWay /\ WholeFile /\ CutFile /\ CleanFile
        /\ job \in {"off", "run", "save"} /\ (job = "off" => failing = {})
    BY DEF ConfigInv
  <1>2. ASSUME NEW f, NEW o, NEW fails, Remnant(f, cfg, fails), Same(cfg, o), short' = TRUE,
               file' = f, failing' = fails, owned' = o
        PROVE  DOMAIN file' = FileFields /\ WholeFile' /\ CutFile' /\ CleanFile'
    <2>1. /\ C!Tokens(f) \subseteq o.tokens \ fails
          /\ f.registered \subseteq o.registered /\ f.manual \subseteq o.manual
          /\ f.plain = {}
          /\ f.expiry => (f.ours \cup f.foreign \cup f.plain) \ {"npsso"} # {}
      BY <1>2, RemnantFits
    <2> QED
      BY <1>2, <2>1 DEF Remnant, WholeFile, CutFile, CleanFile
  <1>3. CASE C!SavePart
    <2>1. /\ job = "save" /\ written \in 0 .. 6 /\ written < 6 /\ short
          /\ written' = written + 1 /\ file' = C!Prefix(cfg, written + 1, failing)
          /\ UNCHANGED <<cfg, job, failing, short, owned>>
      BY <1>1, <1>3 DEF C!SavePart, C!Parts, SaveUnderWay
    <2>2. written + 1 \in 0 .. 6 /\ written' \in 0 .. 6
      BY <2>1
    <2>3. Remnant(file', cfg, failing)
      BY <2>1, <2>2, TornReads
    <2>4. DOMAIN file' = FileFields /\ WholeFile' /\ CutFile' /\ CleanFile'
      <3>1. ~short' => FALSE
        BY <2>1
      <3>2. /\ C!Tokens(file') \subseteq owned.tokens \ failing
            /\ file'.registered \subseteq owned.registered /\ file'.manual \subseteq owned.manual
            /\ file'.plain = {}
            /\ file'.expiry => (file'.ours \cup file'.foreign \cup file'.plain) \ {"npsso"} # {}
        BY <1>1, <2>1, <2>3, RemnantFits
      <3> QED
        BY <2>1, <2>3, <3>1, <3>2 DEF Remnant, WholeFile, CutFile, CleanFile
    <2>5. SaveUnderWay'
      BY <2>1, <2>2 DEF SaveUnderWay
    <2> QED
      BY <1>1, <2>1, <2>4, <2>5 DEF ConfigInv
  <1>4. CASE C!SaveEnds
    <2>1. /\ job = "save" /\ written = 6 /\ job' = "run" /\ short' = FALSE
          /\ UNCHANGED <<cfg, file, written, failing, owned>>
          /\ file = C!Prefix(cfg, 6, failing)
      BY <1>1, <1>4 DEF C!SaveEnds, C!Parts, SaveUnderWay
    <2>2. /\ file.toml /\ file.general
          /\ file.ours = cfg.tokens \ failing /\ file.foreign = {} /\ file.plain = {}
          /\ file.latency["settings"] = {cfg.latency}
          /\ file.manual = cfg.manual /\ file.registered = cfg.registered
      BY <2>1, PrefixReads
    <2>3. Same(cfg, owned)
      BY <1>1, <2>1
    <2>4. C!Latency(file) = owned.latency
      <3>1. C!PlaceOf(file) = "settings"
        BY <2>2 DEF C!PlaceOf
      <3>2. cfg.latency = owned.latency /\ owned.latency \in BOOLEAN
        BY <1>1, <2>3 DEF Same, Fit
      <3>3. C!Latency(file) <=> TRUE \in {cfg.latency}
        BY <2>2, <3>1 DEF C!Latency
      <3>4. C!Latency(file) <=> owned.latency
        BY <3>2, <3>3, Zenon
      <3> QED
        BY <3>2, <3>4, LatencyIsBoolean, Zenon
    <2>5. C!Readable(file) /\ C!Tokens(file) = owned.tokens \ failing
      BY <2>2, <2>3 DEF C!Readable, C!Tokens, Same
    <2>6. WholeFile'
      BY <2>1, <2>2, <2>3, <2>4, <2>5 DEF WholeFile, Same
    <2>7. CleanFile' /\ CutFile' /\ SaveUnderWay'
      BY <1>1, <2>1, <2>2 DEF CleanFile, CutFile, SaveUnderWay
    <2> QED
      BY <1>1, <2>1, <2>6, <2>7 DEF ConfigInv
  <1>5. CASE C!SaveFails
    <2>1. /\ job = "save" /\ written \in 0 .. 6 /\ job' = "run" /\ short' = TRUE
          /\ file' \in C!Torn(cfg, written, failing)
          /\ UNCHANGED <<cfg, written, failing, owned>>
      BY <1>1, <1>5 DEF C!SaveFails, SaveUnderWay
    <2>2. Remnant(file', cfg, failing) /\ Same(cfg, owned)
      BY <1>1, <2>1, TornReads
    <2>3. DOMAIN file' = FileFields /\ WholeFile' /\ CutFile' /\ CleanFile'
      BY <1>2, <2>1, <2>2
    <2> QED
      BY <1>1, <2>1, <2>2, <2>3 DEF ConfigInv, SaveUnderWay
  <1>6. CASE C!PowerCut
    <2> DEFINE o == [owned EXCEPT !.tokens = @ \ failing]
    <2>1. /\ job # "off" /\ job' = "off" /\ cfg' = C!Defaults
          /\ owned' = o /\ failing' = {} /\ short' = short
          /\ job = "save" => file' \in C!Torn(cfg, written, failing)
          /\ job = "run" => file' = file
      BY <1>1, <1>6 DEF C!PowerCut
    <2>2. /\ DOMAIN o = DOMAIN owned /\ o.tokens = owned.tokens \ failing
          /\ o.latency = owned.latency /\ o.registered = owned.registered
          /\ o.manual = owned.manual
      BY <1>1 DEF Fit
    <2> HIDE DEF o
    <2>3. Fit(owned')
      BY <1>1, <2>1, <2>2 DEF Fit
    <2>4. DOMAIN cfg' = SettingFields
      BY <2>1 DEF C!Defaults, SettingFields
    <2>5. owned'.tokens \ failing' = owned.tokens \ failing
      BY <2>1, <2>2
    <2>6. CASE job = "run"
      <3>1. WholeFile' /\ CutFile'
        BY <1>1, <2>1, <2>2, <2>5, <2>6 DEF WholeFile, CutFile
      <3>2. CleanFile'
        BY <1>1, <2>1, <2>6 DEF CleanFile
      <3> QED
        BY <1>1, <2>1, <2>3, <2>4, <2>6, <3>1, <3>2 DEF ConfigInv, SaveUnderWay
    <2>7. CASE job = "save"
      <3>1. written \in 0 .. 6 /\ short /\ Same(cfg, owned)
        BY <1>1, <2>7 DEF SaveUnderWay
      <3>2. Remnant(file', cfg, failing)
        BY <2>1, <2>7, <3>1, TornReads
      <3>3. /\ C!Tokens(file') \subseteq owned.tokens \ failing
            /\ file'.registered \subseteq owned.registered /\ file'.manual \subseteq owned.manual
            /\ file'.plain = {}
            /\ file'.expiry => (file'.ours \cup file'.foreign \cup file'.plain) \ {"npsso"} # {}
        BY <3>1, <3>2, RemnantFits
      <3>4. DOMAIN file' = FileFields
        BY <3>2 DEF Remnant
      <3>5. WholeFile' /\ CutFile' /\ CleanFile'
        BY <2>1, <2>2, <2>5, <3>1, <3>3 DEF WholeFile, CutFile, CleanFile
      <3> QED
        BY <2>1, <2>3, <2>4, <3>4, <3>5 DEF ConfigInv, SaveUnderWay
    <2> QED
      BY <1>1, <2>1, <2>6, <2>7
  <1> QED
    BY <1>3, <1>4, <1>5, <1>6

\* The invariant holds of every file that a version has left, ...
LEMMA ConfigInit == C!Init => ConfigInv
  <1> SUFFICES ASSUME C!Init PROVE ConfigInv
    OBVIOUS
  <1>1. /\ cfg = C!Defaults /\ job = "off" /\ failing = {} /\ short = FALSE
        /\ file \in C!Untouched /\ C!Readable(file) /\ file.manual \subseteq file.registered
        /\ C!Cardinality(file.registered) <= MaxRegistered
        /\ file.expiry => (file.ours \cup file.foreign \cup file.plain) # {}
        /\ owned = [tokens |-> file.ours \cup (file.plain \ file.foreign),
                    latency |-> (\E p \in C!Places : TRUE \in file.latency[p]),
                    registered |-> file.registered, manual |-> file.manual]
    BY DEF C!Init
  <1>2. /\ DOMAIN file = FileFields /\ file.toml /\ file.general
        /\ file.ours \in {{}, C!Kinds} /\ file.foreign \in {{}, {"access"}}
        /\ file.plain \in {{}, {"access", "refresh"}}
        /\ \E p \in C!Places, v \in BOOLEAN : file.latency = C!Only(p, v)
        /\ file.registered \in SUBSET Owned
    <2>1. file \in C!Untouched
      BY <1>1
    <2>2. DOMAIN file = FileFields
      BY <2>1 DEF C!Untouched, FileFields
    <2>3. file.toml /\ file.general
      BY <1>1 DEF C!Readable
    <2>4. /\ file.ours \in {{}, C!Kinds} /\ file.foreign \in {{}, {"access"}}
          /\ file.plain \in {{}, {"access", "refresh"}}
      BY <2>1 DEF C!Untouched
    <2>5. \E p \in C!Places, v \in BOOLEAN : file.latency = C!Only(p, v)
      BY <2>1 DEF C!Untouched
    <2>6. file.registered \in SUBSET Owned
      BY <2>1 DEF C!Untouched
    <2> QED
      BY <2>2, <2>3, <2>4, <2>5, <2>6
  <1>3. C!Latency(file) <=> \E p \in C!Places : TRUE \in file.latency[p]
    <2>1. PICK q \in C!Places, v \in BOOLEAN : file.latency = C!Only(q, v)
      BY <1>2
    <2>2. \A p \in C!Places : file.latency[p] = IF p = q THEN {v} ELSE {}
      BY <2>1 DEF C!Only
    <2>3. C!PlaceOf(file) = q
      BY <2>2 DEF C!PlaceOf, C!Places
    <2>4. q # "none"
      BY DEF C!Places
    <2> QED
      BY <2>2, <2>3, <2>4 DEF C!Latency
  <1>4. /\ DOMAIN owned = {"tokens", "latency", "registered", "manual"}
        /\ owned.tokens = file.ours \cup (file.plain \ file.foreign)
        /\ owned.latency = (\E p \in C!Places : TRUE \in file.latency[p])
        /\ owned.registered = file.registered /\ owned.manual = file.manual
    BY <1>1
  <1>5. owned.latency \in BOOLEAN
    BY <1>4, Zenon
  <1>6. C!Latency(file) = owned.latency
    BY <1>3, <1>4, <1>5, LatencyIsBoolean, Zenon
  <1>7. C!Readable(file) /\ C!Tokens(file) = owned.tokens \ failing
    BY <1>1, <1>2, <1>4 DEF C!Readable, C!Tokens
  <1>8. Cardinality(file.registered) <= MaxRegistered
    BY <1>1 DEF C!Cardinality, Cardinality
  <1>9. Fit(owned)
    BY <1>1, <1>2, <1>4, <1>5, <1>8 DEF Fit
  <1>10. file.expiry => (file.ours \cup file.foreign \cup file.plain) \ {"npsso"} # {}
    <2>1. "access" \in C!Kinds
      BY DEF C!Kinds
    <2> QED
      BY <1>1, <1>2, <2>1
  <1>11. DOMAIN cfg = SettingFields
    BY <1>1 DEF C!Defaults, SettingFields
  <1> QED
    BY <1>1, <1>2, <1>4, <1>6, <1>7, <1>9, <1>10, <1>11
    DEF ConfigInv, SaveUnderWay, WholeFile, CutFile, CleanFile

\* ... after each step of the configuration ...
LEMMA ConfigStep == ConfigInv /\ C!Next => ConfigInv'
  BY LoadStep, SaveStep, ChangeStep DEF C!Next

\* ... and while another component runs.
LEMMA ConfigStutter == ConfigInv /\ UNCHANGED configVars => ConfigInv'
  BY DEF ConfigInv, configVars, Fit, Same, SaveUnderWay, WholeFile, CutFile, CleanFile

\* For any number of tokens, consoles and hosts: a login that is not in the file is due to
\* be saved and a refresh under way has its thread, unless the connection thread renews a
\* token in the midst of a save; the program runs with the consoles, the setting and the
\* login of the user, whatever version wrote the file and wherever a save was cut short
\* (psn_auth.c, 974-1040, 1375-1579; config.c, 156-685; config_hosts.c, 51-285).
THEOREM AccountIsKept ==
    ASSUME Racing = FALSE
    PROVE  Spec => []AccountKept
  <1> DEFINE Inv == AccountInv /\ ConfigInv
  <1>1. Init => Inv
    BY AccountInit, ConfigInit DEF Init
  <1>2. Inv /\ [Next]_vars => Inv'
    BY BenchStep, AccountStep, AccountStutter, ConfigStep, ConfigStutter, Racing = FALSE
  <1>3. Inv => AccountKept
    BY DEF AccountInv, Saved, ConfigInv, Same, CleanFile, AccountKept, P!NothingUnsaved,
       P!RefreshEnds, C!ConfigIsTheUsers, C!NoStaleTokens
  <1> QED
    BY <1>1, <1>2, <1>3, PTL DEF Spec

-----------------------------------------------------------------------------
(* The ring of the audio output *)

\* Quotient and remainder are determined by the number.
LEMMA Divided ==
    ASSUME NEW n \in Nat \ {0}, NEW q \in Int, NEW r \in 0 .. n - 1
    PROVE  (n * q + r) % n = r /\ (n * q + r) \div n = q
  OBVIOUS

\* The remainders of numbers close to 0.
LEMMA RemaindersNear ==
    ASSUME NEW n \in Nat \ {0}, NEW r \in 0 .. n - 1
    PROVE  r % n = r /\ (r + n) % n = r /\ (r - n) % n = r
  <1>1. r = n * 0 + r /\ r + n = n * 1 + r /\ r - n = n * (-1) + r
    OBVIOUS
  <1> QED
    BY <1>1, Divided

\* Where blocks lie in the ring.
LEMMA BlocksOfRing ==
    /\ DeviceBuffers \in Nat \ {0, 1} /\ BlockFrames \in Nat \ {0}
    /\ O!Ring \in Nat \ {0} /\ BlockFrames <= O!Ring /\ O!Numbers = 2 * O!Ring
    /\ \A d \in 0 .. DeviceBuffers - 1 :
           /\ d * BlockFrames \in 0 .. O!Ring - BlockFrames
           /\ d + 1 < DeviceBuffers => (d + 1) * BlockFrames = d * BlockFrames + BlockFrames
           /\ d + 1 = DeviceBuffers => d * BlockFrames + BlockFrames = O!Ring
  <1>1. DeviceBuffers \in Nat \ {0, 1} /\ BlockFrames \in Nat \ {0}
    BY MCClientAssumption DEF O!OutputAssumption
  <1>2. O!Ring \in Nat \ {0} /\ BlockFrames <= O!Ring /\ O!Numbers = 2 * O!Ring
    BY <1>1 DEF O!Ring, O!Numbers
  <1>3. ASSUME NEW d \in 0 .. DeviceBuffers - 1
        PROVE  /\ d * BlockFrames \in 0 .. O!Ring - BlockFrames
               /\ (d + 1) * BlockFrames = d * BlockFrames + BlockFrames
               /\ d + 1 = DeviceBuffers => d * BlockFrames + BlockFrames = O!Ring
    <2>1. PICK k \in Nat : DeviceBuffers = d + 1 + k
      <3>1. DeviceBuffers - d - 1 \in Nat /\ DeviceBuffers = d + 1 + (DeviceBuffers - d - 1)
        BY <1>1
      <3> QED
        BY <3>1
    <2>2. O!Ring = d * BlockFrames + BlockFrames + k * BlockFrames
      BY <1>1, <2>1 DEF O!Ring
    <2>3. d * BlockFrames \in Nat /\ k * BlockFrames \in Nat /\ (k = 0 => k * BlockFrames = 0)
      BY <1>1
    <2>4. (d + 1) * BlockFrames = d * BlockFrames + BlockFrames
      BY <1>1
    <2>5. d + 1 = DeviceBuffers => k = 0
      BY <1>1, <2>1
    <2> QED
      BY <1>1, <1>2, <2>2, <2>3, <2>4, <2>5
  <1> QED
    BY <1>1, <1>2, <1>3

\* The reader that catches up goes to the block before the writer.
LEMMA CatchesUp ==
    ASSUME NEW d \in 0 .. DeviceBuffers - 1
    PROVE  /\ O!CatchUp(d * BlockFrames) \in 0 .. DeviceBuffers - 1
           /\ (O!CatchUp(d * BlockFrames) + 1) % DeviceBuffers = d
           /\ (d * BlockFrames) % BlockFrames = 0
           /\ O!CatchUp(d * BlockFrames) = IF d = 0 THEN DeviceBuffers - 1 ELSE d - 1
  <1>1. /\ DeviceBuffers \in Nat \ {0, 1} /\ BlockFrames \in Nat \ {0} /\ O!Ring \in Nat \ {0}
        /\ O!Ring = BlockFrames * DeviceBuffers
    BY BlocksOfRing DEF O!Ring
  <1>2. (d * BlockFrames) % BlockFrames = 0
    <2>1. d * BlockFrames = BlockFrames * d + 0 /\ 0 \in 0 .. BlockFrames - 1
      BY <1>1
    <2> QED
      BY <1>1, <2>1, Divided
  <1>3. CASE d = 0
    <2>1. d * BlockFrames - 1 + O!Ring = O!Ring - 1 /\ O!Ring - 1 \in 0 .. O!Ring - 1
      BY <1>1, <1>3
    <2>2. (O!Ring - 1) % O!Ring = O!Ring - 1
      BY <1>1, <2>1, RemaindersNear
    <2>3. /\ O!Ring - 1 = BlockFrames * (DeviceBuffers - 1) + (BlockFrames - 1)
          /\ BlockFrames - 1 \in 0 .. BlockFrames - 1 /\ DeviceBuffers - 1 \in Int
      BY <1>1
    <2>4. (O!Ring - 1) \div BlockFrames = DeviceBuffers - 1
      BY <1>1, <2>3, Divided
    <2>5. O!CatchUp(d * BlockFrames) = DeviceBuffers - 1
      BY <2>1, <2>2, <2>4 DEF O!CatchUp, O!BlockOf
    <2>6. (DeviceBuffers - 1 + 1) % DeviceBuffers = 0
      <3>1. DeviceBuffers - 1 + 1 = 0 + DeviceBuffers /\ 0 \in 0 .. DeviceBuffers - 1
        BY <1>1
      <3> QED
        BY <1>1, <3>1, RemaindersNear
    <2> QED
      BY <1>1, <1>2, <1>3, <2>5, <2>6
  <1>4. CASE d # 0
    <2> DEFINE s == d * BlockFrames
    <2>1. s \in 1 .. O!Ring - 1 /\ s - 1 = BlockFrames * (d - 1) + (BlockFrames - 1)
      <3>1. s \in 0 .. O!Ring - BlockFrames /\ s = BlockFrames * (d - 1) + BlockFrames
        BY <1>1, BlocksOfRing
      <3>2. BlockFrames * (d - 1) \in Nat
        BY <1>1, <1>4
      <3> HIDE DEF s
      <3> QED
        BY <1>1, <3>1, <3>2
    <2>2. (s - 1 + O!Ring) % O!Ring = s - 1
      <3> HIDE DEF s
      <3>1. s - 1 \in 0 .. O!Ring - 1
        BY <1>1, <2>1
      <3> QED
        BY <1>1, <3>1, RemaindersNear
    <2>3. (s - 1) \div BlockFrames = d - 1
      <3>1. BlockFrames - 1 \in 0 .. BlockFrames - 1 /\ d - 1 \in Int
        BY <1>1
      <3> QED
        BY <1>1, <2>1, <3>1, Divided
    <2>4. O!CatchUp(s) = d - 1
      BY <2>2, <2>3 DEF O!CatchUp, O!BlockOf
    <2>5. (d - 1 + 1) % DeviceBuffers = d
      <3>1. d - 1 + 1 = d
        BY <1>1
      <3> QED
        BY <1>1, <3>1, RemaindersNear
    <2> QED
      BY <1>1, <1>2, <1>4, <2>4, <2>5
  <1> QED
    BY <1>3, <1>4

\* How many frames ago a place of the ring was written, if the next place is w ...
Behind(w, p) == IF p < w THEN w - p ELSE w - p + O!Ring

\* ... and the number of the frame written there, if the next one has number c.
Number(w, c, p) == IF (c = w /\ p < w) \/ (c # w /\ p >= w) THEN p ELSE p + O!Ring

\* Both offsets and the counted distance fit together.
Apart(w, d, diff) ==
    d * BlockFrames + diff = w \/ d * BlockFrames + diff = w + O!Ring

\* The last n frames are in their places.
Holds(content, w, c, n) ==
    \A p \in 0 .. O!Ring - 1 : Behind(w, p) <= n => content[p] = Number(w, c, p)

\* The inductive invariant of the ring.
RingInv ==
    /\ writeOffset \in 0 .. O!Ring - 1 /\ deviceOffset \in 0 .. DeviceBuffers - 1
    /\ framediff \in 0 .. O!Ring - 1
    /\ count = writeOffset \/ count = writeOffset + O!Ring
    /\ Apart(writeOffset, deviceOffset, framediff)
    /\ DOMAIN buffer = 0 .. O!Ring - 1
    /\ Holds(buffer, writeOffset, count, framediff)
    /\ O!BlocksWhole

\* A frame is written.
LEMMA FrameWritten ==
    ASSUME RingInv, NEW w, w = (writeOffset + 1) % O!Ring, NEW c, c = (count + 1) % O!Numbers,
           NEW content, content = [buffer EXCEPT ![writeOffset] = count]
    PROVE  /\ w \in 0 .. O!Ring - 1 /\ (c = w \/ c = w + O!Ring)
           /\ framediff + 1 = O!Ring => w = deviceOffset * BlockFrames
           /\ framediff + 1 < O!Ring => Apart(w, deviceOffset, framediff + 1)
           /\ DOMAIN content = 0 .. O!Ring - 1
           /\ Holds(content, w, c, framediff + 1)
  <1> DEFINE ring == O!Ring
             s == deviceOffset * BlockFrames
  <1>1. /\ ring \in Nat \ {0} /\ O!Numbers = 2 * ring
        /\ s \in 0 .. ring - BlockFrames /\ BlockFrames \in Nat
        /\ BlockFrames > 0
    BY BlocksOfRing DEF RingInv
  <1>2. /\ writeOffset \in 0 .. ring - 1 /\ framediff \in 0 .. ring - 1
        /\ count = writeOffset \/ count = writeOffset + ring
        /\ s + framediff = writeOffset \/ s + framediff = writeOffset + ring
    BY DEF RingInv, Apart
  <1>3. w = IF writeOffset + 1 = ring THEN 0 ELSE writeOffset + 1
    <2>1. CASE writeOffset + 1 = ring
      <3>1. writeOffset + 1 = 0 + ring /\ 0 \in 0 .. ring - 1
        BY <1>1, <2>1
      <3> QED
        BY <1>1, <2>1, <3>1, RemaindersNear
    <2>2. CASE writeOffset + 1 # ring
      <3>1. writeOffset + 1 \in 0 .. ring - 1
        BY <1>1, <1>2, <2>2
      <3> QED
        BY <1>1, <2>2, <3>1, RemaindersNear
    <2> QED
      BY <2>1, <2>2
  <1>4. c = IF count + 1 = 2 * ring THEN 0 ELSE count + 1
    <2> DEFINE N == 2 * ring
    <2>0. N \in Nat \ {0} /\ count \in 0 .. N - 1 /\ c = (count + 1) % N
      BY <1>1, <1>2
    <2>1. CASE count + 1 = N
      <3>1. count + 1 = 0 + N /\ 0 \in 0 .. N - 1
        BY <2>0, <2>1
      <3> HIDE DEF N
      <3>2. c = 0
        BY <2>0, <3>1, RemaindersNear
      <3> QED
        BY <2>1, <3>2 DEF N
    <2>2. CASE count + 1 # N
      <3>1. count + 1 \in 0 .. N - 1
        BY <2>0, <2>2
      <3> HIDE DEF N
      <3>2. c = count + 1
        BY <2>0, <3>1, RemaindersNear
      <3> QED
        BY <2>2, <3>2 DEF N
    <2> QED
      BY <2>1, <2>2
  <1>5. Holds(content, w, c, framediff + 1) /\ DOMAIN content = 0 .. ring - 1
    <2>1. DOMAIN content = 0 .. ring - 1
      BY DEF RingInv
    <2>2. ASSUME NEW p \in 0 .. ring - 1, Behind(w, p) <= framediff + 1
          PROVE  content[p] = Number(w, c, p)
      <3>1. CASE p = writeOffset
        <4>1. content[p] = count
          BY <2>1, <2>2, <3>1 DEF RingInv
        <4>2. Number(w, c, p) = count
          BY <1>1, <1>2, <1>3, <1>4, <3>1 DEF Number
        <4> QED
          BY <4>1, <4>2
      <3>2. CASE p # writeOffset
        <4>1. content[p] = buffer[p]
          BY <3>2, <2>2 DEF RingInv
        <4>2. Behind(writeOffset, p) <= framediff
          BY <1>1, <1>2, <1>3, <2>2, <3>2 DEF Behind
        <4>3. Number(w, c, p) = Number(writeOffset, count, p)
          BY <1>1, <1>2, <1>3, <1>4, <2>2, <3>2 DEF Number
        <4> QED
          BY <2>2, <4>1, <4>2, <4>3 DEF RingInv, Holds
      <3> QED
        BY <3>1, <3>2
    <2> QED
      BY <2>1, <2>2 DEF Holds
  <1>6. w \in 0 .. ring - 1 /\ (c = w \/ c = w + ring)
    BY <1>1, <1>2, <1>3, <1>4
  <1>7. framediff + 1 = ring => w = s
    BY <1>1, <1>2, <1>3
  <1>8. framediff + 1 < ring => s + (framediff + 1) = w \/ s + (framediff + 1) = w + ring
    <2> HIDE DEF ring, s
    <2>1. s \in Int /\ framediff \in Int /\ writeOffset \in Int /\ ring \in Int /\ s < ring
      BY <1>1, <1>2
    <2>2. CASE writeOffset + 1 = ring
      BY <1>2, <1>3, <2>1, <2>2
    <2>3. CASE writeOffset + 1 # ring
      BY <1>2, <1>3, <2>1, <2>3
    <2> QED
      BY <2>2, <2>3
  <1>9. framediff + 1 < ring => Apart(w, deviceOffset, framediff + 1)
    BY <1>8 DEF Apart
  <1> QED
    BY <1>5, <1>6, <1>7, <1>9

\* A block of frames that are in their places is whole.
LEMMA BlockIsWhole ==
    ASSUME NEW b \in 0 .. DeviceBuffers - 1, NEW w \in 0 .. O!Ring - 1,
           NEW c, c = w \/ c = w + O!Ring, NEW content, NEW n, Holds(content, w, c, n),
           \A i \in 0 .. BlockFrames - 1 : Behind(w, b * BlockFrames + i) <= n,
           \/ \A i \in 0 .. BlockFrames - 1 : b * BlockFrames + i < w
           \/ \A i \in 0 .. BlockFrames - 1 : b * BlockFrames + i >= w,
           count' = c, played' = O!BlockAt(b, content)
    PROVE  O!BlocksWhole'
  <1> DEFINE ring == O!Ring
             s == b * BlockFrames
  <1>1. ring \in Nat \ {0} /\ O!Numbers = 2 * ring /\ s \in 0 .. ring - BlockFrames
        /\ BlockFrames \in Nat \ {0}
    BY BlocksOfRing
  <1>2. ASSUME NEW i \in 0 .. BlockFrames - 1
        PROVE  /\ played'[i] = Number(w, c, s + i) /\ s + i \in 0 .. ring - 1
    <2>1. s + i \in 0 .. ring - 1
      BY <1>1
    <2>2. played'[i] = content[b * BlockFrames + i]
      BY DEF O!BlockAt
    <2> QED
      BY <2>1, <2>2 DEF Holds
  <1>3. PICK m \in {0, ring} : \A i \in 0 .. BlockFrames - 1 : Number(w, c, s + i) = s + i + m
    <2> HIDE DEF s, ring
    <2>0. \A i \in 0 .. BlockFrames - 1 : s + i \in Int /\ s + i + 0 = s + i
      BY <1>1
    <2>1. CASE c = w /\ \A i \in 0 .. BlockFrames - 1 : s + i < w
      BY <2>0, <2>1 DEF Number, ring
    <2>2. CASE c # w /\ \A i \in 0 .. BlockFrames - 1 : s + i < w
      BY <1>1, <2>0, <2>2 DEF Number, ring
    <2>3. CASE c = w /\ \A i \in 0 .. BlockFrames - 1 : s + i >= w
      BY <1>1, <2>0, <2>3 DEF Number, ring
    <2>4. CASE c # w /\ \A i \in 0 .. BlockFrames - 1 : s + i >= w
      BY <1>1, <2>0, <2>4 DEF Number, ring
    <2> QED
      BY <2>1, <2>2, <2>3, <2>4 DEF s
  <1>4. ASSUME NEW i \in 0 .. BlockFrames - 1
        PROVE  /\ played'[i] # O!None
               /\ played'[i] = (played'[0] + i) % O!Numbers
               /\ (c - 1 - played'[i]) % O!Numbers < ring
    <2> DEFINE N == 2 * ring
               p == s + i + m
    <2>1. played'[i] = p /\ played'[0] = s + m /\ 0 \in 0 .. BlockFrames - 1
      BY <1>1, <1>2, <1>3
    <2>2. p \in 0 .. N - 1 /\ N \in Nat \ {0} /\ (s + m) + i = p
      BY <1>1, <1>3
    <2>3. p % N = p
      <3> HIDE DEF N, p
      <3> QED
        BY <2>2, RemaindersNear
    <2>4. PICK j \in 0 .. ring - 1 : c - 1 - p = j \/ c - 1 - p = j - N
      <3>1. p = Number(w, c, s + i) /\ s + i \in 0 .. ring - 1
        BY <1>2, <1>3
      <3>2. (c - 1 - p) \in 0 .. ring - 1 \/ (c - 1 - p + N) \in 0 .. ring - 1
        BY <1>1, <3>1 DEF Number
      <3>3. c - 1 - p = (c - 1 - p + N) - N
        BY <1>1, <2>2
      <3> HIDE DEF p, N
      <3> QED
        BY <3>2, <3>3
    <2>5. (c - 1 - p) % N < ring
      <3> HIDE DEF p
      <3>1. j \in 0 .. N - 1
        BY <1>1
      <3> HIDE DEF N
      <3>2. (c - 1 - p) % N = j
        BY <2>2, <2>4, <3>1, RemaindersNear
      <3> QED
        BY <1>1, <3>2
    <2>6. p # O!None
      BY <2>2 DEF O!None
    <2> HIDE DEF p
    <2> QED
      BY <1>1, <2>1, <2>2, <2>3, <2>5, <2>6
  <1> QED
    BY <1>4 DEF O!BlocksWhole

\* A frame of sound keeps the ring in order.
LEMMA CbStep ==
    ASSUME RingInv, NEW idle, O!Cb(idle)
    PROVE  RingInv'
  <1> DEFINE ring == O!Ring
             B == BlockFrames
             w == (writeOffset + 1) % O!Ring
             c == (count + 1) % O!Numbers
             diff == framediff + 1
             content == [buffer EXCEPT ![writeOffset] = count]
             s == deviceOffset * BlockFrames
  <1>1. /\ ring \in Nat \ {0} /\ O!Numbers = 2 * ring /\ B \in Nat \ {0} /\ B <= ring
        /\ DeviceBuffers \in Nat \ {0, 1} /\ s \in 0 .. ring - B
        /\ deviceOffset \in 0 .. DeviceBuffers - 1 /\ diff \in 1 .. ring
    <2>1. /\ ring \in Nat \ {0} /\ O!Numbers = 2 * ring /\ B \in Nat \ {0} /\ B <= ring
          /\ DeviceBuffers \in Nat \ {0, 1}
      BY BlocksOfRing
    <2>2. deviceOffset \in 0 .. DeviceBuffers - 1 /\ framediff \in 0 .. ring - 1
      BY DEF RingInv
    <2>3. s \in 0 .. ring - B
      BY <2>2, BlocksOfRing
    <2> HIDE DEF s, ring
    <2> QED
      BY <2>1, <2>2, <2>3
  <1>2. /\ w \in 0 .. ring - 1 /\ (c = w \/ c = w + ring)
        /\ diff = ring => w = s
        /\ diff < ring => Apart(w, deviceOffset, diff)
        /\ DOMAIN content = 0 .. ring - 1
        /\ Holds(content, w, c, diff)
    <2> HIDE DEF w, c, content
    <2> QED
      BY FrameWritten DEF w, c, content
  <1>3. /\ writeOffset' = w /\ count' = c /\ buffer' = content
    BY DEF O!Cb
  <1>4. CASE diff < ring /\ diff >= B /\ idle
    <2>1. /\ played' = O!BlockAt(deviceOffset, content) /\ framediff' = diff - B
          /\ deviceOffset' = (deviceOffset + 1) % DeviceBuffers
      BY <1>1, <1>4 DEF O!Cb, O!Overtaken
    <2>2. s + diff = w \/ s + diff = w + ring
      BY <1>2, <1>4 DEF Apart
    <2> HIDE DEF w, c, content, s, ring
    <2>3. /\ deviceOffset' \in 0 .. DeviceBuffers - 1
          /\ deviceOffset' * B \in Int
          /\ \/ deviceOffset' * B = 0 /\ s + B = ring
             \/ deviceOffset' * B = s + B
      <3>1. CASE deviceOffset + 1 = DeviceBuffers
        <4>1. deviceOffset + 1 = 0 + DeviceBuffers /\ 0 \in 0 .. DeviceBuffers - 1
          BY <1>1, <3>1
        <4>2. deviceOffset' = 0
          BY <1>1, <2>1, <4>1, RemaindersNear
        <4> QED
          BY <1>1, <3>1, <4>2, BlocksOfRing DEF s, ring
      <3>2. CASE deviceOffset + 1 # DeviceBuffers
        <4>1. deviceOffset + 1 \in 0 .. DeviceBuffers - 1
          BY <1>1, <3>2
        <4>2. deviceOffset' = deviceOffset + 1
          BY <1>1, <2>1, <4>1, RemaindersNear
        <4> QED
          BY <1>1, <3>2, <4>1, <4>2, BlocksOfRing DEF s, ring
      <3> QED
        BY <3>1, <3>2
    <2>4. PICK t \in Int : t = deviceOffset' * B
      BY <1>1, <2>3
    <2>5. t + (diff - B) = w \/ t + (diff - B) = w + ring
      <3>1. \/ t = 0 /\ s + B = ring
            \/ t = s + B
        BY <2>3, <2>4
      <3>2. s \in Int /\ w \in Int /\ ring \in Int /\ B \in Int /\ diff \in Int
            /\ w < ring /\ B <= diff
        BY <1>1, <1>2, <1>4
      <3> HIDE DEF diff
      <3>3. CASE t = s + B
        BY <2>2, <3>2, <3>3
      <3>4. CASE t = 0 /\ s + B = ring
        BY <2>2, <3>2, <3>4
      <3> QED
        BY <3>1, <3>3, <3>4
    <2>6. Holds(content, w, c, diff - B)
      BY <1>1, <1>2 DEF Holds, Behind, ring
    <2>7. \A i \in 0 .. B - 1 : Behind(w, s + i) <= diff
      BY <1>1, <1>2, <1>4, <2>2 DEF Behind, ring
    <2>8. (\A i \in 0 .. B - 1 : s + i < w) \/ (\A i \in 0 .. B - 1 : s + i >= w)
      BY <1>1, <1>2, <1>4, <2>2
    <2>9. O!BlocksWhole'
      BY <1>1, <1>2, <1>3, <2>1, <2>7, <2>8, BlockIsWhole DEF s, ring
    <2>10. Apart(w, deviceOffset', diff - B)
      BY <2>4, <2>5 DEF Apart, ring
    <2>11. diff - B \in 0 .. ring - 1
      BY <1>1, <1>4
    <2> QED
      BY <1>2, <1>3, <2>1, <2>3, <2>6, <2>9, <2>10, <2>11 DEF RingInv, ring
  <1>5. CASE diff = ring
    <2> DEFINE b == O!CatchUp(w)
    <2>1. w = s
      BY <1>2, <1>5
    <2>2. /\ b \in 0 .. DeviceBuffers - 1 /\ (b + 1) % DeviceBuffers = deviceOffset
          /\ w % B = 0 /\ b = IF deviceOffset = 0 THEN DeviceBuffers - 1 ELSE deviceOffset - 1
      BY <1>1, <2>1, CatchesUp
    <2>3. /\ played' = O!BlockAt(b, content) /\ deviceOffset' = deviceOffset
          /\ framediff' = 0
      <3>1. /\ played' = O!BlockAt(b, content) /\ deviceOffset' = (b + 1) % DeviceBuffers
            /\ framediff' = B + (w % B) - B
        BY <1>1, <1>5 DEF O!Cb, O!Overtaken
      <3> QED
        BY <1>1, <2>2, <3>1
    <2> HIDE DEF w, c, content, s, ring, b
    <2>4. Apart(w, deviceOffset, 0)
      BY <1>1, <2>1 DEF Apart, s
    <2>5. Holds(content, w, c, 0)
      BY <1>1, <1>2 DEF Holds, Behind, ring
    <2>6. PICK t \in Int : t = b * B /\ IF deviceOffset = 0 THEN w = 0 ELSE t + B = w
      <3>1. deviceOffset = 0 => w = 0
        BY <1>1, <2>1 DEF s
      <3>2. deviceOffset # 0 => b + 1 = deviceOffset /\ b + 1 < DeviceBuffers
        BY <1>1, <2>2
      <3>3. deviceOffset # 0 => deviceOffset * B = b * B + B
        BY <2>2, <3>2, BlocksOfRing
      <3>4. b * B \in Int
        BY <2>2, <1>1
      <3> QED
        BY <2>1, <3>1, <3>3, <3>4 DEF s
    <2>7. t \in 0 .. ring - B
      BY <2>2, <2>6, BlocksOfRing DEF ring
    <2>8. \A i \in 0 .. B - 1 : Behind(w, t + i) <= diff
      BY <1>1, <1>2, <1>5, <2>7 DEF Behind, ring
    <2>9. (\A i \in 0 .. B - 1 : t + i < w) \/ (\A i \in 0 .. B - 1 : t + i >= w)
      BY <1>1, <1>2, <2>6, <2>7
    <2>10. O!BlocksWhole'
      BY <1>2, <1>3, <2>2, <2>3, <2>6, <2>8, <2>9, BlockIsWhole DEF ring
    <2> QED
      BY <1>1, <1>2, <1>3, <2>3, <2>4, <2>5, <2>10 DEF RingInv, ring
  <1>6. CASE diff < ring /\ ~(diff >= B /\ idle)
    <2>1. played' = << >> /\ framediff' = diff /\ deviceOffset' = deviceOffset
      BY <1>1, <1>6 DEF O!Cb, O!Overtaken
    <2>2. O!BlocksWhole'
      BY <2>1 DEF O!BlocksWhole
    <2> HIDE DEF w, c, content, s, ring
    <2> QED
      BY <1>1, <1>2, <1>3, <1>6, <2>1, <2>2 DEF RingInv, ring
  <1> QED
    BY <1>1, <1>4, <1>5, <1>6

LEMMA SoundStep == RingInv /\ O!Next => RingInv'
  <1>1. ASSUME O!Cleanup
        PROVE  RingInv'
    <2>1. /\ O!Ring \in Nat \ {0} /\ DeviceBuffers \in Nat \ {0, 1} /\ BlockFrames \in Nat \ {0}
      BY BlocksOfRing
    <2>2. /\ writeOffset' = 0 /\ deviceOffset' = 0 /\ framediff' = 0 /\ count' = 0
          /\ played' = << >> /\ DOMAIN buffer' = 0 .. O!Ring - 1
      BY <1>1 DEF O!Cleanup, O!Places
    <2>3. Apart(0, 0, 0)
      BY <2>1 DEF Apart
    <2>4. \A p \in 0 .. O!Ring - 1 : ~(Behind(0, p) <= 0)
      BY <2>1 DEF Behind
    <2> QED
      BY <2>1, <2>2, <2>3, <2>4 DEF RingInv, Holds, O!BlocksWhole
  <1> QED
    BY <1>1, CbStep DEF O!Next

LEMMA SoundInit == O!Init => RingInv
  <1> SUFFICES ASSUME O!Init PROVE RingInv
    OBVIOUS
  <1>1. /\ O!Ring \in Nat \ {0} /\ DeviceBuffers \in Nat \ {0, 1} /\ BlockFrames \in Nat \ {0}
    BY BlocksOfRing
  <1>2. /\ writeOffset = 0 /\ deviceOffset = 0 /\ framediff = 0 /\ count = 0
        /\ played = << >> /\ DOMAIN buffer = 0 .. O!Ring - 1
    BY DEF O!Init, O!InitBuffer, O!Places
  <1>3. Apart(0, 0, 0)
    BY <1>1 DEF Apart
  <1>4. \A p \in 0 .. O!Ring - 1 : ~(Behind(0, p) <= 0)
    BY <1>1 DEF Behind
  <1> QED
    BY <1>1, <1>2, <1>3, <1>4 DEF RingInv, Holds, O!BlocksWhole

LEMMA SoundStutter == RingInv /\ UNCHANGED soundVars => RingInv'
  BY DEF RingInv, soundVars, Apart, Holds, O!BlocksWhole

LEMMA SoundPromise == RingInv => O!InStep /\ O!BlocksWhole
  <1> SUFFICES ASSUME RingInv PROVE O!InStep
    BY DEF RingInv
  <1> DEFINE x == writeOffset - deviceOffset * BlockFrames
  <1>1. O!Ring \in Nat \ {0} /\ deviceOffset * BlockFrames \in Int
    BY BlocksOfRing DEF RingInv
  <1>2. x = framediff \/ x = framediff - O!Ring
    BY <1>1 DEF RingInv, Apart
  <1>3. framediff \in 0 .. O!Ring - 1
    BY DEF RingInv
  <1> HIDE DEF x
  <1>4. x % O!Ring = framediff
    BY <1>1, <1>2, <1>3, RemaindersNear
  <1> QED
    BY <1>4 DEF O!InStep, x

-----------------------------------------------------------------------------
(* The audio receiver *)

\* What is used of the assumptions on the audio.
LEMMA AudioConstants ==
    /\ AudioNum!ModulusAssumption
    /\ AudioModulus \in Nat \ {0} /\ A!Half \in Nat \ {0} /\ AudioModulus = 2 * A!Half
    /\ AudioSource \in Nat \ {0} /\ AudioFec \in Nat /\ Reach \in Nat
    /\ Reach + AudioSource + AudioFec < A!Half
    /\ AudioNum!Half = A!Half
  <1>1. A!ModulusAssumption /\ A!AudioAssumption
    BY MCClientAssumption
  <1>2. AudioNum!ModulusAssumption /\ AudioNum!Half = A!Half
    BY <1>1 DEF A!ModulusAssumption, AudioNum!ModulusAssumption, A!Half, AudioNum!Half
  <1>3. AudioModulus = 2 * A!Half
    BY <1>1, <1>2, AudioNum!ModulusFacts
  <1> QED
    BY <1>1, <1>2, <1>3, AudioNum!ModulusFacts DEF A!AudioAssumption

\* The function that PlayLoop is defined by.
IsPlayLoop(f, fs, n) ==
    f = [i \in 0 .. n |->
            IF i = 0 THEN [prev |-> prev, played |-> << >>]
            ELSE IF fs[i] # A!None /\ A!Playable(fs[i], f[i - 1].prev)
                 THEN [prev |-> fs[i], played |-> Append(f[i - 1].played, fs[i])]
            ELSE f[i - 1]]

\* It exists ...
LEMMA PlayLoopExists ==
    ASSUME NEW fs, NEW n \in Nat
    PROVE  \E f : IsPlayLoop(f, fs, n)
  <1> DEFINE zero == [prev |-> prev, played |-> << >>]
             Step(a, i) == IF fs[i] # A!None /\ A!Playable(fs[i], a.prev)
                           THEN [prev |-> fs[i], played |-> Append(a.played, fs[i])] ELSE a
             S == {m \in Nat : \E f :
                           f = [i \in 0 .. m |-> IF i = 0 THEN zero ELSE Step(f[i - 1], i)]}
  <1> HIDE DEF Step, zero
  <1>1. 0 \in S
    <2> DEFINE g == [i \in 0 .. 0 |-> zero]
               h == [i \in 0 .. 0 |-> IF i = 0 THEN zero ELSE Step(g[i - 1], i)]
    <2>1. \A i \in 0 .. 0 : i = 0
      OBVIOUS
    <2>2. g = h
      BY <2>1
    <2> HIDE DEF g
    <2> QED
      BY <2>2
  <1>2. ASSUME NEW m \in Nat, m \in S
        PROVE  m + 1 \in S
    <2>1. PICK f : f = [i \in 0 .. m |-> IF i = 0 THEN zero ELSE Step(f[i - 1], i)]
      BY <1>2
    <2> DEFINE new == Step(f[m], m + 1)
               g == [i \in 0 .. m + 1 |-> IF i = m + 1 THEN new ELSE f[i]]
               h == [i \in 0 .. m + 1 |-> IF i = 0 THEN zero ELSE Step(g[i - 1], i)]
    <2>2. \A i \in 0 .. m : f[i] = IF i = 0 THEN zero ELSE Step(f[i - 1], i)
      BY <2>1
    <2>3. ASSUME NEW i \in 0 .. m + 1
          PROVE  g[i] = h[i]
      <3>1. CASE i = 0
        BY <2>2, <3>1
      <3>2. CASE i = m + 1
        <4>1. g[i - 1] = f[m]
          BY <3>2
        <4> QED
          BY <3>2, <4>1
      <3>3. CASE i # 0 /\ i # m + 1
        <4>1. i - 1 \in 0 .. m /\ i \in 0 .. m
          BY <3>3
        <4>2. g[i - 1] = f[i - 1] /\ g[i] = f[i]
          BY <4>1, <3>3
        <4> QED
          BY <4>1, <4>2, <2>2, <3>3
      <3> QED
        BY <3>1, <3>2, <3>3
    <2>4. g = h
      <3> HIDE DEF new
      <3>1. g = [i \in 0 .. m + 1 |-> g[i]] /\ h = [i \in 0 .. m + 1 |-> h[i]]
        OBVIOUS
      <3> HIDE DEF g, h
      <3> QED
        BY <3>1, <2>3
    <2>5. m + 1 \in Nat /\ g = [i \in 0 .. m + 1 |-> IF i = 0 THEN zero ELSE Step(g[i - 1], i)]
      BY <2>4
    <2> HIDE DEF g
    <2> QED
      BY <2>5
  <1> HIDE DEF S
  <1>3. n \in S
    <2>1. S \in SUBSET Nat
      BY DEF S
    <2> QED
      BY <1>1, <1>2, <2>1, Sub!Induction
  <1> QED
    BY <1>3 DEF S, Step, zero, IsPlayLoop

\* ... so that PlayLoop is this function.
LEMMA PlayLoopDef ==
    ASSUME NEW fs, Len(fs) \in Nat
    PROVE  IsPlayLoop(A!PlayLoop(fs), fs, Len(fs))
  <1> DEFINE f == CHOOSE f : IsPlayLoop(f, fs, Len(fs))
  <1>1. IsPlayLoop(f, fs, Len(fs))
    BY PlayLoopExists
  <1>2. A!PlayLoop(fs) = f
    BY DEF A!PlayLoop, IsPlayLoop
  <1> QED
    BY <1>1, <1>2

\* The number of the frame that was recorded k frames before the one that comes after the
\* newest packet.
Recorded(k) == ((sent + AudioSource) - k) % AudioModulus

\* A number is of age k, or nothing is known of it since it is too old.
OfAge(n, k) ==
    /\ n \in A!SeqNums
    /\ k = AudioModulus \/ (k \in 0 .. AudioModulus - 1 /\ n = Recorded(k))

\* The frame of a unit: none, or one that is not too old.
Unit(n) == n = A!None \/ \E k \in 1 .. A!Half - 1 : n = Recorded(k)

\* What a unit says about its frame.
LEMMA UnitsAge ==
    ASSUME NEW k \in 1 .. A!Half - 1, sent \in Nat
    PROVE  /\ Recorded(k) \in A!SeqNums /\ A!Age(Recorded(k)) = k
  <1> DEFINE M == AudioModulus
             x == sent + AudioSource
             y == x - k
             q == y \div M
             r == y % M
  <1>0. /\ M \in Nat \ {0} /\ x \in Int /\ y \in Int /\ k \in 0 .. M - 1
    BY AudioConstants
  <1>1. r \in 0 .. M - 1 /\ q \in Int /\ y = M * q + r
    BY <1>0, AudioConstants, AudioNum!Division
  <1>2. Recorded(k) = r
    BY <1>0 DEF Recorded
  <1>3. x - r = M * q + k
    <2> DEFINE z == M * q
    <2>1. z \in Int /\ x - k = z + r
      BY <1>0, <1>1
    <2> HIDE DEF z, x, r, y
    <2> QED
      BY <1>0, <1>1, <2>1 DEF z
  <1>4. (x - r) % M = k
    <2> DEFINE z == x - r
    <2>1. z = M * q + k
      BY <1>3
    <2> HIDE DEF z, q
    <2>2. z % M = k
      BY <1>0, <1>1, <2>1, Divided
    <2> QED
      BY <2>2 DEF z
  <1>5. A!Age(Recorded(k)) = (x - r) % M
    <2>1. sent + (AudioSource - r) = x - r
      BY <1>0, <1>1, AudioConstants
    <2> HIDE DEF r
    <2> QED
      BY <1>2, <2>1 DEF A!Age
  <1> QED
    BY <1>1, <1>2, <1>4, <1>5 DEF A!SeqNums

\* A frame that is played is younger than the one before.
LEMMA PlayedIsYounger ==
    ASSUME sent \in Nat, NEW k \in 1 .. A!Half - 1, NEW p, NEW a, OfAge(p, a),
           A!Playable(Recorded(k), p)
    PROVE  k < a
  <1> DEFINE x == sent + AudioSource
  <1>0. /\ AudioModulus \in Nat \ {0} /\ AudioModulus = 2 * A!Half
        /\ A!Half \in Nat \ {0} /\ x \in Int
        /\ AudioNum!ModulusAssumption /\ AudioNum!Half = A!Half
    BY AudioConstants
  <1>1. CASE a = AudioModulus
    BY <1>0, <1>1
  <1>2. CASE a \in 0 .. AudioModulus - 1 /\ p = Recorded(a)
    <2>1. CASE a - k >= A!Half
      BY <1>0, <1>2, <2>1
    <2>2. CASE a - k < A!Half
      <3> DEFINE m == x - k
                 n == x - a
      <3>1. m \in Int /\ n \in Int /\ m - n < A!Half /\ n - m < A!Half
        BY <1>0, <1>2, <2>2
      <3>2. AudioNum!Gt(AudioNum!Wrap(m), AudioNum!Wrap(n)) <=> m > n
        <4> HIDE DEF m, n
        <4> QED
          BY <1>0, <3>1, AudioNum!ComparisonOfPositions
      <3>3. Recorded(k) = AudioNum!Wrap(m) /\ p = AudioNum!Wrap(n)
        BY <1>2 DEF Recorded, AudioNum!Wrap
      <3>4. A!Gt(AudioNum!Wrap(m), AudioNum!Wrap(n))
            <=> AudioNum!Gt(AudioNum!Wrap(m), AudioNum!Wrap(n))
        BY <1>0 DEF A!Gt, AudioNum!Gt
      <3>5. m > n
        BY <3>2, <3>3, <3>4 DEF A!Playable
      <3> QED
        BY <1>0, <1>2, <3>5
    <2> QED
      BY <1>0, <1>2, <2>1, <2>2
  <1> QED
    BY <1>1, <1>2 DEF OfAge

\* The ages of what was played last and of what is played now.
Ages(ps) == <<last.age>> \o [i \in 1 .. Len(ps) |-> A!Age(ps[i])]

\* Frames are played in order.
InOrder(ps) == \A i \in 2 .. Len(Ages(ps)) : Ages(ps)[i] < Ages(ps)[i - 1]

\* What was played after some units of a packet.
PlayedSoFar(a) ==
    /\ DOMAIN a = {"prev", "played"} /\ a.played \in Seq(A!SeqNums)
    /\ OfAge(a.prev, Ages(a.played)[Len(Ages(a.played))])
    /\ InOrder(a.played)

\* The ages, one by one.
LEMMA AgesOf ==
    ASSUME NEW ps \in Seq(A!SeqNums)
    PROVE  /\ Len(ps) \in Nat /\ Len(Ages(ps)) = Len(ps) + 1 /\ Ages(ps)[1] = last.age
           /\ \A i \in 1 .. Len(ps) : Ages(ps)[i + 1] = A!Age(ps[i])
  <1> DEFINE Y == {A!Age(k) : k \in A!SeqNums} \cup {last.age}
             t == [i \in 1 .. Len(ps) |-> A!Age(ps[i])]
  <1>1. Len(ps) \in Nat /\ \A i \in 1 .. Len(ps) : A!Age(ps[i]) \in Y
    OBVIOUS
  <1>2. <<last.age>> \in Seq(Y) /\ Len(<<last.age>>) = 1
    OBVIOUS
  <1> HIDE DEF Y
  <1>3. /\ t \in Seq(Y) /\ Len(t) = Len(ps)
        /\ \A i \in 1 .. Len(ps) : t[i] = A!Age(ps[i])
    BY <1>1
  <1> HIDE DEF t
  <1>4. /\ Len(<<last.age>> \o t) = 1 + Len(t)
        /\ (<<last.age>> \o t)[1] = last.age
        /\ \A i \in 1 .. Len(t) : (<<last.age>> \o t)[i + 1] = t[i]
    BY <1>1, <1>2, <1>3
  <1> QED
    BY <1>1, <1>3, <1>4 DEF Ages, t

\* Ages of a longer sequence.
LEMMA AgesAppend ==
    ASSUME NEW ps \in Seq(A!SeqNums), NEW n \in A!SeqNums
    PROVE  /\ Len(Ages(ps)) = Len(ps) + 1 /\ Len(ps) \in Nat
           /\ Len(Ages(Append(ps, n))) = Len(ps) + 2
           /\ Ages(Append(ps, n))[Len(ps) + 2] = A!Age(n)
           /\ \A i \in 1 .. Len(ps) + 1 : Ages(Append(ps, n))[i] = Ages(ps)[i]
  <1> DEFINE qs == Append(ps, n)
  <1>1. /\ Len(ps) \in Nat /\ qs \in Seq(A!SeqNums) /\ Len(qs) = Len(ps) + 1
        /\ \A i \in 1 .. Len(ps) : qs[i] = ps[i]
        /\ qs[Len(ps) + 1] = n
    OBVIOUS
  <1> HIDE DEF qs
  <1>2. ASSUME NEW i \in 1 .. Len(ps) + 1
        PROVE  Ages(qs)[i] = Ages(ps)[i]
    <2>1. CASE i = 1
      BY <1>1, AgesOf, <2>1
    <2>2. CASE i # 1
      <3>1. i - 1 \in 1 .. Len(ps) /\ i - 1 \in 1 .. Len(qs) /\ (i - 1) + 1 = i
        BY <1>1, <2>2
      <3>2. Ages(qs)[(i - 1) + 1] = A!Age(qs[i - 1])
        BY <1>1, AgesOf, <3>1
      <3>3. Ages(ps)[(i - 1) + 1] = A!Age(ps[i - 1])
        BY AgesOf, <3>1
      <3> QED
        BY <1>1, <3>1, <3>2, <3>3
    <2> QED
      BY <2>1, <2>2
  <1>3. Ages(qs)[Len(ps) + 2] = A!Age(n)
    <2>1. Len(ps) + 1 \in 1 .. Len(qs) /\ (Len(ps) + 1) + 1 = Len(ps) + 2
      BY <1>1
    <2>2. Ages(qs)[(Len(ps) + 1) + 1] = A!Age(qs[Len(ps) + 1])
      BY <1>1, AgesOf, <2>1
    <2> QED
      BY <1>1, <2>1, <2>2
  <1>4. Len(Ages(ps)) = Len(ps) + 1 /\ Len(Ages(qs)) = Len(ps) + 2
    <2>1. Len(Ages(ps)) = Len(ps) + 1 /\ Len(Ages(qs)) = Len(qs) + 1
      BY <1>1, AgesOf
    <2> QED
      BY <1>1, <2>1
  <1> QED
    BY <1>1, <1>2, <1>3, <1>4 DEF qs

\* A residue in a sum may be taken late.
LEMMA LateResidue ==
    ASSUME NEW n \in Nat \ {0}, NEW a \in Int, NEW b \in Int
    PROVE  ((a % n) + b) % n = (a + b) % n
  <1>1. n \in Nat /\ n > 0
    OBVIOUS
  <1> QED
    BY <1>1, AudioConstants, AudioNum!SumOfResidue

\* One unit keeps the order.
LEMMA UnitKeepsOrder ==
    ASSUME sent \in Nat, NEW a, PlayedSoFar(a), NEW u, Unit(u), u # A!None,
           A!Playable(u, a.prev)
    PROVE  PlayedSoFar([prev |-> u, played |-> Append(a.played, u)])
  <1> DEFINE ps == a.played
             qs == Append(ps, u)
             l == Len(ps) + 1
  <1>1. PICK k \in 1 .. A!Half - 1 : u = Recorded(k)
    BY DEF Unit
  <1>2. u \in A!SeqNums /\ A!Age(u) = k
    BY <1>1, UnitsAge
  <1>3. ps \in Seq(A!SeqNums) /\ qs \in Seq(A!SeqNums)
    BY <1>2 DEF PlayedSoFar
  <1>4. /\ l \in Nat \ {0} /\ Len(Ages(ps)) = l /\ Len(Ages(qs)) = l + 1
        /\ Ages(qs)[l + 1] = k
        /\ \A i \in 1 .. l : Ages(qs)[i] = Ages(ps)[i]
    <2>1. /\ Len(ps) \in Nat /\ Len(Ages(ps)) = Len(ps) + 1
          /\ Len(Ages(qs)) = Len(ps) + 2
          /\ Ages(qs)[Len(ps) + 2] = k
          /\ \A i \in 1 .. Len(ps) + 1 : Ages(qs)[i] = Ages(ps)[i]
      BY <1>2, <1>3, AgesAppend
    <2>2. (Len(ps) + 1) + 1 = Len(ps) + 2
      BY <2>1
    <2> HIDE DEF qs, ps
    <2> QED
      BY <2>1, <2>2
  <1>5. k < Ages(ps)[l]
    <2>1. OfAge(a.prev, Ages(ps)[l])
      BY <1>4 DEF PlayedSoFar
    <2> HIDE DEF ps, l
    <2> QED
      BY <1>1, <2>1, PlayedIsYounger
  <1>6. OfAge(u, k)
    BY <1>1, <1>2, AudioConstants DEF OfAge
  <1>7. \A i \in 2 .. l : Ages(ps)[i] < Ages(ps)[i - 1]
    BY <1>4 DEF PlayedSoFar, InOrder
  <1> HIDE DEF qs, ps, l
  <1>8. ASSUME NEW i \in 2 .. l + 1
        PROVE  Ages(qs)[i] < Ages(qs)[i - 1]
    <2>1. CASE i = l + 1
      <3>1. Ages(qs)[i] = k /\ i - 1 = l /\ l \in 1 .. l
        BY <1>4, <2>1
      <3> QED
        BY <1>4, <1>5, <3>1
    <2>2. CASE i # l + 1
      <3>1. i \in 2 .. l /\ i \in 1 .. l /\ i - 1 \in 1 .. l
        BY <1>4, <2>2
      <3> QED
        BY <1>4, <1>7, <3>1
    <2> QED
      BY <2>1, <2>2
  <1>9. InOrder(qs)
    BY <1>4, <1>8 DEF InOrder
  <1> QED
    BY <1>3, <1>4, <1>6, <1>9 DEF PlayedSoFar, qs, ps

\* The units of one packet are played in order.
LEMMA PacketKeepsOrder ==
    ASSUME sent \in Nat, OfAge(prev, last.age), NEW fs, Len(fs) \in Nat,
           \A i \in 1 .. Len(fs) : Unit(fs[i])
    PROVE  PlayedSoFar(A!Play(fs))
  <1> DEFINE f == A!PlayLoop(fs)
             S == {i \in Nat : PlayedSoFar(f[i])}
  <1>1. IsPlayLoop(f, fs, Len(fs))
    BY PlayLoopDef
  <1> HIDE DEF f
  <1>2. 0 \in S
    <2>1. f[0] = [prev |-> prev, played |-> << >>]
      BY <1>1 DEF IsPlayLoop
    <2> DEFINE none == << >>
    <2>2. none \in Seq(A!SeqNums) /\ Len(none) = 0
      OBVIOUS
    <2> HIDE DEF none
    <2>3. Len(Ages(none)) = 1 /\ Ages(none)[1] = last.age
      <3>1. Len(none) + 1 = 1
        BY <2>2
      <3> QED
        BY <2>2, <3>1, AgesOf
    <2>4. InOrder(none)
      BY <2>3 DEF InOrder
    <2>5. f[0] = [prev |-> prev, played |-> none]
      BY <2>1 DEF none
    <2>6. PlayedSoFar([prev |-> prev, played |-> none])
      BY <2>2, <2>3, <2>4 DEF PlayedSoFar
    <2> QED
      BY <2>5, <2>6
  <1>3. ASSUME NEW i \in 0 .. Len(fs) - 1, i \in S
        PROVE  i + 1 \in S
    <2>1. i + 1 \in 1 .. Len(fs) /\ (i + 1) - 1 = i /\ i + 1 # 0
      OBVIOUS
    <2>2. f[i + 1] = IF fs[i + 1] # A!None /\ A!Playable(fs[i + 1], f[i].prev)
                     THEN [prev |-> fs[i + 1], played |-> Append(f[i].played, fs[i + 1])]
                     ELSE f[i]
      <3> DEFINE j == i + 1
                 g == [n \in 0 .. Len(fs) |->
                         IF n = 0 THEN [prev |-> prev, played |-> << >>]
                         ELSE IF fs[n] # A!None /\ A!Playable(fs[n], f[n - 1].prev)
                              THEN [prev |-> fs[n], played |-> Append(f[n - 1].played, fs[n])]
                         ELSE f[n - 1]]
      <3>1. f = g
        BY <1>1 DEF IsPlayLoop
      <3>2. j \in 0 .. Len(fs) /\ j # 0 /\ j - 1 = i
        BY <2>1
      <3>3. f[j] = g[j]
        BY <3>1
      <3>4. g[j] = IF j = 0 THEN [prev |-> prev, played |-> << >>]
                   ELSE IF fs[j] # A!None /\ A!Playable(fs[j], f[j - 1].prev)
                        THEN [prev |-> fs[j], played |-> Append(f[j - 1].played, fs[j])]
                   ELSE f[j - 1]
        <4> HIDE DEF j
        <4> QED
          BY <3>2
      <3> HIDE DEF g
      <3> QED
        BY <3>2, <3>3, <3>4
    <2>3. PlayedSoFar(f[i]) /\ Unit(fs[i + 1])
      BY <1>3, <2>1
    <2>4. PlayedSoFar(f[i + 1])
      <3>1. CASE fs[i + 1] # A!None /\ A!Playable(fs[i + 1], f[i].prev)
        BY <2>2, <2>3, <3>1, UnitKeepsOrder
      <3>2. CASE ~(fs[i + 1] # A!None /\ A!Playable(fs[i + 1], f[i].prev))
        BY <2>2, <2>3, <3>2
      <3> QED
        BY <3>1, <3>2
    <2> QED
      BY <2>4
  <1>4. S \in SUBSET Nat
    OBVIOUS
  <1>5. Len(fs) \in S
    <2> HIDE DEF S
    <2>1. \A i \in 0 .. Len(fs) : i \in S
      BY <1>2, <1>3, <1>4, Sub!Induction
    <2> QED
      BY <2>1
  <1> QED
    BY <1>5 DEF A!Play, f

\* Every unit of a packet that has not been overtaken by too many holds a frame that is
\* recorded, and was so not long ago.
LEMMA UnitsOfPacket ==
    ASSUME sent \in Nat, NEW back \in 0 .. Reach
    PROVE  /\ Len(A!UnitFrames((sent - back) % AudioModulus)) = AudioSource + AudioFec
           /\ \A i \in 1 .. AudioSource + AudioFec :
                  Unit(A!UnitFrames((sent - back) % AudioModulus)[i])
  <1> DEFINE M == AudioModulus
             x == sent - back
             index == x % M
             fs == A!UnitFrames(index)
  <1>1. /\ M \in Nat \ {0} /\ x \in Int /\ AudioSource \in Nat \ {0} /\ AudioFec \in Nat
        /\ Reach \in Nat /\ A!Half \in Nat \ {0} /\ Reach + AudioSource + AudioFec < A!Half
    BY AudioConstants
  <1>2. index \in 0 .. M - 1
    <2> HIDE DEF x
    <2> QED
      BY <1>1, AudioNum!Division
  <1>3. /\ Len(fs) = AudioSource + AudioFec
        /\ \A i \in 1 .. AudioSource + AudioFec :
              fs[i] = IF i <= AudioSource THEN A!Add(index, i - 1)
                      ELSE IF startup' /\ index + (i - AudioSource - 1) < AudioFec + 1 THEN A!None
                      ELSE (index - AudioFec + (i - AudioSource - 1)) % M
    <2> HIDE DEF index
    <2> QED
      BY <1>1 DEF A!UnitFrames
  <1>4. ASSUME NEW i \in 1 .. AudioSource + AudioFec
        PROVE  Unit(fs[i])
    <2>1. CASE i <= AudioSource
      <3> DEFINE k == ((AudioSource + back) - i) + 1
                 b == i - 1
      <3>1. k \in 1 .. A!Half - 1 /\ b \in Int /\ x + b = (sent + AudioSource) - k
        BY <1>1, <2>1
      <3>2. (index + b) % M = (x + b) % M
        <4> HIDE DEF x, b
        <4> QED
          BY <1>1, <3>1, LateResidue
      <3>3. fs[i] = (index + b) % M
        <4>1. fs[i] = A!Add(index, b)
          BY <1>3, <2>1
        <4> HIDE DEF index, b, fs
        <4> QED
          BY <4>1 DEF A!Add, A!Wrap
      <3>4. fs[i] = Recorded(k)
        <4> HIDE DEF fs, k, b, x
        <4> QED
          BY <3>1, <3>2, <3>3 DEF Recorded
      <3> QED
        BY <3>1, <3>4 DEF Unit
    <2>2. CASE ~(i <= AudioSource)
      <3> DEFINE k == (((AudioSource + AudioSource) + AudioFec) + back + 1) - i
                 b == (i - AudioSource - 1) - AudioFec
      <3>1. k \in 1 .. A!Half - 1 /\ b \in Int /\ x + b = (sent + AudioSource) - k
        BY <1>1, <2>2
      <3>2. (index + b) % M = (x + b) % M
        <4> HIDE DEF x, b
        <4> QED
          BY <1>1, <3>1, LateResidue
      <3>3. fs[i] = A!None \/ fs[i] = (index + b) % M
        <4>1. index - AudioFec + (i - AudioSource - 1) = index + b
          <5> HIDE DEF index
          <5> QED
            BY <1>1, <1>2
        <4>2. \/ fs[i] = A!None
              \/ fs[i] = (index - AudioFec + (i - AudioSource - 1)) % M
          <5> HIDE DEF fs, index
          <5> QED
            BY <1>3, <2>2
        <4> HIDE DEF fs
        <4> QED
          BY <4>1, <4>2
      <3>4. fs[i] = A!None \/ fs[i] = Recorded(k)
        <4> HIDE DEF fs, k, b, x
        <4> QED
          BY <3>1, <3>2, <3>3 DEF Recorded
      <3> QED
        BY <3>1, <3>4 DEF Unit
    <2> QED
      BY <2>1, <2>2
  <1> QED
    BY <1>3, <1>4

\* What is known of the frame played last, at all times.
AudioInv ==
    /\ sent \in A!SeqNums /\ OfAge(prev, last.age)
    /\ DOMAIN last = {"age", "ordered"} /\ last.ordered

LEMMA AudioInit == A!Init => AudioInv
  <1>1. AudioModulus \in Nat \ {0} /\ 0 \in A!SeqNums
    BY AudioConstants DEF A!SeqNums
  <1> QED
    BY <1>1 DEF A!Init, AudioInv, OfAge

LEMMA AudioStutter == AudioInv /\ UNCHANGED audioVars => AudioInv'
  BY DEF AudioInv, audioVars, OfAge, Recorded

LEMMA AudioStep == AudioInv /\ A!Next => AudioInv'
  <1> SUFFICES ASSUME AudioInv, A!Next
               PROVE  AudioInv'
    OBVIOUS
  <1> DEFINE M == AudioModulus
  <1>0. M \in Nat \ {0} /\ AudioSource \in Nat /\ sent \in Nat /\ sent \in 0 .. M - 1
    BY AudioConstants DEF AudioInv, A!SeqNums
  <1>1. ASSUME A!Record
        PROVE  AudioInv'
    <2> DEFINE age == last.age
    <2>1. /\ sent' = (sent + 1) % M /\ prev' = prev
          /\ last'.age = (IF age < M THEN age + 1 ELSE age)
          /\ DOMAIN last' = {"age", "ordered"} /\ last'.ordered
      BY <1>1 DEF A!Record, A!Add, A!Wrap, AudioInv
    <2>2. sent' \in A!SeqNums
      BY <1>0, <2>1, AudioNum!Division DEF A!SeqNums
    <2>3. OfAge(prev, age)
      BY DEF AudioInv
    <2>4. OfAge(prev, last.age)'
      <3>1. CASE age = M
        BY <1>0, <2>1, <2>3, <3>1 DEF OfAge
      <3>2. CASE age = M - 1
        BY <1>0, <2>1, <2>3, <3>2 DEF OfAge
      <3>3. CASE age \in 0 .. M - 2
        <4>1. last'.age = age + 1 /\ age + 1 \in 0 .. M - 1
          BY <1>0, <2>1, <3>3
        <4>2. prev = ((sent + AudioSource) - age) % M
          BY <1>0, <2>3, <3>3 DEF OfAge, Recorded
        <4> DEFINE x == sent + 1
                   b == (AudioSource - age) - 1
        <4>3. x \in Int /\ b \in Int /\ x + b = (sent + AudioSource) - age
          BY <1>0, <3>3
        <4>4. ((x % M) + b) % M = (x + b) % M
          <5> HIDE DEF x, b
          <5> QED
            BY <1>0, <4>3, LateResidue
        <4>5. x % M \in Int
          BY <1>0, <4>3, AudioNum!Division
        <4>6. (sent' + AudioSource) - (age + 1) = (x % M) + b
          <5> DEFINE y == x % M
          <5>1. y \in Int /\ sent' = y
            BY <2>1, <4>5
          <5> HIDE DEF y
          <5> QED
            BY <1>0, <3>3, <5>1 DEF y
        <4>7. ((sent' + AudioSource) - (age + 1)) % M = prev
          <5> HIDE DEF x, b
          <5> QED
            BY <4>2, <4>3, <4>4, <4>6
        <4> QED
          BY <2>1, <2>3, <4>1, <4>7 DEF OfAge, Recorded
      <3> QED
        BY <1>0, <2>3, <3>1, <3>2, <3>3 DEF OfAge
    <2> QED
      BY <2>1, <2>2, <2>4 DEF AudioInv
  <1>2. ASSUME NEW back \in 0 .. Reach, A!AvPacket((sent - back) % AudioModulus)
        PROVE  AudioInv'
    <2> DEFINE fs == A!UnitFrames((sent - back) % AudioModulus)
               a == A!Play(fs)
               ages == Ages(a.played)
    <2>1. Len(fs) = AudioSource + AudioFec /\ Len(fs) \in Nat
          /\ \A i \in 1 .. Len(fs) : Unit(fs[i])
      <3>1. /\ Len(fs) = AudioSource + AudioFec
            /\ \A i \in 1 .. AudioSource + AudioFec : Unit(fs[i])
        BY <1>0, UnitsOfPacket
      <3> HIDE DEF fs
      <3> QED
        BY <3>1, AudioConstants
    <2>2. OfAge(prev, last.age)
      BY DEF AudioInv
    <2>3. PlayedSoFar(a)
      <3> HIDE DEF fs
      <3> QED
        BY <1>0, <2>1, <2>2, PacketKeepsOrder
    <2>4. /\ prev' = a.prev /\ sent' = sent
          /\ last' = [age |-> ages[Len(ages)], ordered |-> last.ordered /\ InOrder(a.played)]
      BY <1>2 DEF A!AvPacket, Ages, InOrder
    <2> HIDE DEF a, ages
    <2>5. /\ last'.age = ages[Len(ages)] /\ last'.ordered
          /\ DOMAIN last' = {"age", "ordered"}
      BY <2>3, <2>4 DEF PlayedSoFar, AudioInv
    <2>6. OfAge(prev, last.age)'
      BY <2>3, <2>4, <2>5 DEF PlayedSoFar, OfAge, Recorded, ages
    <2> QED
      BY <2>4, <2>5, <2>6 DEF AudioInv
  <1>3. ASSUME A!OpusData
        PROVE  AudioInv'
    BY <1>3 DEF A!OpusData, AudioInv, OfAge, Recorded
  <1> QED
    BY <1>1, <1>2, <1>3 DEF A!Next

\* For any number of frames in a packet, of blocks in the ring and of packets that overtake
\* each other, as long as a packet spans less than half of the numbers: frames are played
\* in the order of their recording and none twice, and the device gets whole blocks of the
\* frames that were written, in their order (audioreceiver.c, 51-127; vita/src/audio.c,
\* 51-193).
THEOREM SoundComesInOrder == Spec => []SoundInOrder
  <1> DEFINE Inv == AudioInv /\ RingInv
  <1>1. Init => Inv
    BY AudioInit, SoundInit DEF Init
  <1>2. Inv /\ [Next]_vars => Inv'
    BY BenchStep, AudioStep, AudioStutter, SoundStep, SoundStutter
  <1>3. Inv => SoundInOrder
    BY SoundPromise DEF AudioInv, SoundInOrder, A!PlayedInOrder
  <1> QED
    BY <1>1, <1>2, <1>3, PTL DEF Spec

-----------------------------------------------------------------------------
(* The decoder and the way to the screen *)

\* A finite set of numbers that is not empty has a greatest one.
LEMMA GreatestElement ==
    ASSUME NEW T \in SUBSET Nat, IsFiniteSet(T), T # {}
    PROVE  \E m \in T : \A k \in T : k <= m
  <1> DEFINE Has(Q) == Q # {} => \E m \in Q : \A k \in Q : k <= m
             S == {n \in Nat : \A Q \in SUBSET Nat :
                                   IsFiniteSet(Q) /\ Cardinality(Q) = n => Has(Q)}
  <1>1. 0 \in S
    <2>1. ASSUME NEW Q \in SUBSET Nat, IsFiniteSet(Q), Cardinality(Q) = 0
          PROVE  Has(Q)
      BY <2>1, FS_EmptySet
    <2> QED
      BY <2>1
  <1>2. ASSUME NEW n \in Nat, n \in S
        PROVE  n + 1 \in S
    <2>1. ASSUME NEW Q \in SUBSET Nat, IsFiniteSet(Q), Cardinality(Q) = n + 1
          PROVE  Has(Q)
      <3>1. SUFFICES ASSUME Q # {}
                     PROVE  \E m \in Q : \A k \in Q : k <= m
        OBVIOUS
      <3>2. PICK x \in Q : TRUE
        BY <3>1
      <3>3. IsFiniteSet(Q \ {x}) /\ Cardinality(Q \ {x}) = (n + 1) - 1 /\ Q \ {x} \in SUBSET Nat
        BY <2>1, <3>2, FS_RemoveElement
      <3>4. (n + 1) - 1 = n
        OBVIOUS
      <3>5. Has(Q \ {x})
        BY <1>2, <3>3, <3>4
      <3>6. CASE Q \ {x} = {}
        <4>1. \A k \in Q : k = x
          BY <3>6
        <4> QED
          BY <3>2, <4>1
      <3>7. CASE Q \ {x} # {}
        <4>1. PICK m \in Q \ {x} : \A k \in Q \ {x} : k <= m
          BY <3>5, <3>7
        <4>2. m \in Nat /\ x \in Nat /\ \A k \in Q : k \in Nat /\ (k = x \/ k <= m)
          BY <3>2, <4>1
        <4>3. CASE x <= m
          BY <4>1, <4>2, <4>3
        <4>4. CASE ~(x <= m)
          <5>1. \A k \in Q : k <= x
            BY <4>2, <4>4
          <5> QED
            BY <3>2, <5>1
        <4> QED
          BY <4>3, <4>4
      <3> QED
        BY <3>6, <3>7
    <2> QED
      BY <2>1
  <1>3. S \in SUBSET Nat
    OBVIOUS
  <1>4. Cardinality(T) \in Nat
    BY FS_CardinalityType
  <1>5. Cardinality(T) \in S
    <2> DEFINE c == Cardinality(T)
    <2>1. c \in Nat /\ c \in 0 .. c
      BY <1>4
    <2> HIDE DEF S, c
    <2>2. \A i \in 0 .. c : i \in S
      BY <1>1, <1>2, <1>3, <2>1, Sub!Induction
    <2> QED
      BY <2>1, <2>2 DEF c
  <1> QED
    BY <1>5

\* What is used of the assumptions on the rates.
LEMMA Rates ==
    /\ Target \in Nat \ {0} /\ Sources \subseteq Nat \ {0}
    /\ D!Highest \in Sources /\ \A n \in Sources : n <= D!Highest
  <1>1. Target \in Nat \ {0} /\ Sources \subseteq Nat \ {0} /\ IsFiniteSet(Sources) /\ Sources # {}
    BY MCClientAssumption DEF D!OutputAssumption, D!IsFiniteSet, IsFiniteSet
  <1>2. \E m \in Sources : \A n \in Sources : n <= m
    <2>1. Sources \in SUBSET Nat
      BY <1>1
    <2> QED
      BY <1>1, <2>1, GreatestElement
  <1> QED
    BY <1>1, <1>2 DEF D!Highest

\* The resources of the stages.
LEMMA StagesHold ==
    /\ Len(D!Stages) = 4
    /\ D!Of(1) = {"texture"}
    /\ D!Of(2) = {"videodecblock", "videodecUnmap", "videodecContext", "library"}
    /\ D!Of(3) = {"decoder_info", "decoder", "decoderblock"}
    /\ D!Of(4) = {"instance"}
    /\ D!All = D!Of(1) \cup D!Of(2) \cup D!Of(3) \cup D!Of(4)
    /\ \A i \in 1 .. 4 : D!Of(i) \subseteq D!All
  <1>1. /\ Len(D!Stages) = 4 /\ Len(D!Stages[1]) = 1 /\ Len(D!Stages[2]) = 4
        /\ Len(D!Stages[3]) = 3 /\ Len(D!Stages[4]) = 1
    BY DEF D!Stages
  <1>2. 1 .. 1 = {1} /\ 1 .. 3 = {1, 2, 3} /\ 1 .. 4 = {1, 2, 3, 4}
    OBVIOUS
  <1>3. D!Of(1) = {"texture"} /\ D!Of(4) = {"instance"}
    BY <1>1, <1>2 DEF D!Of, D!Part, D!Stages
  <1>4. D!Of(2) = {"videodecblock", "videodecUnmap", "videodecContext", "library"}
    BY <1>1, <1>2 DEF D!Of, D!Part, D!Stages
  <1>5. D!Of(3) = {"decoder_info", "decoder", "decoderblock"}
    BY <1>1, <1>2 DEF D!Of, D!Part, D!Stages
  <1>6. D!All = D!Of(1) \cup D!Of(2) \cup D!Of(3) \cup D!Of(4)
    BY <1>1, <1>2 DEF D!All
  <1> QED
    BY <1>1, <1>2, <1>3, <1>4, <1>5, <1>6

\* The clean-up goes down from the status, and gives back everything below it.
LEMMA CleansUp ==
    ASSUME NEW k \in 0 .. 4, NEW h
    PROVE  LET c == D!CleanUp([status |-> k, held |-> h])
           IN  /\ c.status = 0 /\ c.held \subseteq h
               /\ k > 0 => c.held \cap D!Of(1) = {}
               /\ k = 4 => c.held = (((h \ D!Of(4)) \ D!Of(3)) \ D!Of(2)) \ D!Of(1)
  <1>1. /\ D!CleanUpStages[1] = 4 /\ D!CleanUpStages[2] = 3
        /\ D!CleanUpStages[3] = 2 /\ D!CleanUpStages[4] = 1
    BY DEF D!CleanUpStages
  <1> DEFINE Down(s, i) == IF s.status # i THEN s
                           ELSE [status |-> i - 1, held |-> s.held \ D!Of(i)]
  <1>2. D!CleanUp([status |-> k, held |-> h])
            = Down(Down(Down(Down([status |-> k, held |-> h], 4), 3), 2), 1)
    BY <1>1 DEF D!CleanUp, D!CleanUpOf
  <1>3. CASE k = 0
    BY <1>2, <1>3
  <1>4. CASE k = 1
    BY <1>2, <1>4
  <1>5. CASE k = 2
    BY <1>2, <1>5
  <1>6. CASE k = 3
    BY <1>2, <1>6
  <1>7. CASE k = 4
    BY <1>2, <1>7
  <1> QED
    BY <1>3, <1>4, <1>5, <1>6, <1>7

\* What the first stages take.
Below(n) == {r \in D!All : \E j \in 1 .. n : r \in D!Of(j)}

\* The set-up is past the i-th stage, or stays before the one that fails.
Reached(s, i, bad, h, l) ==
    /\ DOMAIN s = {"status", "held", "leaked"}
    /\ s.status = IF i < bad THEN i ELSE bad - 1
    /\ s.held \subseteq h \cup Below(s.status)
    /\ Below(s.status) \subseteq s.held
    /\ h = {} /\ l \in Nat => s.leaked = l

LEMMA StageTaken ==
    ASSUME NEW s, NEW i \in 0 .. 3, NEW bad \in 1 .. 5, NEW h, NEW l,
           Reached(s, i, bad, h, l)
    PROVE  Reached(D!Whole(s, i + 1, bad), i + 1, bad, h, l)
  <1> DEFINE t == D!Whole(s, i + 1, bad)
             k == i + 1
             gone == (s.held \cap D!Of(k)) \ {"decoder_info"}
  <1>1. CASE k >= bad
    <2>1. t = s
      BY <1>1 DEF D!Whole
    <2>2. (IF k < bad THEN k ELSE bad - 1) = (IF i < bad THEN i ELSE bad - 1)
      BY <1>1
    <2> QED
      BY <2>1, <2>2 DEF Reached
  <1>2. CASE k < bad
    <2>1. s.status = i
      BY <1>2 DEF Reached
    <2>2. t = [D!Take(s, k, Len(D!Stages[k])) EXCEPT !.status = k]
      BY <1>2, <2>1 DEF D!Whole
    <2>3. /\ DOMAIN t = {"status", "held", "leaked"} /\ t.status = k
          /\ t.held = s.held \cup D!Of(k) /\ t.leaked = s.leaked + D!Cardinality(gone)
      <3>1. DOMAIN s = {"status", "held", "leaked"}
        BY DEF Reached
      <3> HIDE DEF k
      <3> QED
        BY <2>2, <3>1 DEF D!Take, D!Of
    <2>4. Below(k) = Below(i) \cup D!Of(k)
      <3>1. \A j : j \in 1 .. k <=> (j \in 1 .. i \/ j = k)
        OBVIOUS
      <3>2. D!Of(k) \subseteq D!All
        BY StagesHold
      <3> HIDE DEF k
      <3> QED
        BY <3>1, <3>2 DEF Below
    <2>5. ASSUME h = {}, l \in Nat
          PROVE  t.leaked = l
      <3>1. gone = {}
        <4>1. s.held \subseteq Below(i)
          BY <2>1, <2>5 DEF Reached
        <4>2. \A j \in 1 .. i : D!Of(j) \cap D!Of(k) = {}
          BY StagesHold
        <4> HIDE DEF k
        <4> QED
          BY <4>1, <4>2 DEF Below
      <3>2. s.leaked = l
        BY <2>5 DEF Reached
      <3>3. D!Cardinality({}) = 0
        BY FS_EmptySet DEF D!Cardinality, Cardinality
      <3> HIDE DEF t, gone
      <3> QED
        BY <2>3, <2>5, <3>1, <3>2, <3>3
    <2>6. /\ t.held \subseteq h \cup Below(t.status)
          /\ Below(t.status) \subseteq t.held
      BY <2>1, <2>3, <2>4 DEF Reached
    <2> HIDE DEF t
    <2>7. t.status = IF k < bad THEN k ELSE bad - 1
      BY <1>2, <2>3
    <2> HIDE DEF k
    <2>8. Reached(t, k, bad, h, l)
      BY <2>3, <2>5, <2>6, <2>7 DEF Reached
    <2> QED
      BY <2>8 DEF t, k
  <1> QED
    BY <1>1, <1>2

\* What is held between the streams and during one; frames left out in a row are paid for.
PictureInv ==
    /\ active \in BOOLEAN /\ failures \in Nat
    /\ active => status = 4 /\ held = D!All
    /\ ~active => /\ status = 0 /\ "texture" \notin held /\ "instance" \notin held
                  /\ held \subseteq D!All
                  /\ failures = 0 => held = {}
    /\ failures = 0 => leaked = 0
    /\ source \in Sources /\ pace \in Nat /\ dropped \in Nat
    /\ dropped * Target <= pace
    /\ dropped > 0 => pace < D!Highest

LEMMA PictureInit == D!Init => PictureInv
  <1> SUFFICES ASSUME D!Init PROVE PictureInv
    OBVIOUS
  <1>1. dropped * Target <= pace /\ ~(dropped > 0) /\ dropped \in Nat /\ pace \in Nat
    <2>1. dropped = 0 /\ pace = 0
      BY DEF D!Init
    <2>2. Target \in Int
      BY Rates
    <2> QED
      BY <2>1, <2>2
  <1>2. failures \in Nat
    BY DEF D!Init
  <1> QED
    BY <1>1, <1>2 DEF D!Init, PictureInv

LEMMA PictureStutter == PictureInv /\ UNCHANGED pictureVars => PictureInv'
  BY DEF PictureInv, pictureVars

LEMMA SetUpStep ==
    ASSUME PictureInv, NEW bad \in 1 .. 5, NEW n \in Nat,
           bad \in {1, 4} => n = 0, bad \in {2, 3} => n <= Len(D!Stages[bad]),
           D!SetUp(bad, n)
    PROVE  PictureInv'
  <1> DEFINE begin == [status |-> status, held |-> held, leaked |-> leaked]
             one   == D!Whole(begin, 1, bad)
             two   == D!Whole(one, 2, bad)
             three == D!Whole(two, 3, bad)
             taken == D!Whole(three, 4, bad)
  <1>1. /\ ~active /\ status = 0 /\ "texture" \notin held /\ "instance" \notin held
        /\ held \subseteq D!All /\ failures \in Nat
        /\ failures = 0 => held = {} /\ leaked = 0
    BY DEF PictureInv, D!SetUp
  <1>2. Reached(begin, 0, bad, held, leaked)
    <2>1. Below(0) = {} /\ 0 = IF 0 < bad THEN 0 ELSE bad - 1
      BY DEF Below
    <2> QED
      BY <1>1, <2>1 DEF Reached
  <1>3. Reached(taken, 4, bad, held, leaked)
    <2>1. 0 + 1 = 1 /\ 1 + 1 = 2 /\ 2 + 1 = 3 /\ 3 + 1 = 4
      OBVIOUS
    <2> HIDE DEF begin
    <2>2. Reached(one, 1, bad, held, leaked)
      BY <1>1, <1>2, <2>1, StageTaken
    <2> HIDE DEF one
    <2>3. Reached(two, 2, bad, held, leaked)
      BY <1>1, <2>1, <2>2, StageTaken
    <2> HIDE DEF two
    <2>4. Reached(three, 3, bad, held, leaked)
      BY <1>1, <2>1, <2>3, StageTaken
    <2> HIDE DEF three
    <2> QED
      BY <1>1, <2>1, <2>4, StageTaken
  <1>4. /\ UNCHANGED <<pace, source, dropped>>
        /\ \/ /\ bad = 5
              /\ status' = taken.status /\ held' = taken.held /\ leaked' = taken.leaked
              /\ active' = TRUE /\ failures' = failures
           \/ /\ bad < 5 /\ failures' = failures + 1 /\ active' = active
              /\ LET partly == D!Take(taken, bad, n)
                     clean  == D!CleanUp([status |-> partly.status, held |-> partly.held])
                 IN  status' = clean.status /\ held' = clean.held /\ leaked' = partly.leaked
    BY StagesHold DEF D!SetUp
  <1> HIDE DEF taken
  <1>5. CASE bad = 5
    <2>1. taken.status = 4 /\ taken.held = D!All
      <3>1. taken.status = 4
        <4>1. 4 < 5
          OBVIOUS
        <4> QED
          BY <1>3, <1>5, <4>1 DEF Reached
      <3>2. Below(4) = D!All
        <4>1. 1 \in 1 .. 4 /\ 2 \in 1 .. 4 /\ 3 \in 1 .. 4 /\ 4 \in 1 .. 4
          OBVIOUS
        <4> QED
          BY <4>1, StagesHold DEF Below
      <3> QED
        BY <1>1, <1>3, <3>1, <3>2 DEF Reached
    <2>3. failures = 0 => leaked' = 0
      <3>1. failures = 0 => held = {} /\ leaked = 0
        BY <1>1
      <3>2. failures = 0 => taken.leaked = leaked
        BY <1>3, <3>1 DEF Reached
      <3> QED
        BY <1>4, <1>5, <3>1, <3>2
    <2> QED
      BY <1>1, <1>4, <1>5, <2>1, <2>3 DEF PictureInv
  <1>6. CASE bad < 5
    <2> DEFINE partly == D!Take(taken, bad, n)
               clean  == D!CleanUp([status |-> partly.status, held |-> partly.held])
    <2>1. /\ partly.status = bad - 1
          /\ partly.held = taken.held \cup D!Part(bad, n)
      BY <1>3, <1>6 DEF Reached, D!Take
    <2>2. D!Part(bad, n) \subseteq D!Of(bad) /\ (bad \in {1, 4} => D!Part(bad, n) = {})
      <3>1. bad \in {1, 4} => D!Part(bad, n) = {}
        BY DEF D!Part
      <3>2. bad \in {2, 3} => n <= Len(D!Stages[bad]) /\ Len(D!Stages[bad]) \in Nat
        BY DEF D!Stages
      <3>3. bad \in {2, 3} => D!Part(bad, n) \subseteq D!Of(bad)
        <4>1. \A i \in 1 .. n : bad \in {2, 3} => i \in 1 .. Len(D!Stages[bad])
          BY <3>2
        <4> QED
          BY <4>1 DEF D!Part, D!Of
      <3>4. bad \in {1, 2, 3, 4}
        BY <1>6
      <3> QED
        BY <3>1, <3>3, <3>4
    <2>3. /\ "instance" \notin partly.held /\ partly.held \subseteq D!All
          /\ bad = 1 => "texture" \notin partly.held
          /\ failures = 0 => leaked = 0
      <3>1. /\ taken.held \subseteq held \cup Below(bad - 1)
        <4>1. taken.status = bad - 1
          BY <1>3, <1>6 DEF Reached
        <4> QED
          BY <1>3, <4>1 DEF Reached
      <3>2. "instance" \notin Below(bad - 1) /\ Below(bad - 1) \subseteq D!All
        <4>1. \A j \in 1 .. bad - 1 : j \in {1, 2, 3}
          BY <1>6
        <4> QED
          BY <4>1, StagesHold DEF Below
      <3>3. bad = 1 => Below(bad - 1) = {}
        BY DEF Below
      <3>4. /\ D!Part(bad, n) \subseteq D!All /\ "instance" \notin D!Part(bad, n)
            /\ bad = 1 => "texture" \notin D!Part(bad, n)
        <4>1. bad \in {1, 2, 3, 4}
          BY <1>6
        <4> QED
          BY <2>2, <4>1, StagesHold
      <3> HIDE DEF partly
      <3> QED
        BY <1>1, <2>1, <3>1, <3>2, <3>3, <3>4
    <2>4. /\ clean.status = 0 /\ clean.held \subseteq partly.held
          /\ bad - 1 > 0 => "texture" \notin clean.held
      <3>1. bad - 1 \in 0 .. 4
        BY <1>6
      <3> DEFINE h == partly.held
      <3> HIDE DEF h
      <3>2. clean = D!CleanUp([status |-> bad - 1, held |-> h])
        BY <2>1 DEF h
      <3> HIDE DEF clean
      <3>3. /\ clean.status = 0 /\ clean.held \subseteq h
            /\ bad - 1 > 0 => clean.held \cap D!Of(1) = {}
        BY <3>1, <3>2, CleansUp
      <3> QED
        BY <3>3, StagesHold DEF h
    <2>5. /\ failures' = failures + 1 /\ active' = active
          /\ status' = clean.status /\ held' = clean.held /\ leaked' = partly.leaked
      BY <1>4, <1>6
    <2>6. bad - 1 > 0 \/ bad = 1
      BY <1>6
    <2> HIDE DEF partly, clean
    <2>7. /\ status' = 0 /\ "texture" \notin held' /\ "instance" \notin held'
          /\ held' \subseteq D!All /\ ~active' /\ failures' \in Nat \ {0}
      BY <1>1, <2>3, <2>4, <2>5, <2>6
    <2> QED
      BY <1>4, <2>7 DEF PictureInv
  <1> QED
    BY <1>5, <1>6

LEMMA RenderStep ==
    ASSUME PictureInv, D!Render
    PROVE  PictureInv'
  <1> DEFINE credit == pace + Target
  <1>1. /\ Target \in Nat \ {0} /\ source \in Nat \ {0} /\ source <= D!Highest
        /\ D!Highest \in Nat /\ pace \in Nat /\ dropped \in Nat
        /\ dropped * Target <= pace /\ (dropped > 0 => pace < D!Highest)
    BY Rates DEF PictureInv
  <1>2. UNCHANGED <<status, held, leaked, failures, active, source>>
    BY DEF D!Render
  <1>3. 0 * Target = 0 /\ (dropped + 1) * Target = dropped * Target + Target
        /\ dropped * Target \in Nat
    BY <1>1
  <1>4. /\ pace' \in Nat /\ dropped' \in Nat /\ dropped' * Target <= pace'
        /\ dropped' > 0 => pace' < D!Highest
    <2>1. CASE Target >= source
      <3>1. dropped' = 0 /\ pace' = pace
        BY <2>1 DEF D!Render
      <3> QED
        BY <1>1, <1>3, <3>1
    <2>2. CASE ~(Target >= source) /\ credit < source
      <3>1. dropped' = dropped + 1 /\ pace' = credit
        BY <2>2 DEF D!Render, D!Paced
      <3>2. dropped' * Target = dropped * Target + Target
        BY <1>3, <3>1
      <3> DEFINE a == dropped * Target
                 b == dropped' * Target
      <3>3. a \in Nat /\ b = a + Target /\ a <= pace
        BY <1>1, <1>3, <3>2
      <3> HIDE DEF a, b
      <3>4. b <= pace' /\ pace' \in Nat /\ dropped' \in Nat /\ pace' < D!Highest
        BY <1>1, <2>2, <3>1, <3>3
      <3> QED
        BY <3>4 DEF b
    <2>3. CASE ~(Target >= source) /\ ~(credit < source)
      <3>1. dropped' = 0 /\ pace' = credit - source
        BY <2>3 DEF D!Render, D!Paced
      <3> QED
        BY <1>1, <1>3, <2>3, <3>1
    <2> QED
      BY <2>1, <2>2, <2>3
  <1> QED
    BY <1>2, <1>4 DEF PictureInv

LEMMA PictureStep == PictureInv /\ D!Next => PictureInv'
  <1> SUFFICES ASSUME PictureInv, D!Next PROVE PictureInv'
    OBVIOUS
  <1>1. ASSUME NEW bad \in 1 .. Len(D!Stages), NEW n \in 0 .. Len(D!Stages[bad]) - 1,
               D!SetUp(bad, n)
        PROVE  PictureInv'
    <2>1. bad \in 1 .. 5 /\ n \in Nat /\ bad \in {1, 2, 3, 4}
      BY StagesHold
    <2>2. bad \in {1, 4} => n = 0
      <3>1. Len(D!Stages[1]) = 1 /\ Len(D!Stages[4]) = 1
        BY DEF D!Stages
      <3>2. bad = 1 => n \in 0 .. 1 - 1
        BY <3>1
      <3>3. bad = 4 => n \in 0 .. 1 - 1
        BY <3>1
      <3> QED
        BY <3>2, <3>3
    <2>3. bad \in {2, 3} => n <= Len(D!Stages[bad])
      BY <2>1 DEF D!Stages
    <2> QED
      BY <1>1, <2>1, <2>2, <2>3, SetUpStep
  <1>2. ASSUME D!SetUp(Len(D!Stages) + 1, 0)
        PROVE  PictureInv'
    <2>1. D!SetUp(5, 0)
      <3>1. Len(D!Stages) + 1 = 5
        BY StagesHold
      <3> QED
        BY <1>2, <3>1
    <2> QED
      BY <2>1, SetUpStep
  <1>3. ASSUME D!Stop
        PROVE  PictureInv'
    <2>1. active /\ status = 4 /\ held = D!All
      BY <1>3 DEF D!Stop, PictureInv
    <2> DEFINE clean == D!CleanUp([status |-> 4, held |-> D!All])
    <2>2. clean.status = 0 /\ clean.held = {}
      <3>1. 4 \in 0 .. 4 /\ 4 > 0
        OBVIOUS
      <3>2. /\ clean.status = 0
            /\ clean.held = (((D!All \ D!Of(4)) \ D!Of(3)) \ D!Of(2)) \ D!Of(1)
        BY <3>1, CleansUp
      <3> HIDE DEF clean
      <3> QED
        BY <3>2, StagesHold
    <2>3. /\ active' = FALSE /\ status' = clean.status /\ held' = clean.held
          /\ UNCHANGED <<leaked, failures, pace, source, dropped>>
      BY <1>3, <2>1 DEF D!Stop
    <2> HIDE DEF clean
    <2> QED
      BY <2>2, <2>3 DEF PictureInv
  <1>4. ASSUME D!Decode \/ D!Measure
        PROVE  PictureInv'
    BY <1>4 DEF D!Decode, D!Measure, PictureInv
  <1> QED
    BY <1>1, <1>2, <1>3, <1>4, RenderStep DEF D!Next

LEMMA PicturePromise == PictureInv => D!PictureMoves /\ D!DecoderReturned
  <1> SUFFICES ASSUME PictureInv PROVE D!PictureMoves /\ D!DecoderReturned
    OBVIOUS
  <1> DEFINE a == dropped * Target
  <1>1. /\ Target \in Nat \ {0} /\ D!Highest \in Nat \ {0}
        /\ pace \in Nat /\ dropped \in Nat
        /\ a <= pace /\ (dropped > 0 => pace < D!Highest)
    BY Rates DEF PictureInv
  <1>2. a \in Nat /\ (dropped = 0 => a = 0)
    BY <1>1
  <1>3. a < D!Highest
    <2> HIDE DEF a
    <2> QED
      BY <1>1, <1>2
  <1>4. D!PictureMoves
    BY <1>3 DEF D!PictureMoves
  <1>5. failures = 0 \/ failures > 0
    BY DEF PictureInv
  <1> QED
    BY <1>4, <1>5 DEF PictureInv, D!DecoderReturned

\* For any target, any rates that are measured and any set-ups that fail: the decoder is
\* given back between the streams, and no more frames in a row are left out than the rates
\* ask for (vita/src/video.c, 92-144, 230-443).
THEOREM PictureKeepsMoving == Spec => []PictureMoves
  <1>1. Init => PictureInv
    BY PictureInit DEF Init
  <1>2. PictureInv /\ [Next]_vars => PictureInv'
    BY BenchStep, PictureStep, PictureStutter
  <1>3. PictureInv => PictureMoves
    BY PicturePromise DEF PictureMoves
  <1> QED
    BY <1>1, <1>2, <1>3, PTL DEF Spec

-----------------------------------------------------------------------------
(* The answers to losses *)

\* A measure of finitely many things is greatest for one of them.
LEMMA GreatestOf ==
    ASSUME NEW S, IsFiniteSet(S), S # {}, NEW g \in [S -> Nat]
    PROVE  \E x \in S : \A y \in S : g[y] <= g[x]
  <1> DEFINE T == {g[x] : x \in S}
  <1>1. g \in Surjection(S, T)
    BY DEF Surjection
  <1>2. IsFiniteSet(T)
    BY <1>1, FS_Surjection
  <1>3. T \in SUBSET Nat /\ T # {}
    OBVIOUS
  <1>4. PICK m \in T : \A k \in T : k <= m
    <2> HIDE DEF T
    <2> QED
      BY <1>2, <1>3, GreatestElement
  <1> QED
    BY <1>4

\* What is used of the assumptions on the thresholds, for any set of profiles.
LEMMA ThresholdFacts ==
    /\ \A p \in MCProfiles : p.burstWindow \in Nat /\ p.burst \in Nat \ {0}
    /\ R!BurstSpan \in Nat /\ R!LargestBurst \in Nat \ {0}
    /\ \A p \in MCProfiles : R!BurstSpan <= p.burstWindow /\ p.burst <= R!LargestBurst
    /\ R!Cap \in Nat /\ R!BurstSpan < R!Cap /\ R!Never = R!Cap + 1
  <1> DEFINE Profiles == MCProfiles
  <1>1. /\ IsFiniteSet(Profiles) /\ Profiles # {} /\ GateSpan \in Nat /\ Cooldown \in Nat \ {0}
        /\ LowSpan \in Nat \ {0}
        /\ \A p \in Profiles : /\ p.window \in Nat \ {0} /\ p.burstWindow \in Nat \ {0}
                        /\ p.burst \in Nat \ {0}
    BY MCClientAssumption DEF R!RecoveryAssumption, R!Thresholds, R!IsFiniteSet, IsFiniteSet
  <1> HIDE DEF Profiles
  <1>2. /\ R!BurstSpan \in {p.burstWindow : p \in Profiles}
        /\ \A p \in Profiles : R!BurstSpan <= p.burstWindow
    <2> DEFINE T == {p.burstWindow : p \in Profiles}
    <2>1. T \in SUBSET Nat /\ T # {}
      BY <1>1
    <2>2. PICK n \in T : \A k \in T : n <= k
      <3> HIDE DEF T
      <3> QED
        BY <2>1, Sub!LeastElement
    <2>3. \A p \in Profiles : n <= p.burstWindow
      BY <2>2
    <2> QED
      BY <2>2, <2>3 DEF R!BurstSpan, Profiles
  <1>3. /\ R!LargestBurst \in {p.burst : p \in Profiles}
        /\ \A p \in Profiles : R!LargestBurst >= p.burst
    <2> DEFINE g == [p \in Profiles |-> p.burst]
    <2>1. g \in [Profiles -> Nat]
      BY <1>1
    <2>2. PICK x \in Profiles : \A y \in Profiles : g[y] <= g[x]
      <3> HIDE DEF g
      <3> QED
        BY <1>1, <2>1, GreatestOf
    <2>3. \A p \in Profiles : x.burst >= p.burst
      BY <1>1, <2>2
    <2> QED
      BY <2>2, <2>3 DEF R!LargestBurst, Profiles
  <1>4. /\ R!LongestWindow \in Nat
        /\ \A p \in Profiles : p.window <= R!LongestWindow /\ p.burstWindow <= R!LongestWindow
    <2> DEFINE g == [p \in Profiles |-> p.window]
               h == [p \in Profiles |-> p.burstWindow]
               T == {p[t] : p \in Profiles, t \in {"window", "burstWindow"}}
    <2>1. g \in [Profiles -> Nat] /\ h \in [Profiles -> Nat]
      BY <1>1
    <2>2. PICK x \in Profiles : \A y \in Profiles : g[y] <= g[x]
      <3> HIDE DEF g
      <3> QED
        BY <1>1, <2>1, GreatestOf
    <2>3. PICK z \in Profiles : \A y \in Profiles : h[y] <= h[z]
      <3> HIDE DEF h
      <3> QED
        BY <1>1, <2>1, GreatestOf
    <2>4. x["window"] \in T /\ z["burstWindow"] \in T
      BY <2>2, <2>3
    <2>5. \E n \in T : \A p \in Profiles : p.window <= n /\ p.burstWindow <= n
      <3>1. CASE x.window <= z.burstWindow
        <4>1. \A p \in Profiles : p.window <= z.burstWindow /\ p.burstWindow <= z.burstWindow
          BY <1>1, <2>2, <2>3, <3>1
        <4> QED
          BY <2>4, <4>1
      <3>2. CASE ~(x.window <= z.burstWindow)
        <4>1. \A p \in Profiles : p.window <= x.window /\ p.burstWindow <= x.window
          BY <1>1, <2>2, <2>3, <3>2
        <4> QED
          BY <2>4, <4>1
      <3> QED
        BY <3>1, <3>2
    <2>6. T \subseteq Nat
      BY <1>1
    <2>7. /\ R!LongestWindow \in T
          /\ \A p \in Profiles : p.window <= R!LongestWindow /\ p.burstWindow <= R!LongestWindow
      BY <2>5 DEF R!LongestWindow, Profiles
    <2> QED
      BY <2>6, <2>7
  <1>5. R!Cap \in Nat /\ R!LongestWindow < R!Cap
    BY <1>1, <1>4 DEF R!Cap, R!Bigger
  <1>6. PICK p \in Profiles : R!BurstSpan = p.burstWindow
    BY <1>2
  <1>7. R!BurstSpan \in Nat /\ R!BurstSpan < R!Cap
    BY <1>1, <1>4, <1>5, <1>6
  <1> QED
    BY <1>1, <1>2, <1>3, <1>5, <1>7 DEF Profiles, R!Never

-----------------------------------------------------------------------------
\* The function that LostWithin is defined by: sums of the first entries.
IsSum(f, g) ==
    f = [t \in 0 .. R!BurstSpan |-> IF t = 0 THEN g[0] ELSE f[t - 1] + g[t]]

\* It exists ...
LEMMA SumExists ==
    ASSUME NEW g
    PROVE  \E f : IsSum(f, g)
  <1> DEFINE Step(a, i) == a + g[i]
             zero == g[0]
             S == {m \in Nat : \E f :
                           f = [i \in 0 .. m |-> IF i = 0 THEN zero ELSE Step(f[i - 1], i)]}
  <1> HIDE DEF Step, zero
  <1>1. 0 \in S
    <2> DEFINE e == [i \in 0 .. 0 |-> zero]
               h == [i \in 0 .. 0 |-> IF i = 0 THEN zero ELSE Step(e[i - 1], i)]
    <2>1. \A i \in 0 .. 0 : i = 0
      OBVIOUS
    <2>2. e = h
      BY <2>1
    <2> HIDE DEF e
    <2> QED
      BY <2>2
  <1>2. ASSUME NEW m \in Nat, m \in S
        PROVE  m + 1 \in S
    <2>1. PICK f : f = [i \in 0 .. m |-> IF i = 0 THEN zero ELSE Step(f[i - 1], i)]
      BY <1>2
    <2> DEFINE new == Step(f[m], m + 1)
               e == [i \in 0 .. m + 1 |-> IF i = m + 1 THEN new ELSE f[i]]
               h == [i \in 0 .. m + 1 |-> IF i = 0 THEN zero ELSE Step(e[i - 1], i)]
    <2>2. \A i \in 0 .. m : f[i] = IF i = 0 THEN zero ELSE Step(f[i - 1], i)
      BY <2>1
    <2>3. ASSUME NEW i \in 0 .. m + 1
          PROVE  e[i] = h[i]
      <3>1. CASE i = 0
        BY <2>2, <3>1
      <3>2. CASE i = m + 1
        <4>1. e[i - 1] = f[m]
          BY <3>2
        <4> QED
          BY <3>2, <4>1
      <3>3. CASE i # 0 /\ i # m + 1
        <4>1. i - 1 \in 0 .. m /\ i \in 0 .. m
          BY <3>3
        <4>2. e[i - 1] = f[i - 1] /\ e[i] = f[i]
          BY <4>1, <3>3
        <4> QED
          BY <4>1, <4>2, <2>2, <3>3
      <3> QED
        BY <3>1, <3>2, <3>3
    <2>4. e = h
      <3> HIDE DEF new
      <3>1. e = [i \in 0 .. m + 1 |-> e[i]] /\ h = [i \in 0 .. m + 1 |-> h[i]]
        OBVIOUS
      <3> HIDE DEF e, h
      <3> QED
        BY <3>1, <2>3
    <2>5. m + 1 \in Nat /\ e = [i \in 0 .. m + 1 |-> IF i = 0 THEN zero ELSE Step(e[i - 1], i)]
      BY <2>4
    <2> HIDE DEF e
    <2> QED
      BY <2>5
  <1> HIDE DEF S
  <1>3. R!BurstSpan \in S
    <2>1. S \in SUBSET Nat
      BY DEF S
    <2> QED
      BY <1>1, <1>2, <2>1, Sub!Induction, ThresholdFacts
  <1> QED
    BY <1>3 DEF S, Step, zero, IsSum

\* ... so that it has the sums, one by one.
LEMMA SumOf ==
    ASSUME NEW g \in [0 .. R!BurstSpan -> Nat], NEW f, f = CHOOSE h : IsSum(h, g)
    PROVE  /\ f[0] = g[0] /\ \A t \in 0 .. R!BurstSpan : f[t] \in Nat
           /\ \A t \in 0 .. R!BurstSpan - 1 : f[t + 1] = f[t] + g[t + 1]
  <1>1. IsSum(f, g)
    BY SumExists
  <1>2. /\ f[0] = g[0]
        /\ \A t \in 0 .. R!BurstSpan - 1 : f[t + 1] = f[t] + g[t + 1]
    <2>1. ASSUME NEW t \in 0 .. R!BurstSpan
          PROVE  f[t] = IF t = 0 THEN g[0] ELSE f[t - 1] + g[t]
      BY <1>1 DEF IsSum
    <2>2. f[0] = g[0]
      BY <2>1, ThresholdFacts
    <2>3. ASSUME NEW t \in 0 .. R!BurstSpan - 1
          PROVE  f[t + 1] = f[t] + g[t + 1]
      <3>1. t + 1 \in 0 .. R!BurstSpan /\ t + 1 # 0 /\ (t + 1) - 1 = t
        BY ThresholdFacts
      <3> DEFINE u == t + 1
      <3>2. u \in 0 .. R!BurstSpan /\ u # 0 /\ u - 1 = t
        BY <3>1
      <3> HIDE DEF u
      <3>3. f[u] = f[u - 1] + g[u]
        BY <2>1, <3>2
      <3> QED
        BY <3>2, <3>3 DEF u
    <2> QED
      BY <2>2, <2>3
  <1> DEFINE S == {t \in Nat : t <= R!BurstSpan => f[t] \in Nat}
  <1>3. 0 \in S
    BY <1>2, ThresholdFacts
  <1>4. ASSUME NEW t \in 0 .. R!BurstSpan - 1, t \in S
        PROVE  t + 1 \in S
    <2>1. t + 1 \in 0 .. R!BurstSpan /\ f[t] \in Nat /\ t + 1 \in Nat
      BY <1>4, ThresholdFacts
    <2>2. f[t + 1] \in Nat
      BY <1>2, <2>1
    <2> QED
      BY <2>1, <2>2
  <1>5. S \in SUBSET Nat
    OBVIOUS
  <1>6. \A t \in 0 .. R!BurstSpan : t \in S
    <2> HIDE DEF S
    <2> QED
      BY <1>3, <1>4, <1>5, Sub!Induction, ThresholdFacts
  <1> QED
    BY <1>2, <1>6, ThresholdFacts

\* The sums of two arrays whose entries differ by what is added or moved.
Sums(g) == CHOOSE f : IsSum(f, g)

LEMMA SumsOfNothing ==
    ASSUME NEW g \in [0 .. R!BurstSpan -> Nat], \A t \in 0 .. R!BurstSpan : g[t] = 0
    PROVE  \A t \in 0 .. R!BurstSpan : Sums(g)[t] = 0
  <1> DEFINE f == Sums(g)
             S == {t \in Nat : t <= R!BurstSpan => f[t] = 0}
  <1>1. /\ f[0] = g[0]
        /\ \A t \in 0 .. R!BurstSpan - 1 : f[t + 1] = f[t] + g[t + 1]
    BY SumOf DEF Sums
  <1> HIDE DEF f
  <1>2. 0 \in S
    BY <1>1, ThresholdFacts
  <1>3. ASSUME NEW t \in 0 .. R!BurstSpan - 1, t \in S
        PROVE  t + 1 \in S
    <2>1. t + 1 \in 0 .. R!BurstSpan /\ f[t] = 0 /\ g[t + 1] = 0
      BY <1>3, ThresholdFacts
    <2>2. f[t + 1] = 0
      BY <1>1, <2>1
    <2> QED
      BY <2>1, <2>2
  <1>4. S \in SUBSET Nat
    OBVIOUS
  <1>5. \A t \in 0 .. R!BurstSpan : t \in S
    <2> HIDE DEF S
    <2> QED
      BY <1>2, <1>3, <1>4, Sub!Induction, ThresholdFacts
  <1> QED
    BY <1>5, ThresholdFacts DEF f

LEMMA SumsOfMore ==
    ASSUME NEW g \in [0 .. R!BurstSpan -> Nat], NEW n \in Nat
    PROVE  /\ [g EXCEPT ![0] = @ + n] \in [0 .. R!BurstSpan -> Nat]
           /\ \A t \in 0 .. R!BurstSpan : Sums([g EXCEPT ![0] = @ + n])[t] = Sums(g)[t] + n
  <1> DEFINE h == [g EXCEPT ![0] = @ + n]
             e == Sums(g)
             f == Sums(h)
             S == {t \in Nat : t <= R!BurstSpan => f[t] = e[t] + n}
  <1>0. 0 \in 0 .. R!BurstSpan
    BY ThresholdFacts
  <1>1. /\ h \in [0 .. R!BurstSpan -> Nat] /\ h[0] = g[0] + n
        /\ \A t \in 0 .. R!BurstSpan - 1 : t + 1 \in 0 .. R!BurstSpan /\ h[t + 1] = g[t + 1]
    BY <1>0, ThresholdFacts
  <1> HIDE DEF h
  <1>2. /\ e[0] = g[0] /\ \A t \in 0 .. R!BurstSpan : e[t] \in Nat
        /\ \A t \in 0 .. R!BurstSpan - 1 : e[t + 1] = e[t] + g[t + 1]
    BY SumOf DEF Sums
  <1>3. /\ f[0] = h[0]
        /\ \A t \in 0 .. R!BurstSpan - 1 : f[t + 1] = f[t] + h[t + 1]
    BY <1>1, SumOf DEF Sums
  <1> HIDE DEF e, f
  <1>4. 0 \in S
    BY <1>1, <1>2, <1>3, ThresholdFacts
  <1>5. ASSUME NEW t \in 0 .. R!BurstSpan - 1, t \in S
        PROVE  t + 1 \in S
    <2>1. /\ t \in 0 .. R!BurstSpan /\ t + 1 \in 0 .. R!BurstSpan /\ f[t] = e[t] + n
          /\ e[t] \in Nat /\ g[t + 1] \in Nat
      BY <1>2, <1>5, ThresholdFacts
    <2>2. f[t + 1] = f[t] + g[t + 1] /\ e[t + 1] = e[t] + g[t + 1]
      BY <1>1, <1>2, <1>3
    <2>3. f[t + 1] = e[t + 1] + n
      BY <2>1, <2>2
    <2> QED
      BY <2>1, <2>3
  <1>6. S \in SUBSET Nat
    OBVIOUS
  <1>7. \A t \in 0 .. R!BurstSpan : t \in S
    <2> HIDE DEF S
    <2> QED
      BY <1>4, <1>5, <1>6, Sub!Induction, ThresholdFacts
  <1>8. \A t \in 0 .. R!BurstSpan : f[t] = e[t] + n
    BY <1>7, ThresholdFacts
  <1> QED
    BY <1>1, <1>8 DEF f, e, h

LEMMA SumsLater ==
    ASSUME NEW g \in [0 .. R!BurstSpan -> Nat], NEW h \in [0 .. R!BurstSpan -> Nat],
           \A t \in 0 .. R!BurstSpan : h[t] = IF t = 0 THEN 0 ELSE g[t - 1]
    PROVE  /\ Sums(h)[0] = 0
           /\ \A t \in 0 .. R!BurstSpan - 1 : Sums(h)[t + 1] = Sums(g)[t]
  <1> DEFINE e == Sums(g)
             f == Sums(h)
             S == {t \in Nat : t <= R!BurstSpan => f[t] = IF t = 0 THEN 0 ELSE e[t - 1]}
  <1>1. /\ h[0] = 0
        /\ \A t \in 0 .. R!BurstSpan - 1 : h[t + 1] = g[t]
    <2>1. h[0] = 0
      BY ThresholdFacts
    <2>2. ASSUME NEW t \in 0 .. R!BurstSpan - 1
          PROVE  h[t + 1] = g[t]
      <3> DEFINE u == t + 1
      <3>1. u \in 0 .. R!BurstSpan /\ u # 0 /\ u - 1 = t
        BY ThresholdFacts
      <3> HIDE DEF u
      <3>2. h[u] = g[u - 1]
        BY <3>1
      <3> QED
        BY <3>1, <3>2 DEF u
    <2> QED
      BY <2>1, <2>2
  <1>2. /\ e[0] = g[0] /\ \A t \in 0 .. R!BurstSpan : e[t] \in Nat
        /\ \A t \in 0 .. R!BurstSpan - 1 : e[t + 1] = e[t] + g[t + 1]
    BY SumOf DEF Sums
  <1>3. /\ f[0] = h[0]
        /\ \A t \in 0 .. R!BurstSpan - 1 : f[t + 1] = f[t] + h[t + 1]
    BY SumOf DEF Sums
  <1> HIDE DEF e, f
  <1>4. 0 \in S
    BY <1>1, <1>3
  <1>5. ASSUME NEW t \in 0 .. R!BurstSpan - 1, t \in S
        PROVE  t + 1 \in S
    <2>1. /\ t \in 0 .. R!BurstSpan /\ t + 1 \in 0 .. R!BurstSpan
          /\ (t + 1) - 1 = t /\ t + 1 # 0 /\ t + 1 \in Nat
      BY ThresholdFacts
    <2>2. f[t + 1] = f[t] + g[t]
      BY <1>1, <1>3
    <2>3. f[t + 1] = e[t]
      <3>1. CASE t = 0
        <4>1. f[t] = 0 /\ e[t] = g[t] /\ g[t] \in Nat
          BY <1>1, <1>2, <1>3, <2>1, <3>1
        <4> QED
          BY <2>2, <4>1
      <3>2. CASE t # 0
        <4>1. f[t] = e[t - 1]
          BY <1>5, <2>1, <3>2
        <4> DEFINE u == t - 1
        <4>2. u \in 0 .. R!BurstSpan - 1 /\ u + 1 = t
          BY <3>2, ThresholdFacts
        <4> HIDE DEF u
        <4>3. e[u + 1] = e[u] + g[u + 1]
          BY <1>2, <4>2
        <4>4. e[t] = e[u] + g[t] /\ f[t] = e[u]
          BY <4>1, <4>2, <4>3 DEF u
        <4> QED
          BY <2>2, <4>4
      <3> QED
        BY <3>1, <3>2
    <2>4. f[t + 1] = IF t + 1 = 0 THEN 0 ELSE e[(t + 1) - 1]
      BY <2>1, <2>3
    <2> QED
      BY <2>1, <2>4
  <1>6. S \in SUBSET Nat
    OBVIOUS
  <1>7. \A t \in 0 .. R!BurstSpan : t \in S
    <2> HIDE DEF S
    <2> QED
      BY <1>4, <1>5, <1>6, Sub!Induction, ThresholdFacts
  <1>8. ASSUME NEW t \in 0 .. R!BurstSpan - 1
        PROVE  f[t + 1] = e[t]
    <2>1. t + 1 \in 0 .. R!BurstSpan /\ (t + 1) - 1 = t /\ t + 1 # 0
      BY ThresholdFacts
    <2>2. f[t + 1] = IF t + 1 = 0 THEN 0 ELSE e[(t + 1) - 1]
      BY <1>7, <2>1
    <2> QED
      BY <2>1, <2>2
  <1> QED
    BY <1>1, <1>3, <1>8 DEF f, e

LossFields == {"windowAge", "frames", "events", "burstAge", "burst", "gateAge", "streak"}

\* The frames lost and not answered are those of the burst that is counted, which is not
\* enough, and no more than another burst that had begun before.
LossInv ==
    /\ lost \in [0 .. R!BurstSpan -> Nat] /\ DOMAIN loss = LossFields
    /\ loss.burst \in Nat /\ loss.burst < R!LargestBurst
    /\ loss.burstAge \in 0 .. R!Cap \cup {R!Never}
    /\ loss.burstAge = R!Never => \A t \in 0 .. R!BurstSpan : Sums(lost)[t] = 0
    /\ loss.burstAge # R!Never =>
           /\ Sums(lost)[R!BurstSpan] <= loss.burst + (R!LargestBurst - 1)
           /\ \A t \in 0 .. R!BurstSpan : t < loss.burstAge => Sums(lost)[t] <= loss.burst

\* The restarts are counted, and the last one is as old as the cooldown takes it for.
RestartInv ==
    /\ DOMAIN restart = {"fast", "count", "actionAge", "stopRequested"}
    /\ DOMAIN requests = {"n", "age", "soon", "early"}
    /\ restart.count \in Nat /\ restart.count <= MaxReconnects
    /\ requests.n = restart.count /\ requests.age = restart.actionAge
    /\ requests.soon = FALSE

\* What a loss does to the count of the burst.
LEMMA EventCounts ==
    ASSUME NEW p \in MCProfiles, NEW n \in Nat, LossInv
    PROVE  LET e == R!LossEvent(loss, p, n)
               open == R!Within(loss.burstAge, p.burstWindow)
           IN  /\ DOMAIN e.loss = LossFields
               /\ \/ /\ e.loss.burst = (IF open THEN loss.burst + n ELSE n)
                     /\ e.loss.burstAge = (IF open THEN loss.burstAge ELSE 0)
                     /\ e.loss.burst < R!LargestBurst /\ e.loss.burst \in Nat
                  \/ /\ e.loss.burst = 0 /\ e.loss.burstAge = R!Never
                     /\ e.asked \/ R!Passive
  <1> DEFINE e == R!LossEvent(loss, p, n)
             open == R!Within(loss.burstAge, p.burstWindow)
             window == R!CountWindow(loss, p, n)
             counted == R!CountBurst(window, p, n)
  <1>1. /\ DOMAIN window = LossFields /\ window.burst = loss.burst
        /\ window.burstAge = loss.burstAge
    BY DEF R!CountWindow, LossInv, LossFields
  <1> HIDE DEF window
  <1>2. /\ DOMAIN counted = LossFields
        /\ counted.burst = (IF open THEN loss.burst + n ELSE n)
        /\ counted.burstAge = (IF open THEN loss.burstAge ELSE 0)
    BY <1>1 DEF R!CountBurst, LossFields
  <1> HIDE DEF counted, open
  <1> DEFINE emptied == [counted EXCEPT !.windowAge = 0, !.frames = 0, !.events = 0,
                                        !.burstAge = R!Never, !.burst = 0]
             gated == [emptied EXCEPT !.gateAge = IF R!Within(@, GateSpan) THEN @ ELSE 0]
  <1>3. e = IF ~R!Sustained(counted, p) THEN [loss |-> counted, asked |-> FALSE]
            ELSE IF R!Passive THEN [loss |-> emptied, asked |-> FALSE]
            ELSE [loss |-> gated, asked |-> TRUE]
    BY DEF R!LossEvent, counted, window
  <1>4. /\ DOMAIN emptied = LossFields /\ emptied.burst = 0 /\ emptied.burstAge = R!Never
        /\ DOMAIN gated = LossFields /\ gated.burst = 0 /\ gated.burstAge = R!Never
    BY <1>2 DEF LossFields
  <1> HIDE DEF emptied, gated, e
  <1>5. CASE ~R!Sustained(counted, p)
    <2>1. counted.burst \in Nat
      BY <1>2 DEF LossInv
    <2>2. ~(counted.burst >= p.burst)
      BY <1>5 DEF R!Sustained
    <2>3. counted.burst < R!LargestBurst
      BY <2>1, <2>2, ThresholdFacts
    <2> QED
      BY <1>2, <1>3, <1>5, <2>1, <2>3 DEF e, open
  <1>6. CASE R!Sustained(counted, p)
    BY <1>3, <1>4, <1>6 DEF e
  <1> QED
    BY <1>5, <1>6

\* The count of frames that could not be decoded is another one.
LEMMA UnrecoveredKeeps ==
    ASSUME NEW s, DOMAIN s = LossFields, NEW n, NEW recovered
    PROVE  LET u == R!UnrecoveredLoss(s, n, recovered)
           IN  DOMAIN u.loss = LossFields /\ u.loss.burst = s.burst /\ u.loss.burstAge = s.burstAge
  BY DEF R!UnrecoveredLoss, LossFields

\* A frame after lost ones.
LEMMA FrameCounts ==
    ASSUME LossInv, NEW p \in MCProfiles, NEW n \in 0 .. MaxLost, NEW recovered, NEW isLow,
           NEW accepted, R!Frame(p, n, recovered, isLow, accepted)
    PROVE  LossInv'
  <1> DEFINE none == [t \in 0 .. R!BurstSpan |-> 0]
             more == [lost EXCEPT ![0] = @ + n]
             open == R!Within(loss.burstAge, p.burstWindow)
             span == R!BurstSpan
  <1>0. /\ MaxLost \in Nat
    BY MCClientAssumption DEF R!RecoveryAssumption
  <1>1. /\ n \in Nat /\ lost \in [0 .. span -> Nat] /\ DOMAIN lost = 0 .. span
        /\ span \in Nat /\ R!LargestBurst \in Nat \ {0} /\ R!Cap \in Nat /\ span < R!Cap
        /\ R!Never = R!Cap + 1
        /\ loss.burst \in Nat /\ loss.burst < R!LargestBurst
        /\ loss.burstAge \in 0 .. R!Cap \cup {R!Never}
        /\ DOMAIN loss = LossFields
    BY <1>0, ThresholdFacts DEF LossInv
  <1>2. /\ DOMAIN loss' = LossFields
        /\ \/ n = 0 /\ loss'.burst = loss.burst /\ loss'.burstAge = loss.burstAge
           \/ /\ loss'.burst = (IF open THEN loss.burst + n ELSE n)
              /\ loss'.burstAge = (IF open THEN loss.burstAge ELSE 0)
              /\ loss'.burst < R!LargestBurst /\ loss'.burst \in Nat
           \/ loss'.burst = 0 /\ loss'.burstAge = R!Never /\ lost' = none
        /\ lost' = none \/ lost' = more
    <2> DEFINE event == IF n = 0 THEN [loss |-> loss, asked |-> FALSE]
                        ELSE R!LossEvent(loss, p, n)
               whole == IF n = 0 THEN event ELSE R!UnrecoveredLoss(event.loss, n, recovered)
               asked == event.asked \/ whole.asked
    <2>1. /\ loss' = whole.loss
          /\ lost' = IF asked \/ R!Passive THEN none ELSE more
      BY <1>1 DEF R!Frame
    <2>2. CASE n = 0
      BY <1>1, <2>1, <2>2
    <2>3. CASE n # 0
      <3> DEFINE e == R!LossEvent(loss, p, n)
                 u == R!UnrecoveredLoss(e.loss, n, recovered)
      <3>1. /\ loss' = u.loss
            /\ lost' = IF (e.asked \/ u.asked) \/ R!Passive THEN none ELSE more
        BY <2>1, <2>3
      <3>2. /\ DOMAIN e.loss = LossFields
            /\ \/ /\ e.loss.burst = (IF open THEN loss.burst + n ELSE n)
                  /\ e.loss.burstAge = (IF open THEN loss.burstAge ELSE 0)
                  /\ e.loss.burst < R!LargestBurst /\ e.loss.burst \in Nat
               \/ /\ e.loss.burst = 0 /\ e.loss.burstAge = R!Never
                  /\ e.asked \/ R!Passive
        BY <1>1, EventCounts
      <3> HIDE DEF e, open
      <3>3. DOMAIN u.loss = LossFields /\ u.loss.burst = e.loss.burst
            /\ u.loss.burstAge = e.loss.burstAge
        BY <3>2, UnrecoveredKeeps
      <3> HIDE DEF u
      <3>4. lost' = none \/ lost' = more
        BY <3>1
      <3>5. e.asked \/ R!Passive => lost' = none
        BY <3>1
      <3> HIDE DEF none, more
      <3> QED
        BY <3>1, <3>2, <3>3, <3>4, <3>5
    <2> QED
      BY <2>2, <2>3
  <1>3. /\ none \in [0 .. span -> Nat] /\ \A t \in 0 .. span : Sums(none)[t] = 0
    <2>1. none \in [0 .. span -> Nat] /\ \A t \in 0 .. span : none[t] = 0
      OBVIOUS
    <2> HIDE DEF none
    <2> QED
      BY <2>1, SumsOfNothing
  <1>4. more \in [0 .. span -> Nat] /\ \A t \in 0 .. span : Sums(more)[t] = Sums(lost)[t] + n
    BY <1>1, SumsOfMore
  <1>5. \A t \in 0 .. span : Sums(lost)[t] \in Nat
    BY <1>1, SumOf DEF Sums
  <1>6. loss.burstAge = R!Never => \A t \in 0 .. span : Sums(lost)[t] = 0
    BY DEF LossInv
  <1>7. loss.burstAge # R!Never =>
           /\ Sums(lost)[span] <= loss.burst + (R!LargestBurst - 1)
           /\ \A t \in 0 .. span : t < loss.burstAge => Sums(lost)[t] <= loss.burst
    BY DEF LossInv
  <1>8. /\ lost' \in [0 .. span -> Nat]
        /\ \A t \in 0 .. span : Sums(lost')[t] = 0
           \/ Sums(lost')[t] = Sums(lost)[t] + n
    <2> HIDE DEF none, more
    <2> QED
      BY <1>2, <1>3, <1>4
  <1>9. ~open => loss.burstAge = R!Never \/ span < loss.burstAge
    BY <1>1, ThresholdFacts DEF R!Within
  <1>10. open => loss.burstAge # R!Never
    BY DEF R!Within
  <1> DEFINE f == Sums(lost)
             h == Sums(lost')
             b == loss.burst
             a == loss.burstAge
             L == R!LargestBurst
  <1>11. lost' = none => \A t \in 0 .. span : h[t] = 0
    BY <1>3
  <1> HIDE DEF f, h, none, more, open, span
  <1>12. \A t \in 0 .. span : f[t] \in Nat /\ (h[t] = 0 \/ h[t] = f[t] + n)
    BY <1>5, <1>8 DEF f, h
  <1>13. span \in 0 .. span
    BY <1>1
  <1>14. a = R!Never => \A t \in 0 .. span : f[t] = 0
    BY <1>6 DEF f
  <1>15. a # R!Never => /\ f[span] <= b + (L - 1)
                        /\ \A t \in 0 .. span : t < a => f[t] <= b
    BY <1>7 DEF f
  <1>16. /\ loss'.burst \in Nat /\ loss'.burst < L
         /\ loss'.burstAge \in 0 .. R!Cap \cup {R!Never}
         /\ loss'.burstAge = R!Never => \A t \in 0 .. span : h[t] = 0
         /\ loss'.burstAge # R!Never =>
                /\ h[span] <= loss'.burst + (L - 1)
                /\ \A t \in 0 .. span : t < loss'.burstAge => h[t] <= loss'.burst
    <2>1. CASE n = 0 /\ loss'.burst = b /\ loss'.burstAge = a
      <3>1. \A t \in 0 .. span : f[t] \in Nat /\ (h[t] = 0 \/ h[t] = f[t])
        BY <1>12, <2>1
      <3>2. \A t \in 0 .. span : f[t] = 0 => h[t] = 0
        BY <3>1
      <3>3. ASSUME NEW t \in 0 .. span, f[t] <= b
            PROVE  h[t] <= b
        BY <1>1, <3>1, <3>3
      <3>4. f[span] <= b + (L - 1) => h[span] <= b + (L - 1)
        BY <1>1, <1>13, <3>1
      <3> QED
        BY <1>1, <1>14, <1>15, <2>1, <3>2, <3>3, <3>4
    <2>2. CASE /\ loss'.burst = (IF open THEN b + n ELSE n)
               /\ loss'.burstAge = (IF open THEN a ELSE 0)
               /\ loss'.burst < L /\ loss'.burst \in Nat
      <3>1. CASE open
        <4>1. loss'.burst = b + n /\ loss'.burstAge = a /\ a # R!Never
          BY <1>10, <2>2, <3>1
        <4>2. f[span] <= b + (L - 1) /\ \A t \in 0 .. span : t < a => f[t] <= b
          BY <1>15, <4>1
        <4>3. h[span] <= (b + n) + (L - 1)
          BY <1>1, <1>12, <1>13, <4>2
        <4>4. ASSUME NEW t \in 0 .. span, t < a
              PROVE  h[t] <= b + n
          <5>1. f[t] \in Nat /\ f[t] <= b /\ (h[t] = 0 \/ h[t] = f[t] + n)
            BY <1>12, <4>2, <4>4
          <5> QED
            BY <1>1, <5>1
        <4> QED
          BY <1>1, <2>2, <4>1, <4>3, <4>4
      <3>2. CASE ~open
        <4>1. loss'.burst = n /\ loss'.burstAge = 0 /\ 0 # R!Never
          BY <1>1, <2>2, <3>2
        <4>2. f[span] <= L - 1
          <5>1. CASE a = R!Never
            BY <1>1, <1>13, <1>14, <5>1
          <5>2. CASE a # R!Never
            BY <1>1, <1>9, <1>12, <1>13, <1>15, <3>2, <5>2
          <5> QED
            BY <5>1, <5>2
        <4>3. h[span] <= n + (L - 1)
          BY <1>1, <1>12, <1>13, <4>2
        <4>4. \A t \in 0 .. span : ~(t < loss'.burstAge)
          BY <1>1, <4>1
        <4>5. loss'.burstAge \in 0 .. R!Cap /\ loss'.burstAge # R!Never
          BY <1>1, <4>1
        <4>6. h[span] <= loss'.burst + (L - 1)
          BY <4>1, <4>3
        <4> QED
          BY <2>2, <4>4, <4>5, <4>6
      <3> QED
        BY <3>1, <3>2
    <2>3. CASE loss'.burst = 0 /\ loss'.burstAge = R!Never /\ lost' = none
      <3>1. \A t \in 0 .. span : h[t] = 0
        BY <1>11, <2>3
      <3>2. 0 \in Nat /\ 0 < L
        BY <1>1
      <3> QED
        BY <2>3, <3>1, <3>2
    <2> QED
      BY <1>2, <2>1, <2>2, <2>3
  <1> QED
    BY <1>2, <1>8, <1>16 DEF LossInv, h, span

\* A tick of the clock.
LEMMA TickCounts == LossInv /\ R!Tick => LossInv'
  <1> SUFFICES ASSUME LossInv, R!Tick PROVE LossInv'
    OBVIOUS
  <1> DEFINE span == R!BurstSpan
             f == Sums(lost)
             h == Sums(lost')
             a == loss.burstAge
             b == loss.burst
  <1>1. /\ lost \in [0 .. span -> Nat] /\ DOMAIN lost = 0 .. span /\ DOMAIN loss = LossFields
        /\ span \in Nat /\ R!LargestBurst \in Nat \ {0} /\ R!Cap \in Nat /\ span < R!Cap
        /\ R!Never = R!Cap + 1
        /\ b \in Nat /\ b < R!LargestBurst /\ a \in 0 .. R!Cap \cup {R!Never}
    BY ThresholdFacts DEF LossInv
  <1>2. /\ DOMAIN loss' = LossFields /\ loss'.burst = b /\ loss'.burstAge = R!Older(a)
        /\ lost' = [t \in 0 .. span |-> IF t = 0 THEN 0 ELSE lost[t - 1]]
    BY <1>1 DEF R!Tick, LossFields
  <1>3. lost' \in [0 .. span -> Nat]
        /\ \A t \in 0 .. span : lost'[t] = IF t = 0 THEN 0 ELSE lost[t - 1]
    <2>1. \A t \in 0 .. span : t # 0 => t - 1 \in 0 .. span
      BY <1>1
    <2>2. \A t \in 0 .. span : t # 0 => lost[t - 1] \in Nat
      BY <1>1, <2>1
    <2> QED
      BY <1>2, <2>2
  <1>4. h[0] = 0 /\ \A t \in 0 .. span - 1 : h[t + 1] = f[t]
    BY <1>1, <1>3, SumsLater
  <1>5. /\ \A t \in 0 .. span : f[t] \in Nat
        /\ \A t \in 0 .. span - 1 : f[t + 1] = f[t] + lost[t + 1]
    BY <1>1, SumOf DEF Sums
  <1>6. /\ a = R!Never => \A t \in 0 .. span : f[t] = 0
        /\ a # R!Never => /\ f[span] <= b + (R!LargestBurst - 1)
                          /\ \A t \in 0 .. span : t < a => f[t] <= b
    BY DEF LossInv
  <1> HIDE DEF f, h
  <1>7. /\ a = R!Never \/ a = R!Cap => R!Older(a) = a
        /\ a # R!Never /\ a # R!Cap => R!Older(a) = a + 1
    BY DEF R!Older
  <1>8. ASSUME NEW t \in 0 .. span, t # 0
        PROVE  t - 1 \in 0 .. span - 1 /\ t - 1 \in 0 .. span /\ h[t] = f[t - 1]
    <2> DEFINE u == t - 1
    <2>1. u \in 0 .. span - 1 /\ u \in 0 .. span /\ u + 1 = t
      BY <1>1, <1>8
    <2> HIDE DEF u
    <2>2. h[u + 1] = f[u]
      BY <1>4, <2>1
    <2> QED
      BY <2>1, <2>2 DEF u
  <1>9. R!Older(a) \in 0 .. R!Cap \cup {R!Never} /\ (R!Older(a) = R!Never <=> a = R!Never)
    BY <1>1, <1>7
  <1>10. ASSUME a = R!Never, NEW t \in 0 .. span
         PROVE  h[t] = 0
    BY <1>4, <1>6, <1>8, <1>10
  <1>11. ASSUME a # R!Never
         PROVE  h[span] <= b + (R!LargestBurst - 1)
    <2>1. CASE span = 0
      BY <1>1, <1>4, <2>1
    <2>2. CASE span # 0
      <3> DEFINE u == span - 1
      <3>1. u \in 0 .. span - 1 /\ u \in 0 .. span /\ u + 1 = span /\ span \in 0 .. span
        BY <1>1, <2>2
      <3> HIDE DEF u
      <3>2. f[u + 1] = f[u] + lost[u + 1] /\ h[u + 1] = f[u]
        BY <1>4, <1>5, <3>1
      <3>3. f[span] = f[u] + lost[span] /\ h[span] = f[u] /\ f[u] \in Nat /\ lost[span] \in Nat
        BY <1>1, <1>5, <3>1, <3>2
      <3>4. f[u] <= f[span] /\ f[span] \in Nat
        BY <3>3
      <3> QED
        BY <1>1, <1>6, <1>11, <3>3, <3>4
    <2> QED
      BY <2>1, <2>2
  <1>12. ASSUME a # R!Never, NEW t \in 0 .. span, t < R!Older(a)
         PROVE  h[t] <= b
    <2>1. CASE t = 0
      BY <1>1, <1>4, <2>1
    <2>2. CASE t # 0
      <3>1. t - 1 \in 0 .. span /\ h[t] = f[t - 1]
        BY <1>8, <2>2
      <3>2. t - 1 < a
        BY <1>1, <1>7, <1>12, <2>2
      <3> QED
        BY <1>6, <1>12, <3>1, <3>2
    <2> QED
      BY <2>1, <2>2
  <1> QED
    BY <1>1, <1>2, <1>3, <1>9, <1>10, <1>11, <1>12 DEF LossInv, h

\* Init and a new stream.
LEMMA NothingCounts ==
    ASSUME NEW g, g = [t \in 0 .. R!BurstSpan |-> 0]
    PROVE  g \in [0 .. R!BurstSpan -> Nat] /\ \A t \in 0 .. R!BurstSpan : Sums(g)[t] = 0
  <1>1. g \in [0 .. R!BurstSpan -> Nat] /\ \A t \in 0 .. R!BurstSpan : g[t] = 0
    OBVIOUS
  <1> QED
    BY <1>1, SumsOfNothing

LEMMA FreshLoss ==
    /\ DOMAIN R!NoLoss = LossFields /\ R!NoLoss.burst = 0 /\ R!NoLoss.burstAge = R!Never
  BY DEF R!NoLoss, LossFields

LEMMA RecoveryInit == R!Init => LossInv /\ RestartInv
  <1> SUFFICES ASSUME R!Init PROVE LossInv /\ RestartInv
    OBVIOUS
  <1>1. /\ loss = R!NoLoss /\ restart = R!NoRestart /\ lost = [t \in 0 .. R!BurstSpan |-> 0]
        /\ requests = R!NoRequest(FALSE, FALSE)
    BY DEF R!Init
  <1>2. LossInv
    BY <1>1, NothingCounts, FreshLoss, ThresholdFacts DEF LossInv
  <1>3. RestartInv
    <2>1. MaxReconnects \in Nat
      BY MCClientAssumption DEF R!RecoveryAssumption
    <2> QED
      BY <1>1, <2>1 DEF RestartInv, R!NoRestart, R!NoRequest
  <1> QED
    BY <1>2, <1>3

LEMMA LossStep == LossInv /\ R!Next => LossInv'
  <1> SUFFICES ASSUME LossInv, R!Next PROVE LossInv'
    OBVIOUS
  <1>1. ASSUME NEW p \in MCProfiles, NEW n \in 0 .. MaxLost,
               NEW recovered \in BOOLEAN, NEW isLow \in BOOLEAN, NEW accepted \in BOOLEAN,
               R!Frame(p, n, recovered, isLow, accepted)
        PROVE  LossInv'
    BY <1>1, FrameCounts
  <1>2. ASSUME R!Connected \/ R!Stop
        PROVE  LossInv'
    <2>1. loss' = loss /\ lost' = lost
      BY <1>2 DEF R!Connected, R!Stop
    <2> QED
      BY <2>1 DEF LossInv
  <1>3. ASSUME R!NewStream
        PROVE  LossInv'
    <2>1. loss' = R!NoLoss /\ lost' = [t \in 0 .. R!BurstSpan |-> 0]
      BY <1>3 DEF R!NewStream, LossInv
    <2>2. /\ lost' \in [0 .. R!BurstSpan -> Nat]
          /\ \A t \in 0 .. R!BurstSpan : Sums(lost')[t] = 0
      BY <2>1, NothingCounts
    <2> QED
      BY <2>1, <2>2, FreshLoss, ThresholdFacts DEF LossInv
  <1> QED
    BY <1>1, <1>2, <1>3, TickCounts DEF R!Next

LEMMA RestartStep == RestartInv /\ R!Next => RestartInv'
  <1> SUFFICES ASSUME RestartInv, R!Next PROVE RestartInv'
    OBVIOUS
  <1>0. MaxReconnects \in Nat
    BY MCClientAssumption DEF R!RecoveryAssumption
  <1>1. ASSUME NEW p \in MCProfiles, NEW n \in 0 .. MaxLost,
               NEW recovered \in BOOLEAN, NEW isLow \in BOOLEAN, NEW accepted \in BOOLEAN,
               R!Frame(p, n, recovered, isLow, accepted)
        PROVE  RestartInv'
    <2>1. UNCHANGED <<restart, requests>> \/ R!Request(accepted)
      BY <1>1 DEF R!Frame, R!Metrics, R!BitrateTrigger
    <2>2. CASE R!RestartAllowed /\ accepted /\ R!Request(accepted)
      <3>1. /\ restart' = [restart EXCEPT !.fast = TRUE, !.count = @ + 1, !.actionAge = 0]
            /\ requests' = [n |-> requests.n + 1, age |-> 0,
                            soon |-> requests.soon \/ (requests.age # R!Never
                                                       /\ requests.age < Cooldown),
                            early |-> requests.early \/ lowFor < LowSpan]
        BY <2>2 DEF R!Request
      <3>2. restart.count < MaxReconnects
            /\ ~(restart.actionAge # R!Never /\ restart.actionAge < Cooldown)
        BY <2>2 DEF R!RestartAllowed
      <3>3. requests'.soon = FALSE /\ requests'.n = requests.n + 1 /\ requests'.age = 0
            /\ DOMAIN requests' = {"n", "age", "soon", "early"}
        BY <3>1, <3>2 DEF RestartInv
      <3>4. restart'.count = restart.count + 1 /\ restart'.actionAge = 0
            /\ DOMAIN restart' = {"fast", "count", "actionAge", "stopRequested"}
        BY <3>1 DEF RestartInv
      <3> QED
        BY <1>0, <3>2, <3>3, <3>4 DEF RestartInv
    <2>3. CASE UNCHANGED <<restart, requests>>
      BY <2>3 DEF RestartInv
    <2> QED
      BY <2>1, <2>2, <2>3 DEF R!Request
  <1>2. ASSUME R!Connected \/ R!Stop
        PROVE  RestartInv'
    BY <1>2 DEF R!Connected, R!Stop, RestartInv
  <1>3. ASSUME R!NewStream
        PROVE  RestartInv'
    BY <1>0, <1>3 DEF R!NewStream, R!NoRestart, R!NoRequest, RestartInv
  <1>4. ASSUME R!Tick
        PROVE  RestartInv'
    BY <1>4 DEF R!Tick, RestartInv
  <1> QED
    BY <1>1, <1>2, <1>3, <1>4 DEF R!Next

LEMMA RecoveryStutter ==
    LossInv /\ RestartInv /\ UNCHANGED recoveryVars => LossInv' /\ RestartInv'
  BY DEF LossInv, RestartInv, recoveryVars

LEMMA RecoveryPromise == LossInv /\ RestartInv => R!LossAnswered /\ R!NoRestartStorm
  <1> SUFFICES ASSUME LossInv, RestartInv PROVE R!LossAnswered /\ R!NoRestartStorm
    OBVIOUS
  <1> DEFINE f == Sums(lost)
  <1>1. R!LostWithin = f
    BY DEF R!LostWithin, Sums, IsSum
  <1>2. /\ R!BurstSpan \in 0 .. R!BurstSpan /\ R!LargestBurst \in Nat \ {0}
    BY ThresholdFacts
  <1>3. f[R!BurstSpan] <= 2 * (R!LargestBurst - 1)
    <2>1. loss.burst \in Nat /\ loss.burst <= R!LargestBurst - 1
      BY <1>2 DEF LossInv
    <2>2. CASE loss.burstAge = R!Never
      <3>1. f[R!BurstSpan] = 0
        BY <1>2, <2>2 DEF LossInv
      <3> HIDE DEF f
      <3> QED
        BY <1>2, <3>1
    <2>3. CASE loss.burstAge # R!Never
      <3>1. f[R!BurstSpan] <= loss.burst + (R!LargestBurst - 1)
        BY <2>3 DEF LossInv
      <3>2. f[R!BurstSpan] \in Nat
        BY <1>2, SumOf DEF Sums, LossInv
      <3> HIDE DEF f
      <3> QED
        BY <1>2, <2>1, <3>1, <3>2
    <2> QED
      BY <2>2, <2>3
  <1>4. R!LossAnswered
    <2> HIDE DEF f
    <2> QED
      BY <1>1, <1>3 DEF R!LossAnswered
  <1>5. R!NoRestartStorm
    BY DEF RestartInv, R!NoRestartStorm
  <1> QED
    BY <1>4, <1>5

\* However many frames are lost with one, however the losses fall into windows of any
\* length: a key frame is asked for before the frames lost within a burst are two bursts;
\* restarts are as few and as far between as they are meant to be
\* (host_feedback.c, 54-199; host_recovery.c, 30-144).
THEOREM LossesAreAnswered == Spec => []LossesAnswered
  <1> DEFINE Inv == LossInv /\ RestartInv
  <1>1. Init => Inv
    BY RecoveryInit DEF Init
  <1>2. Inv /\ [Next]_vars => Inv'
    BY BenchStep, LossStep, RestartStep, RecoveryStutter
  <1>3. Inv => LossesAnswered
    BY RecoveryPromise DEF LossesAnswered
  <1> QED
    BY <1>1, <1>2, <1>3, PTL DEF Spec

-----------------------------------------------------------------------------
(* The losses of the video *)

\* What is used of the assumptions on the video.
LEMMA VideoConstants ==
    /\ VideoModulus \in Nat /\ VideoModulus > 0
    /\ V!Half \in Nat /\ VideoModulus = 2 * V!Half
    /\ MaxSkipped \in Nat /\ MaxSkipped < V!Half
    /\ MaxFrames \in Nat /\ MaxFrames < VideoModulus - 2
    /\ SkipThreshold \in Nat /\ SkipThreshold > 0
    /\ V!SeqNums = 0 .. VideoModulus - 1
  <1>1. V!ModulusAssumption /\ V!VideoAssumption
    BY MCClientAssumption
  <1>2. /\ MaxSkipped \in Nat /\ MaxSkipped < V!Half
        /\ MaxFrames \in Nat /\ MaxFrames < VideoModulus - 2
        /\ SkipThreshold \in Nat \ {0}
    BY <1>1 DEF V!VideoAssumption
  <1>3. VideoNum!ModulusAssumption /\ VideoNum!Half = V!Half
    BY <1>1 DEF V!ModulusAssumption, VideoNum!ModulusAssumption, V!Half, VideoNum!Half
  <1>4. /\ VideoModulus \in Nat /\ VideoModulus > 0
        /\ V!Half \in Nat /\ VideoModulus = 2 * V!Half
    BY <1>3, VideoNum!ModulusFacts
  <1> QED
    BY <1>2, <1>4 DEF V!SeqNums

\* Remainders near the range.
LEMMA NearRemainder ==
    ASSUME NEW x \in Int
    PROVE  /\ 0 <= x /\ x < VideoModulus => x % VideoModulus = x
           /\ VideoModulus <= x /\ x < 2 * VideoModulus => x % VideoModulus = x - VideoModulus
           /\ x < 0 /\ -VideoModulus <= x => x % VideoModulus = x + VideoModulus
  <1> DEFINE m == VideoModulus
  <1>1. m \in Nat /\ m > 0
    BY VideoConstants
  <1> HIDE DEF m
  <1>2. ASSUME 0 <= x, x < m
        PROVE  x % m = x
    <2>1. (m * 0 + x) % m = x
      BY <1>1, <1>2, VideoNum!RemainderUnique
    <2> QED
      BY <1>1, <2>1
  <1>3. ASSUME m <= x, x < 2 * m
        PROVE  x % m = x - m
    <2>1. PICK r : r = x - m
      OBVIOUS
    <2>2. r \in 0 .. m - 1 /\ x = m * 1 + r
      BY <1>1, <1>3, <2>1
    <2>3. (m * 1 + r) % m = r
      BY <1>1, <2>2, VideoNum!RemainderUnique
    <2> QED
      BY <2>1, <2>2, <2>3
  <1>4. ASSUME x < 0, -m <= x
        PROVE  x % m = x + m
    <2>1. PICK r : r = x + m
      OBVIOUS
    <2>2. r \in 0 .. m - 1 /\ x = m * (-1) + r
      BY <1>1, <1>4, <2>1
    <2>3. (m * (-1) + r) % m = r
      BY <1>1, <2>2, VideoNum!RemainderUnique
    <2> QED
      BY <2>1, <2>2, <2>3
  <1> QED
    BY <1>2, <1>3, <1>4 DEF m

\* The position of a frame in a run that begins after number z.
Pos(z, n) == IF n >= z THEN n - z ELSE (n - z) + VideoModulus

\* Positions tell frames apart, and follow each other as their numbers do.
LEMMA PosOf ==
    ASSUME NEW z \in V!SeqNums, NEW n \in V!SeqNums
    PROVE  /\ Pos(z, n) \in 0 .. VideoModulus - 1 /\ Pos(z, n) \in Nat
           /\ \A m \in V!SeqNums : Pos(z, m) = Pos(z, n) => m = n
           /\ Pos(z, n) < VideoModulus - 1 =>
                  V!Next16(n) \in V!SeqNums /\ Pos(z, V!Next16(n)) = Pos(z, n) + 1
           /\ Pos(z, n) > 0 =>
                  /\ V!Add(n, VideoModulus - 1) \in V!SeqNums
                  /\ Pos(z, V!Add(n, VideoModulus - 1)) = Pos(z, n) - 1
  <1>0. /\ VideoModulus \in Nat /\ VideoModulus > 0
        /\ z \in Nat /\ z < VideoModulus /\ n \in Nat /\ n < VideoModulus
    BY VideoConstants
  <1>1. Pos(z, n) \in 0 .. VideoModulus - 1 /\ Pos(z, n) \in Nat
    BY <1>0 DEF Pos
  <1>2. ASSUME NEW m \in V!SeqNums, Pos(z, m) = Pos(z, n)
        PROVE  m = n
    <2>1. m \in Nat /\ m < VideoModulus
      BY VideoConstants
    <2> QED
      BY <1>0, <1>2, <2>1 DEF Pos
  <1>3. ASSUME Pos(z, n) < VideoModulus - 1
        PROVE  V!Next16(n) \in V!SeqNums /\ Pos(z, V!Next16(n)) = Pos(z, n) + 1
    <2>1. PICK e : e = V!Next16(n)
      OBVIOUS
    <2>2. e = (n + 1) % VideoModulus
      BY <2>1 DEF V!Next16, V!Add, V!Wrap
    <2>3. e = IF n + 1 < VideoModulus THEN n + 1 ELSE (n + 1) - VideoModulus
      BY <1>0, <2>2, NearRemainder
    <2> QED
      BY <1>0, <1>3, <2>1, <2>3, VideoConstants DEF Pos
  <1>4. ASSUME Pos(z, n) > 0
        PROVE  /\ V!Add(n, VideoModulus - 1) \in V!SeqNums
               /\ Pos(z, V!Add(n, VideoModulus - 1)) = Pos(z, n) - 1
    <2>1. PICK e : e = V!Add(n, VideoModulus - 1)
      OBVIOUS
    <2>2. e = (n + (VideoModulus - 1)) % VideoModulus
      BY <2>1 DEF V!Add, V!Wrap
    <2>3. e = IF n = 0 THEN VideoModulus - 1 ELSE n - 1
      BY <1>0, <2>2, NearRemainder
    <2> QED
      BY <1>0, <1>4, <2>1, <2>3, VideoConstants DEF Pos
  <1> QED
    BY <1>1, <1>2, <1>3, <1>4

\* Numbers compare as positions do, when these are near, and a range of numbers is one of
\* positions.
LEMMA PosOrder ==
    ASSUME NEW z \in V!SeqNums, NEW a \in V!SeqNums, NEW b \in V!SeqNums
    PROVE  /\ Pos(z, a) - Pos(z, b) < V!Half /\ Pos(z, b) - Pos(z, a) < V!Half =>
                  /\ V!Gt(a, b) <=> Pos(z, a) > Pos(z, b)
                  /\ V!Ge(a, b) <=> Pos(z, a) >= Pos(z, b)
           /\ Pos(z, a) <= Pos(z, b) =>
                  /\ V!Span(a, b) = Pos(z, b) - Pos(z, a) + 1
                  /\ V!Range16(a, b) =
                         {n \in V!SeqNums : Pos(z, a) <= Pos(z, n) /\ Pos(z, n) <= Pos(z, b)}
  <1>0. /\ VideoModulus \in Nat /\ VideoModulus > 0
        /\ V!Half \in Nat /\ VideoModulus = 2 * V!Half
        /\ z \in Nat /\ z < VideoModulus /\ a \in Nat /\ a < VideoModulus
        /\ b \in Nat /\ b < VideoModulus
    BY VideoConstants
  <1>1. ASSUME Pos(z, a) - Pos(z, b) < V!Half, Pos(z, b) - Pos(z, a) < V!Half
        PROVE  /\ V!Gt(a, b) <=> Pos(z, a) > Pos(z, b)
               /\ V!Ge(a, b) <=> Pos(z, a) >= Pos(z, b)
    BY <1>0, <1>1 DEF Pos, V!Gt, V!Ge
  <1>2. ASSUME NEW n \in V!SeqNums
        PROVE  V!Span(a, n) = IF Pos(z, a) <= Pos(z, n) THEN Pos(z, n) - Pos(z, a) + 1
                              ELSE Pos(z, n) - Pos(z, a) + VideoModulus + 1
    <2>1. n \in Nat /\ n < VideoModulus
      BY VideoConstants
    <2>2. PICK e : e = (n - a) % VideoModulus
      OBVIOUS
    <2>3. e = IF a <= n THEN n - a ELSE (n - a) + VideoModulus
      BY <1>0, <2>1, <2>2, NearRemainder
    <2>4. V!Span(a, n) = e + 1
      BY <2>2 DEF V!Span
    <2> QED
      BY <1>0, <2>1, <2>3, <2>4 DEF Pos
  <1>3. ASSUME Pos(z, a) <= Pos(z, b)
        PROVE  /\ V!Span(a, b) = Pos(z, b) - Pos(z, a) + 1
               /\ V!Range16(a, b) =
                      {n \in V!SeqNums : Pos(z, a) <= Pos(z, n) /\ Pos(z, n) <= Pos(z, b)}
    <2>1. V!Span(a, b) = Pos(z, b) - Pos(z, a) + 1
      BY <1>2, <1>3
    <2>2. ASSUME NEW n \in V!SeqNums
          PROVE  V!Span(a, n) <= V!Span(a, b)
                     <=> Pos(z, a) <= Pos(z, n) /\ Pos(z, n) <= Pos(z, b)
      <3>1. Pos(z, n) \in 0 .. VideoModulus - 1 /\ Pos(z, b) \in 0 .. VideoModulus - 1
            /\ Pos(z, a) \in 0 .. VideoModulus - 1
        BY PosOf
      <3>2. PICK x, y, w : x = Pos(z, n) /\ y = Pos(z, b) /\ w = Pos(z, a)
        OBVIOUS
      <3>3. V!Span(a, n) = IF w <= x THEN x - w + 1 ELSE x - w + VideoModulus + 1
        BY <1>2, <3>2
      <3> QED
        BY <1>0, <1>3, <2>1, <3>1, <3>2, <3>3
    <2>3. V!Range16(a, b) = {n \in V!SeqNums : V!Span(a, n) <= V!Span(a, b)}
      BY DEF V!Range16
    <2> QED
      BY <2>1, <2>2, <2>3
  <1> QED
    BY <1>1, <1>3

-----------------------------------------------------------------------------
\* A receiver.
Fields == {"cur", "prev", "complete", "units", "kind", "refs", "missing", "gap", "lastStart",
           "lastEnd", "idrPending", "idrAge", "cooled", "said", "handed", "did"}
IsReceiver(s) ==
    /\ DOMAIN s = Fields /\ DOMAIN s.gap = {"pending", "start", "end", "hold"}
    /\ s.gap.pending \in BOOLEAN /\ s.complete \in V!SeqNums

\* The frames from a to b, and those of the gap that is held.
Frames(z, a, b) == {n \in V!SeqNums : Pos(z, a) <= Pos(z, n) /\ Pos(z, n) <= Pos(z, b)}
GapFrames(z, s) == IF s.gap.pending THEN Frames(z, s.gap.start, s.gap.end) ELSE {}

\* The last frame begun, and whether it is still collected.
At(s) == IF s.cur = V!None THEN s.complete ELSE s.cur
Open == "open"
Done == "done"
Phase(s) == IF s.cur = V!None \/ s.prev = s.cur THEN Done ELSE Open

\* In the middle of a packet, when frame c is the last one begun (at this phase),
\* the frames of `due' did not reach the decoder and those of `had' did: what is not
\* reported is in the gap, or is c itself; nothing is reported twice, or after the decoder
\* had it.
Reporting(z, s, c, phase, due, had) ==
    /\ IsReceiver(s)
    /\ c \in V!SeqNums /\ Pos(z, s.complete) <= Pos(z, c) /\ Pos(z, c) <= MaxFrames
    /\ Pos(z, c) - Pos(z, s.complete) <= MaxSkipped
    /\ phase = Open => Pos(z, s.complete) < Pos(z, c)
    /\ s.gap.pending =>
           /\ s.gap.start \in V!SeqNums /\ s.gap.end \in V!SeqNums
           /\ 1 <= Pos(z, s.gap.start) /\ Pos(z, s.gap.start) <= Pos(z, s.gap.end)
           /\ Pos(z, s.gap.end) < Pos(z, c)
           /\ Pos(z, s.gap.end) - Pos(z, s.gap.start) < V!Half
           /\ GapFrames(z, s) \cap had = {}
    /\ s.lastStart \in V!SeqNums
    /\ 1 <= Pos(z, s.lastStart) /\ Pos(z, s.lastStart) <= MaxFrames =>
           /\ s.lastEnd \in V!SeqNums /\ Pos(z, s.lastStart) <= Pos(z, s.lastEnd)
           /\ Pos(z, s.lastEnd) <= Pos(z, c) /\ (phase = Open => Pos(z, s.lastEnd) < Pos(z, c))
           /\ Pos(z, s.lastEnd) - Pos(z, s.lastStart) < V!Half
           /\ Frames(z, s.lastStart, s.lastEnd) \cap (due \ s.said) = {}
    /\ due \ s.said \subseteq
           GapFrames(z, s) \cup (IF phase = Done /\ s.complete # c THEN {c} ELSE {})
    /\ \A n \in had : n \in V!SeqNums /\ Pos(z, n) <= Pos(z, s.complete)
    /\ s.said \cap had = {}
    /\ \A n \in s.said : /\ n \in V!SeqNums /\ Pos(z, n) <= Pos(z, c)
                         /\ phase = Open => Pos(z, n) < Pos(z, c)

\* The inductive invariant of the video, for a run that begins after frame z.
VideoInv(z) ==
    /\ z \in V!SeqNums
    /\ Reporting(z, rx, At(rx), Phase(rx), owed, delivered)
    /\ rx.said = {} /\ rx.handed = {} /\ rx.did = {}
    /\ rx.cur \in V!SeqNums \cup {V!None}
    /\ rx.cur = V!None => rx.prev = V!None /\ z = 0 /\ rx.complete = 0
    /\ frames = Pos(z, At(rx)) /\ wrong = FALSE
    /\ untried \in Nat /\ rx.missing \in Nat
    /\ untried <= rx.missing /\ rx.missing <= SkipThreshold

\* A report is of the frames from a to b, or they were reported before.
LEMMA Reported ==
    ASSUME NEW z \in V!SeqNums, NEW s, NEW c, NEW phase, NEW due, NEW had,
           Reporting(z, s, c, phase, due, had),
           NEW a \in V!SeqNums, NEW b \in V!SeqNums,
           1 <= Pos(z, a), Pos(z, a) <= Pos(z, b), Pos(z, b) <= Pos(z, c),
           phase = Open => Pos(z, b) < Pos(z, c), Pos(z, b) - Pos(z, a) < V!Half,
           Frames(z, a, b) \cap had = {},
           NEW t, t = V!Report(s, a, b)
    PROVE  /\ Reporting(z, t, c, phase, due, had)
           /\ (due \ t.said) \cap Frames(z, a, b) = {}
           /\ due \ t.said \subseteq due \ s.said
           /\ t.gap = s.gap /\ t.cur = s.cur /\ t.prev = s.prev /\ t.complete = s.complete
           /\ t.missing = s.missing /\ t.handed = s.handed /\ t.did = s.did
  <1>0. /\ Pos(z, a) \in Nat /\ Pos(z, b) \in Nat /\ Pos(z, c) \in Nat
        /\ c \in V!SeqNums /\ MaxFrames \in Nat /\ Pos(z, c) <= MaxFrames /\ V!Half \in Nat
        /\ IsReceiver(s)
    BY PosOf, VideoConstants DEF Reporting
  <1>1. CASE V!SkipReport(s, a, b)
    <2>1. t = s /\ s.lastStart = a /\ V!Ge(s.lastEnd, b)
      BY <1>1 DEF V!Report, V!SkipReport
    <2>2. /\ s.lastEnd \in V!SeqNums /\ Pos(z, a) <= Pos(z, s.lastEnd)
          /\ Pos(z, s.lastEnd) - Pos(z, a) < V!Half
          /\ Frames(z, a, s.lastEnd) \cap (due \ s.said) = {}
      BY <1>0, <2>1 DEF Reporting
    <2>3. Pos(z, s.lastEnd) \in Nat
      BY <2>2, PosOf
    <2>4. Pos(z, s.lastEnd) >= Pos(z, b)
      <3>1. /\ Pos(z, s.lastEnd) - Pos(z, b) < V!Half
            /\ Pos(z, b) - Pos(z, s.lastEnd) < V!Half
        BY <1>0, <2>2, <2>3
      <3> QED
        BY <2>1, <2>2, <3>1, PosOrder
    <2>5. Frames(z, a, b) \subseteq Frames(z, a, s.lastEnd)
      <3>1. ASSUME NEW n \in V!SeqNums, Pos(z, n) <= Pos(z, b)
            PROVE  Pos(z, n) <= Pos(z, s.lastEnd)
        BY <1>0, <2>3, <2>4, <3>1, PosOf
      <3> QED
        BY <3>1 DEF Frames
    <2> QED
      BY <2>1, <2>2, <2>5
  <1>2. CASE ~V!SkipReport(s, a, b)
    <2>1. V!Range16(a, b) = Frames(z, a, b)
      BY PosOrder DEF Frames
    <2>2. t = [s EXCEPT !.said = @ \cup Frames(z, a, b), !.lastStart = a, !.lastEnd = b]
      BY <1>2, <2>1 DEF V!Report
    <2>3. /\ DOMAIN t = Fields /\ t.said = s.said \cup Frames(z, a, b)
          /\ t.lastStart = a /\ t.lastEnd = b
          /\ t.gap = s.gap /\ t.cur = s.cur /\ t.prev = s.prev /\ t.complete = s.complete
          /\ t.missing = s.missing /\ t.handed = s.handed /\ t.did = s.did
      BY <1>0, <2>2 DEF IsReceiver, Fields
    <2>4. IsReceiver(t)
      BY <1>0, <2>3 DEF IsReceiver
    <2>5. due \ t.said \subseteq due \ s.said /\ (due \ t.said) \cap Frames(z, a, b) = {}
      BY <2>3
    <2>6. GapFrames(z, t) = GapFrames(z, s)
      BY <2>3 DEF GapFrames
    <2>7. ASSUME NEW n \in Frames(z, a, b)
          PROVE  /\ n \in V!SeqNums /\ Pos(z, n) <= Pos(z, c)
                 /\ phase = Open => Pos(z, n) < Pos(z, c)
      <3>1. n \in V!SeqNums /\ Pos(z, n) <= Pos(z, b) /\ Pos(z, n) \in Nat
        BY PosOf DEF Frames
      <3> QED
        BY <1>0, <3>1
    <2>8. t.said \cap had = {}
      BY <2>3 DEF Reporting
    <2>9. \A n \in t.said : /\ n \in V!SeqNums /\ Pos(z, n) <= Pos(z, c)
                            /\ phase = Open => Pos(z, n) < Pos(z, c)
      BY <2>3, <2>7 DEF Reporting
    <2>10. due \ t.said \subseteq
              GapFrames(z, t) \cup (IF phase = Done /\ t.complete # c THEN {c} ELSE {})
      BY <2>3, <2>5, <2>6 DEF Reporting
    <2>11. Reporting(z, t, c, phase, due, had)
      BY <2>3, <2>4, <2>5, <2>6, <2>8, <2>9, <2>10 DEF Reporting
    <2> QED
      BY <2>3, <2>5, <2>11
  <1> QED
    BY <1>1, <1>2

\* The fields that reports are about.
Alike(t, s) ==
    /\ DOMAIN t = Fields /\ t.cur = s.cur /\ t.gap = s.gap /\ t.said = s.said
    /\ t.lastStart = s.lastStart /\ t.lastEnd = s.lastEnd

LEMMA AlikeReporting ==
    ASSUME NEW z, NEW s, NEW c, NEW phase, NEW due, NEW had,
           Reporting(z, s, c, phase, due, had), NEW t, Alike(t, s), t.complete = s.complete
    PROVE  Reporting(z, t, c, phase, due, had)
  <1>1. IsReceiver(t) /\ GapFrames(z, t) = GapFrames(z, s)
    BY DEF Reporting, IsReceiver, Alike, GapFrames
  <1> QED
    BY <1>1 DEF Reporting, Alike

\* The gap that is held is reported, or held on.
LEMMA GapFlushed ==
    ASSUME NEW z \in V!SeqNums, NEW s, NEW c, NEW phase, NEW due, NEW had,
           Reporting(z, s, c, phase, due, had), NEW t, t = V!FlushPendingGap(s)
    PROVE  /\ Reporting(z, t, c, phase, due, had)
           /\ t.cur = s.cur /\ t.prev = s.prev /\ t.complete = s.complete
           /\ t.missing = s.missing /\ t.handed = s.handed /\ t.did = s.did
  <1>1. CASE t = s
    BY <1>1
  <1>2. CASE t # s
    <2> DEFINE r == V!Report(s, s.gap.start, s.gap.end)
    <2>1. s.gap.pending /\ t = [r EXCEPT !.gap = V!NoGap]
      BY <1>2 DEF V!FlushPendingGap
    <2>2. /\ s.gap.start \in V!SeqNums /\ s.gap.end \in V!SeqNums /\ c \in V!SeqNums
          /\ 1 <= Pos(z, s.gap.start) /\ Pos(z, s.gap.start) <= Pos(z, s.gap.end)
          /\ Pos(z, s.gap.end) < Pos(z, c)
          /\ Pos(z, s.gap.end) - Pos(z, s.gap.start) < V!Half
          /\ GapFrames(z, s) = Frames(z, s.gap.start, s.gap.end)
          /\ Frames(z, s.gap.start, s.gap.end) \cap had = {}
      BY <2>1 DEF Reporting, GapFrames
    <2>3. Pos(z, s.gap.end) <= Pos(z, c)
      BY <2>2, PosOf
    <2> HIDE DEF r
    <2>4. /\ Reporting(z, r, c, phase, due, had)
          /\ (due \ r.said) \cap GapFrames(z, s) = {}
          /\ r.gap = s.gap /\ r.cur = s.cur /\ r.prev = s.prev /\ r.complete = s.complete
          /\ r.missing = s.missing /\ r.handed = s.handed /\ r.did = s.did
      BY <2>2, <2>3, Reported DEF r
    <2>5. /\ t.gap = [pending |-> FALSE, start |-> 0, end |-> 0, hold |-> 0]
          /\ DOMAIN t = Fields
          /\ t.cur = r.cur /\ t.prev = r.prev /\ t.complete = r.complete
          /\ t.missing = r.missing /\ t.handed = r.handed /\ t.did = r.did
          /\ t.said = r.said /\ t.lastStart = r.lastStart /\ t.lastEnd = r.lastEnd
      BY <2>1, <2>4 DEF Reporting, IsReceiver, Fields, V!NoGap
    <2>6. IsReceiver(t) /\ GapFrames(z, t) = {} /\ GapFrames(z, r) = GapFrames(z, s)
      BY <2>4, <2>5 DEF Reporting, IsReceiver, GapFrames
    <2>7. due \ t.said \subseteq (IF phase = Done /\ t.complete # c THEN {c} ELSE {})
      BY <2>4, <2>5, <2>6 DEF Reporting
    <2>8. Reporting(z, t, c, phase, due, had)
      BY <2>4, <2>5, <2>6, <2>7 DEF Reporting
    <2> QED
      BY <2>4, <2>5, <2>8
  <1> QED
    BY <1>1, <1>2

\* A request for an IDR frame touches nothing else.
LEMMA RequestOf ==
    ASSUME NEW s, DOMAIN s = Fields, NEW t, t = V!RequestIdr(s)
    PROVE  /\ Alike(t, s) /\ t.prev = s.prev /\ t.complete = s.complete
           /\ t.missing = s.missing /\ t.handed = s.handed /\ "tried" \in t.did
           /\ t.kind = s.kind
  <1> DEFINE open == s.idrPending /\ s.idrAge <= IdrTimeout
  <1> PICK a, b, d : t = [s EXCEPT !.did = @ \cup {"tried"}, !.idrPending = a, !.idrAge = b,
                                  !.cooled = d]
    BY DEF V!RequestIdr
  <1> QED
    BY DEF Alike, Fields

\* A frame that cannot be restored is reported with those before it.
Unrestored(t, s) ==
    \E u : /\ Alike(u, s) /\ u.complete = s.complete /\ u.handed = {}
           /\ u.missing = s.missing /\ "tried" \in u.did
           /\ t = [V!Report(u, V!Next16(s.complete), s.cur) EXCEPT !.prev = s.cur]

\* What becomes of a frame that is flushed: it is reported with the frames before it, or
\* lost without a report, or the decoder has it.
LEMMA FlushOf ==
    ASSUME NEW s, DOMAIN s = Fields, s.handed = {}, s.missing \in Nat,
           s.missing <= SkipThreshold, NEW luck, NEW t, t = V!FlushFrame(s, luck)
    PROVE     \/ Unrestored(t, s)
              \/ /\ Alike(t, s) /\ t.prev = s.cur
                 /\ \/ t.complete = s.complete /\ t.handed = {}
                    \/ t.complete = s.cur /\ t.handed = {s.cur}
                 /\ t.missing \in Nat /\ t.missing <= SkipThreshold
                 /\ \/ t.did \cap {"tried", "submitted"} # {}
                    \/ "lost" \in t.did /\ t.missing = s.missing + 1
  <1>1. CASE s.missing >= SkipThreshold
    <2> DEFINE e == [s EXCEPT !.refs = <<>>, !.missing = 0]
               r == V!RequestIdr(e)
    <2>1. t = [r EXCEPT !.prev = s.cur]
      BY <1>1 DEF V!FlushFrame, V!CascadeSkip
    <2>2. /\ Alike(e, s) /\ e.complete = s.complete /\ e.handed = {} /\ e.missing = 0
          /\ DOMAIN e = Fields
      BY DEF Alike, Fields
    <2> HIDE DEF e
    <2>3. /\ Alike(r, e) /\ r.complete = e.complete /\ r.handed = {} /\ r.missing = 0
          /\ "tried" \in r.did
      BY <2>2, RequestOf
    <2> HIDE DEF r
    <2>4. /\ Alike(t, s) /\ t.prev = s.cur /\ t.complete = s.complete /\ t.handed = {}
          /\ t.missing = 0 /\ "tried" \in t.did
      BY <2>1, <2>2, <2>3 DEF Alike, Fields
    <2>5. t.did \cap {"tried", "submitted"} # {}
      BY <2>4
    <2>6. t.missing \in Nat /\ t.missing <= SkipThreshold
      BY <2>4, VideoConstants
    <2> QED
      BY <2>4, <2>5, <2>6
  <1>2. CASE /\ ~(s.missing >= SkipThreshold)
             /\ V!Incomplete(s) /\ (V!Cardinality(s.units) < VideoSource \/ ~luck.restored)
    <2> DEFINE u == V!RequestIdr(s)
    <2>1. t = [V!Report(u, V!Next16(s.complete), s.cur) EXCEPT !.prev = s.cur]
      BY <1>2 DEF V!FlushFrame, V!FecFailed
    <2>2. /\ Alike(u, s) /\ u.complete = s.complete /\ u.handed = {}
          /\ u.missing = s.missing /\ "tried" \in u.did
      BY RequestOf
    <2> HIDE DEF u
    <2>3. Unrestored(t, s)
      BY <2>1, <2>2 DEF Unrestored
    <2> QED
      BY <2>3
  <1>3. CASE /\ ~(s.missing >= SkipThreshold)
             /\ ~(V!Incomplete(s) /\ (V!Cardinality(s.units) < VideoSource \/ ~luck.restored))
    <2> DEFINE e == V!SeeSlice(s, s.kind)
    <2>1. /\ Alike(e, s) /\ e.complete = s.complete /\ e.handed = {} /\ DOMAIN e = Fields
          /\ s.kind > 0 => e.missing = s.missing
          /\ e.missing \in Nat /\ e.missing <= SkipThreshold
      <3>1. CASE s.kind = V!Intra
        <4>1. PICK a : e = [s EXCEPT !.missing = 0, !.idrPending = FALSE, !.idrAge = a]
          BY <3>1 DEF V!SeeSlice
        <4>2. ~(s.kind > 0)
          BY <3>1 DEF V!Intra
        <4> QED
          BY <4>1, <4>2, VideoConstants DEF Alike, Fields
      <3>2. CASE s.kind # V!Intra /\ s.idrPending
        <4>1. e = V!RequestIdr(s)
          BY <3>2 DEF V!SeeSlice
        <4> QED
          BY <4>1, RequestOf DEF Alike
      <3>3. CASE s.kind # V!Intra /\ ~s.idrPending
        <4>1. e = s
          BY <3>3 DEF V!SeeSlice
        <4> QED
          BY <4>1 DEF Alike
      <3> QED
        BY <3>1, <3>2, <3>3
    <2> HIDE DEF e
    <2>2. CASE t = V!MissingRef(e) /\ s.kind > 0
      <3>1. t = [e EXCEPT !.missing = @ + 1, !.prev = e.cur, !.did = @ \cup {"lost"}]
        BY <2>2 DEF V!MissingRef
      <3>2. /\ Alike(t, s) /\ t.prev = s.cur /\ t.complete = s.complete /\ t.handed = {}
            /\ t.missing = s.missing + 1 /\ "lost" \in t.did
        BY <2>1, <2>2, <3>1 DEF Alike, Fields
      <3>3. s.missing + 1 \in Nat /\ s.missing + 1 <= SkipThreshold
        BY <1>3, VideoConstants
      <3> QED
        BY <3>2, <3>3
    <2>3. CASE t = V!Submit(e, luck.taken)
      <3>1. CASE luck.taken
        <4>1. PICK a : t = [e EXCEPT !.did = @ \cup {"submitted"}, !.refs = a, !.missing = 0,
                                    !.prev = e.cur, !.complete = e.cur, !.handed = {e.cur}]
          BY <2>3, <3>1 DEF V!Submit
        <4>2. /\ Alike(t, s) /\ t.prev = s.cur /\ t.complete = s.cur /\ t.handed = {s.cur}
              /\ t.missing = 0 /\ "submitted" \in t.did
          BY <2>1, <4>1 DEF Alike, Fields
        <4> QED
          BY <4>2, VideoConstants
      <3>2. CASE ~luck.taken
        <4>1. t = [e EXCEPT !.prev = e.cur, !.did = @ \cup {"submitted"}]
          BY <2>3, <3>2 DEF V!Submit
        <4>2. /\ Alike(t, s) /\ t.prev = s.cur /\ t.complete = s.complete /\ t.handed = {}
              /\ t.missing = e.missing /\ "submitted" \in t.did
          BY <2>1, <4>1 DEF Alike, Fields
        <4> QED
          BY <2>1, <4>2
      <3> QED
        BY <3>1, <3>2
    <2>4. (t = V!MissingRef(e) /\ s.kind > 0) \/ t = V!Submit(e, luck.taken)
      BY <1>3 DEF V!FlushFrame, e
    <2> QED
      BY <2>2, <2>3, <2>4
  <1> QED
    BY <1>1, <1>2, <1>3

-----------------------------------------------------------------------------
\* A frame that the decoder does not get joins what is not reported.
LEMMA LostFrame ==
    ASSUME NEW z \in V!SeqNums, NEW s, NEW c, NEW due, NEW had,
           Reporting(z, s, c, Open, due, had)
    PROVE  Reporting(z, s, c, Done, due \cup {c}, had)
  <1>1. /\ c \in V!SeqNums /\ Pos(z, c) \in Nat /\ s.complete # c
        /\ s.complete \in V!SeqNums
    BY PosOf DEF Reporting, IsReceiver
  <1>2. ASSUME 1 <= Pos(z, s.lastStart), Pos(z, s.lastStart) <= MaxFrames
        PROVE  Frames(z, s.lastStart, s.lastEnd) \cap ((due \cup {c}) \ s.said) = {}
    <2>1. /\ s.lastEnd \in V!SeqNums /\ Pos(z, s.lastEnd) < Pos(z, c)
          /\ Frames(z, s.lastStart, s.lastEnd) \cap (due \ s.said) = {}
      BY <1>2 DEF Reporting
    <2>2. Pos(z, s.lastEnd) \in Nat
      BY <2>1, PosOf
    <2>3. c \notin Frames(z, s.lastStart, s.lastEnd)
      BY <1>1, <2>1, <2>2 DEF Frames
    <2> QED
      BY <2>1, <2>3
  <1>3. (due \cup {c}) \ s.said \subseteq
            GapFrames(z, s) \cup (IF Done = Done /\ s.complete # c THEN {c} ELSE {})
    BY <1>1 DEF Reporting
  <1> QED
    BY <1>2, <1>3 DEF Reporting

\* A frame that the decoder has is complete.
LEMMA FrameHanded ==
    ASSUME NEW z \in V!SeqNums, NEW s, NEW c, NEW due, NEW had,
           Reporting(z, s, c, Open, due, had),
           NEW t, Alike(t, s), t.complete = c
    PROVE  Reporting(z, t, c, Done, due, had \cup {c})
  <1>1. /\ c \in V!SeqNums /\ Pos(z, c) \in Nat /\ MaxSkipped \in Nat
        /\ s.complete \in V!SeqNums /\ Pos(z, s.complete) \in Nat
        /\ Pos(z, s.complete) < Pos(z, c)
    BY PosOf, VideoConstants DEF Reporting, IsReceiver
  <1>2. IsReceiver(t) /\ GapFrames(z, t) = GapFrames(z, s)
    BY <1>1 DEF Reporting, IsReceiver, Alike, GapFrames
  <1>3. Pos(z, c) - Pos(z, c) <= MaxSkipped /\ Pos(z, c) <= Pos(z, c)
    BY <1>1
  <1>4. ASSUME s.gap.pending
        PROVE  GapFrames(z, t) \cap (had \cup {c}) = {}
    <2>1. /\ s.gap.end \in V!SeqNums /\ Pos(z, s.gap.end) < Pos(z, c)
          /\ GapFrames(z, s) = Frames(z, s.gap.start, s.gap.end)
          /\ GapFrames(z, s) \cap had = {}
      BY <1>4 DEF Reporting, GapFrames
    <2>2. Pos(z, s.gap.end) \in Nat
      BY <2>1, PosOf
    <2>3. c \notin GapFrames(z, s)
      BY <1>1, <2>1, <2>2 DEF Frames
    <2> QED
      BY <1>2, <2>1, <2>3
  <1>5. ASSUME NEW n \in had \cup {c}
        PROVE  n \in V!SeqNums /\ Pos(z, n) <= Pos(z, c)
    <2>1. CASE n \in had
      <3>1. n \in V!SeqNums /\ Pos(z, n) <= Pos(z, s.complete) /\ Pos(z, n) \in Nat
        BY <2>1, PosOf DEF Reporting
      <3> QED
        BY <1>1, <3>1
    <2> QED
      BY <1>1, <2>1
  <1>6. s.said \cap (had \cup {c}) = {}
    BY <1>1 DEF Reporting
  <1>7. due \ s.said \subseteq
            GapFrames(z, t) \cup (IF Done = Done /\ t.complete # c THEN {c} ELSE {})
    BY <1>2, Done # Open DEF Reporting, Done, Open
  <1> QED
    BY <1>1, <1>2, <1>3, <1>4, <1>5, <1>6, <1>7 DEF Reporting, Alike, Done, Open

\* Frame c is collected.
Collecting(z, s, c, due, had) ==
    /\ z \in V!SeqNums /\ Reporting(z, s, c, Open, due, had) /\ s.cur = c /\ s.handed = {}
    /\ s.missing \in Nat /\ s.missing <= SkipThreshold

With(set, c) == set \cup {c}

\* A frame is flushed: it is lost, or the decoder has it.
LEMMA FlushedFrame ==
    ASSUME NEW z, NEW s, NEW c, NEW due, NEW had, Collecting(z, s, c, due, had),
           NEW luck, NEW t, t = V!FlushFrame(s, luck)
    PROVE  /\ \/ t.handed = {} /\ Reporting(z, t, c, Done, With(due, c), had)
              \/ t.handed = {c} /\ Reporting(z, t, c, Done, due, With(had, c))
           /\ t.cur = c /\ t.prev = c /\ t.complete \in {s.complete, c}
           /\ t.missing \in Nat /\ t.missing <= SkipThreshold
           /\ \/ t.did \cap {"tried", "submitted"} # {}
              \/ "lost" \in t.did /\ t.missing = s.missing + 1
  <1> /\ z \in V!SeqNums /\ Reporting(z, s, c, Open, due, had) /\ s.cur = c /\ s.handed = {}
      /\ s.missing \in Nat /\ s.missing <= SkipThreshold
    BY DEF Collecting
  <1>1. DOMAIN s = Fields
    BY DEF Reporting, IsReceiver
  <1>2. CASE Unrestored(t, s)
    <2>1. PICK u : /\ Alike(u, s) /\ u.complete = s.complete /\ u.handed = {}
                   /\ u.missing = s.missing /\ "tried" \in u.did
                   /\ t = [V!Report(u, V!Next16(s.complete), s.cur) EXCEPT !.prev = s.cur]
      BY <1>2 DEF Unrestored
    <2>2. Reporting(z, u, c, Done, due \cup {c}, had)
      BY <2>1, AlikeReporting, LostFrame
    <2> DEFINE a == V!Next16(s.complete)
               r == V!Report(u, a, c)
    <2>3. /\ s.complete \in V!SeqNums /\ c \in V!SeqNums
          /\ Pos(z, s.complete) \in Nat /\ Pos(z, c) \in Nat
          /\ Pos(z, s.complete) < Pos(z, c) /\ Pos(z, c) <= MaxFrames
          /\ Pos(z, c) - Pos(z, s.complete) <= MaxSkipped
      BY PosOf DEF Reporting, IsReceiver
    <2>4. a \in V!SeqNums /\ Pos(z, a) = Pos(z, s.complete) + 1
      <3>1. Pos(z, s.complete) < VideoModulus - 1
        BY <2>3, VideoConstants
      <3> QED
        BY <2>3, <3>1, PosOf
    <2> HIDE DEF a
    <2>5. /\ 1 <= Pos(z, a) /\ Pos(z, a) <= Pos(z, c) /\ Pos(z, c) <= Pos(z, c)
          /\ Pos(z, c) - Pos(z, a) < V!Half
      BY <2>3, <2>4, VideoConstants
    <2>6. Frames(z, a, c) \cap had = {}
      <3>1. ASSUME NEW n \in had, n \in Frames(z, a, c)
            PROVE  FALSE
        <4>1. n \in V!SeqNums /\ Pos(z, n) <= Pos(z, s.complete) /\ Pos(z, a) <= Pos(z, n)
          BY <3>1 DEF Reporting, Frames
        <4> QED
          BY <2>3, <2>4, <4>1, PosOf
      <3> QED
        BY <3>1
    <2> HIDE DEF r
    <2>7. /\ Reporting(z, r, c, Done, due \cup {c}, had)
          /\ r.cur = u.cur /\ r.complete = u.complete /\ r.missing = u.missing
          /\ r.handed = u.handed /\ r.did = u.did
      <3>1. r = V!Report(u, a, c) /\ Done # Open
        BY DEF r, Done, Open
      <3> QED
        BY <2>2, <2>3, <2>4, <2>5, <2>6, <3>1, Reported
    <2>8. t = [r EXCEPT !.prev = c] /\ DOMAIN r = Fields
      BY <2>1, <2>7 DEF r, a, Reporting, IsReceiver
    <2>9. /\ Alike(t, r) /\ t.complete = r.complete /\ t.prev = c /\ t.handed = r.handed
          /\ t.missing = r.missing /\ t.did = r.did /\ t.cur = r.cur
      BY <2>8 DEF Alike, Fields
    <2>10. Reporting(z, t, c, Done, due \cup {c}, had)
      BY <2>7, <2>9, AlikeReporting
    <2>11. /\ t.cur = c /\ t.prev = c /\ t.complete = s.complete /\ t.handed = {}
           /\ t.missing = s.missing /\ "tried" \in t.did
      BY <2>1, <2>7, <2>9 DEF Alike
    <2> QED
      BY <2>10, <2>11 DEF With
  <1>3. CASE /\ Alike(t, s) /\ t.prev = c
             /\ \/ t.complete = s.complete /\ t.handed = {}
                \/ t.complete = c /\ t.handed = {c}
             /\ t.missing \in Nat /\ t.missing <= SkipThreshold
             /\ \/ t.did \cap {"tried", "submitted"} # {}
                \/ "lost" \in t.did /\ t.missing = s.missing + 1
    <2>1. t.cur = c
      BY <1>3 DEF Alike
    <2>2. CASE t.complete = s.complete /\ t.handed = {}
      <3>1. Reporting(z, t, c, Done, due \cup {c}, had)
        BY <1>3, <2>2, AlikeReporting, LostFrame
      <3> QED
        BY <1>3, <2>1, <2>2, <3>1 DEF With
    <2>3. CASE t.complete = c /\ t.handed = {c}
      <3>1. Reporting(z, t, c, Done, due, had \cup {c})
        BY <1>3, <2>3, FrameHanded
      <3> QED
        BY <1>3, <2>1, <2>3, <3>1 DEF With
    <2> QED
      BY <1>3, <2>2, <2>3
  <1>4. \/ Unrestored(t, s)
        \/ /\ Alike(t, s) /\ t.prev = c
           /\ \/ t.complete = s.complete /\ t.handed = {}
              \/ t.complete = c /\ t.handed = {c}
           /\ t.missing \in Nat /\ t.missing <= SkipThreshold
           /\ \/ t.did \cap {"tried", "submitted"} # {}
              \/ "lost" \in t.did /\ t.missing = s.missing + 1
    BY <1>1, FlushOf
  <1> QED
    BY <1>2, <1>3, <1>4

\* The frames between two frames.
Between(z, c, frame) == {n \in V!SeqNums : Pos(z, c) < Pos(z, n) /\ Pos(z, n) < Pos(z, frame)}

Past(z, due, c, frame) == due \cup Between(z, c, frame)

\* A gap that begins after the last complete frame holds what is not reported.
LEMMA GapHeld ==
    ASSUME NEW z \in V!SeqNums, NEW s, NEW c, NEW due, NEW had,
           Reporting(z, s, c, Done, due, had),
           NEW frame \in V!SeqNums, Pos(z, c) < Pos(z, frame), Pos(z, frame) <= MaxFrames,
           Pos(z, frame) - Pos(z, s.complete) <= MaxSkipped,
           NEW a \in V!SeqNums, Pos(z, a) = Pos(z, s.complete) + 1,
           NEW b \in V!SeqNums, Pos(z, b) = Pos(z, frame) - 1, Pos(z, a) <= Pos(z, b),
           due \ s.said \subseteq Frames(z, a, b) \cup (IF s.complete # c THEN {c} ELSE {}),
           NEW t, Alike([t EXCEPT !.gap = s.gap], s), t.complete = s.complete,
           DOMAIN t = Fields, DOMAIN t.gap = {"pending", "start", "end", "hold"},
           t.gap.pending = TRUE, t.gap.start = a, t.gap.end = b
    PROVE  Reporting(z, t, frame, Open, Past(z, due, c, frame), had)
  <1>0. /\ Pos(z, a) \in Nat /\ Pos(z, b) \in Nat /\ Pos(z, c) \in Nat /\ Pos(z, frame) \in Nat
        /\ c \in V!SeqNums /\ s.complete \in V!SeqNums /\ Pos(z, s.complete) \in Nat
        /\ Pos(z, s.complete) <= Pos(z, c)
    BY PosOf DEF Reporting, IsReceiver
  <1> DEFINE due2 == due \cup Between(z, c, frame)
  <1>1. t.said = s.said /\ t.lastStart = s.lastStart /\ t.lastEnd = s.lastEnd
    BY DEF Alike, Fields
  <1>2. IsReceiver(t) /\ GapFrames(z, t) = Frames(z, a, b)
    BY <1>0 DEF IsReceiver, GapFrames
  <1>3. due2 \ t.said \subseteq GapFrames(z, t)
    <2>1. s.complete # c => c \in Frames(z, a, b)
      <3>1. s.complete # c => Pos(z, s.complete) # Pos(z, c)
        BY <1>0, PosOf
      <3> QED
        BY <1>0, <3>1 DEF Frames
    <2>2. Between(z, c, frame) \subseteq Frames(z, a, b)
      <3>1. ASSUME NEW n \in V!SeqNums, Pos(z, c) < Pos(z, n), Pos(z, n) < Pos(z, frame)
            PROVE  Pos(z, a) <= Pos(z, n) /\ Pos(z, n) <= Pos(z, b)
        BY <1>0, <3>1, PosOf
      <3> QED
        BY <3>1 DEF Frames, Between
    <2> QED
      BY <1>1, <1>2, <2>1, <2>2
  <1>4. ASSUME 1 <= Pos(z, t.lastStart), Pos(z, t.lastStart) <= MaxFrames
        PROVE  /\ t.lastEnd \in V!SeqNums /\ Pos(z, t.lastStart) <= Pos(z, t.lastEnd)
               /\ Pos(z, t.lastEnd) <= Pos(z, frame) /\ Pos(z, t.lastEnd) < Pos(z, frame)
               /\ Pos(z, t.lastEnd) - Pos(z, t.lastStart) < V!Half
               /\ Frames(z, t.lastStart, t.lastEnd) \cap (due2 \ t.said) = {}
    <2>1. /\ s.lastEnd \in V!SeqNums /\ Pos(z, s.lastStart) <= Pos(z, s.lastEnd)
          /\ Pos(z, s.lastEnd) <= Pos(z, c)
          /\ Pos(z, s.lastEnd) - Pos(z, s.lastStart) < V!Half
          /\ Frames(z, s.lastStart, s.lastEnd) \cap (due \ s.said) = {}
      BY <1>1, <1>4 DEF Reporting
    <2>2. Pos(z, s.lastEnd) \in Nat
      BY <2>1, PosOf
    <2>3. Frames(z, s.lastStart, s.lastEnd) \cap Between(z, c, frame) = {}
      <3>1. ASSUME NEW n \in V!SeqNums, Pos(z, c) < Pos(z, n), Pos(z, n) <= Pos(z, s.lastEnd)
            PROVE  FALSE
        BY <1>0, <2>1, <2>2, <3>1, PosOf
      <3> QED
        BY <3>1 DEF Frames, Between
    <2> QED
      BY <1>0, <1>1, <2>1, <2>2, <2>3
  <1>5. Frames(z, a, b) \cap had = {}
    <2>1. ASSUME NEW n \in had, n \in Frames(z, a, b)
          PROVE  FALSE
      <3>1. n \in V!SeqNums /\ Pos(z, n) <= Pos(z, s.complete) /\ Pos(z, a) <= Pos(z, n)
        BY <2>1 DEF Reporting, Frames
      <3> QED
        BY <1>0, <3>1, PosOf
    <2> QED
      BY <2>1
  <1>6. /\ t.gap.start \in V!SeqNums /\ t.gap.end \in V!SeqNums
        /\ 1 <= Pos(z, t.gap.start) /\ Pos(z, t.gap.start) <= Pos(z, t.gap.end)
        /\ Pos(z, t.gap.end) < Pos(z, frame)
        /\ Pos(z, t.gap.end) - Pos(z, t.gap.start) < V!Half
        /\ GapFrames(z, t) \cap had = {}
    <2>1. /\ 1 <= Pos(z, a) /\ Pos(z, b) < Pos(z, frame)
          /\ Pos(z, b) - Pos(z, a) < V!Half
      <3>1. /\ MaxSkipped \in Nat /\ MaxSkipped < V!Half /\ V!Half \in Nat
        BY VideoConstants
      <3> QED
        BY <1>0, <3>1
    <2> QED
      BY <1>2, <1>5, <2>1
  <1>7. \A n \in t.said : n \in V!SeqNums /\ Pos(z, n) <= Pos(z, frame) /\ Pos(z, n) < Pos(z, frame)
    <2>1. ASSUME NEW n \in s.said
          PROVE  n \in V!SeqNums /\ Pos(z, n) <= Pos(z, c) /\ Pos(z, n) \in Nat
      BY PosOf DEF Reporting
    <2> QED
      BY <1>0, <1>1, <2>1
  <1>8. /\ Pos(z, t.complete) <= Pos(z, frame) /\ Pos(z, t.complete) < Pos(z, frame)
        /\ Pos(z, frame) - Pos(z, t.complete) <= MaxSkipped
    BY <1>0
  <1>9. /\ t.lastStart \in V!SeqNums
        /\ \A n \in had : n \in V!SeqNums /\ Pos(z, n) <= Pos(z, t.complete)
        /\ t.said \cap had = {}
    BY <1>1 DEF Reporting
  <1> HIDE DEF due2
  <1>10. Reporting(z, t, frame, Open, due2, had)
    BY <1>2, <1>3, <1>4, <1>6, <1>7, <1>8, <1>9 DEF Reporting
  <1> QED
    BY <1>10 DEF due2, Past

\* The frames from a to b are missing between the last complete frame and a new one.
GapBefore(z, s, c, frame, a, b) ==
    /\ z \in V!SeqNums /\ frame \in V!SeqNums
    /\ Pos(z, c) < Pos(z, frame) /\ Pos(z, frame) <= MaxFrames
    /\ Pos(z, frame) - Pos(z, s.complete) <= MaxSkipped
    /\ a \in V!SeqNums /\ Pos(z, a) = Pos(z, s.complete) + 1
    /\ b \in V!SeqNums /\ Pos(z, b) = Pos(z, frame) - 1 /\ Pos(z, a) <= Pos(z, b)

\* The gap before a new frame is noted.
LEMMA GapUpdated ==
    ASSUME NEW z, NEW s, NEW c, NEW due, NEW had, Reporting(z, s, c, Done, due, had),
           NEW frame, NEW a, NEW b, GapBefore(z, s, c, frame, a, b),
           NEW t, t = V!UpdateGap(s, a, b)
    PROVE  /\ Reporting(z, t, frame, Open, Past(z, due, c, frame), had)
           /\ t.cur = s.cur /\ t.prev = s.prev /\ t.complete = s.complete
           /\ t.missing = s.missing /\ t.handed = s.handed /\ t.did = s.did
  <1> /\ z \in V!SeqNums /\ frame \in V!SeqNums
      /\ Pos(z, c) < Pos(z, frame) /\ Pos(z, frame) <= MaxFrames
      /\ Pos(z, frame) - Pos(z, s.complete) <= MaxSkipped
      /\ a \in V!SeqNums /\ Pos(z, a) = Pos(z, s.complete) + 1
      /\ b \in V!SeqNums /\ Pos(z, b) = Pos(z, frame) - 1 /\ Pos(z, a) <= Pos(z, b)
    BY DEF GapBefore
  <1>0. /\ Pos(z, a) \in Nat /\ Pos(z, b) \in Nat /\ Pos(z, c) \in Nat /\ Pos(z, frame) \in Nat
        /\ c \in V!SeqNums /\ DOMAIN s = Fields /\ s.gap.pending \in BOOLEAN
        /\ DOMAIN s.gap = {"pending", "start", "end", "hold"}
        /\ s.complete \in V!SeqNums /\ Pos(z, s.complete) \in Nat
    BY PosOf DEF Reporting, IsReceiver
  <1> DEFINE Told(r) == /\ Reporting(z, r, c, Done, due, had)
                        /\ due \ r.said \subseteq
                               Frames(z, a, b) \cup (IF s.complete # c THEN {c} ELSE {})
                        /\ r.cur = s.cur /\ r.prev = s.prev /\ r.complete = s.complete
                        /\ r.missing = s.missing /\ r.handed = s.handed /\ r.did = s.did
  <1>1. ASSUME NEW r, Told(r), t = [r EXCEPT !.gap = V!Pending(a, b)]
        PROVE  /\ Reporting(z, t, frame, Open, Past(z, due, c, frame), had)
               /\ t.cur = s.cur /\ t.prev = s.prev /\ t.complete = s.complete
               /\ t.missing = s.missing /\ t.handed = s.handed /\ t.did = s.did
    <2>1. DOMAIN r = Fields
      BY <1>1 DEF Reporting, IsReceiver
    <2>2. /\ DOMAIN t = Fields
          /\ t.gap = [pending |-> TRUE, start |-> a, end |-> b, hold |-> 1]
          /\ t.cur = s.cur /\ t.prev = s.prev /\ t.complete = r.complete
          /\ t.missing = s.missing /\ t.handed = s.handed /\ t.did = s.did
          /\ t.said = r.said /\ t.lastStart = r.lastStart /\ t.lastEnd = r.lastEnd
      BY <1>1, <2>1 DEF Fields, V!Pending
    <2>3. Alike([t EXCEPT !.gap = r.gap], r)
      BY <1>1, <2>2 DEF Alike, Fields
    <2>4. /\ DOMAIN t.gap = {"pending", "start", "end", "hold"}
          /\ t.gap.pending = TRUE /\ t.gap.start = a /\ t.gap.end = b
      BY <2>2
    <2>5. Reporting(z, t, frame, Open, Past(z, due, c, frame), had)
      <3>1. /\ Reporting(z, r, c, Done, due, had) /\ r.complete = s.complete
            /\ due \ r.said \subseteq Frames(z, a, b) \cup (IF r.complete # c THEN {c} ELSE {})
        BY <1>1
      <3>2. DOMAIN t = Fields /\ t.complete = r.complete
        BY <2>2
      <3> HIDE DEF Told
      <3> QED
        BY <2>3, <2>4, <3>1, <3>2, GapHeld
    <2> QED
      BY <1>1, <2>2, <2>5
  <1>2. CASE ~s.gap.pending
    <2>1. t = [s EXCEPT !.gap = V!Pending(a, b)]
      BY <1>2 DEF V!UpdateGap
    <2>2. Told(s)
      BY <1>2 DEF Reporting, GapFrames
    <2> QED
      BY <1>1, <2>1, <2>2
  <1>3. CASE s.gap.pending /\ s.gap.start # a
    <2> DEFINE r == V!Report(s, s.gap.start, s.gap.end)
    <2>1. t = [r EXCEPT !.gap = V!Pending(a, b)]
      BY <1>3 DEF V!UpdateGap
    <2>2. /\ s.gap.start \in V!SeqNums /\ s.gap.end \in V!SeqNums
          /\ 1 <= Pos(z, s.gap.start) /\ Pos(z, s.gap.start) <= Pos(z, s.gap.end)
          /\ Pos(z, s.gap.end) < Pos(z, c) /\ Pos(z, s.gap.end) \in Nat
          /\ Pos(z, s.gap.end) - Pos(z, s.gap.start) < V!Half
          /\ GapFrames(z, s) = Frames(z, s.gap.start, s.gap.end)
          /\ Frames(z, s.gap.start, s.gap.end) \cap had = {}
      BY <1>3, PosOf DEF Reporting, GapFrames
    <2>3. Pos(z, s.gap.end) <= Pos(z, c)
      BY <1>0, <2>2
    <2>4. r = V!Report(s, s.gap.start, s.gap.end)
      OBVIOUS
    <2> HIDE DEF r
    <2>5. Done # Open
      BY DEF Done, Open
    <2>7. /\ Reporting(z, r, c, Done, due, had)
          /\ (due \ r.said) \cap GapFrames(z, s) = {}
          /\ due \ r.said \subseteq due \ s.said
          /\ r.cur = s.cur /\ r.prev = s.prev /\ r.complete = s.complete
          /\ r.missing = s.missing /\ r.handed = s.handed /\ r.did = s.did
      BY <1>0, <2>2, <2>3, <2>4, <2>5, Reported
    <2>8. due \ s.said \subseteq GapFrames(z, s) \cup (IF s.complete # c THEN {c} ELSE {})
      BY DEF Reporting
    <2>9. Told(r)
      BY <2>7, <2>8
    <2> QED
      BY <1>1, <2>1, <2>9
  <1>4. CASE s.gap.pending /\ s.gap.start = a
    <2>1. /\ s.gap.end \in V!SeqNums /\ Pos(z, s.gap.end) \in Nat
          /\ Pos(z, a) <= Pos(z, s.gap.end) /\ Pos(z, s.gap.end) < Pos(z, c)
          /\ GapFrames(z, s) = Frames(z, a, s.gap.end)
      BY <1>4, PosOf DEF Reporting, GapFrames
    <2>2. V!Gt(b, s.gap.end)
      <3>1. /\ Pos(z, b) - Pos(z, s.gap.end) < V!Half /\ Pos(z, s.gap.end) - Pos(z, b) < V!Half
            /\ Pos(z, b) > Pos(z, s.gap.end)
        <4>1. /\ MaxSkipped \in Nat /\ MaxSkipped < V!Half /\ V!Half \in Nat
          BY VideoConstants
        <4> QED
          BY <1>0, <2>1, <4>1
      <3> QED
        BY <2>1, <3>1, PosOrder
    <2>3. t = [s EXCEPT !.gap.end = b]
      BY <1>4, <2>2 DEF V!UpdateGap
    <2>4. /\ DOMAIN t = Fields /\ t.gap = [s.gap EXCEPT !.end = b]
          /\ t.cur = s.cur /\ t.prev = s.prev /\ t.complete = s.complete
          /\ t.missing = s.missing /\ t.handed = s.handed /\ t.did = s.did
          /\ t.said = s.said /\ t.lastStart = s.lastStart /\ t.lastEnd = s.lastEnd
      BY <1>0, <2>3 DEF Fields
    <2>5. /\ DOMAIN t.gap = {"pending", "start", "end", "hold"}
          /\ t.gap.pending = TRUE /\ t.gap.start = a /\ t.gap.end = b
      BY <1>0, <1>4, <2>4
    <2>6. Alike([t EXCEPT !.gap = s.gap], s)
      BY <2>4 DEF Alike, Fields
    <2>7. Frames(z, a, s.gap.end) \subseteq Frames(z, a, b)
      <3>1. ASSUME NEW n \in V!SeqNums, Pos(z, n) <= Pos(z, s.gap.end)
            PROVE  Pos(z, n) <= Pos(z, b)
        BY <1>0, <2>1, <3>1, PosOf
      <3> QED
        BY <3>1 DEF Frames
    <2>8. due \ s.said \subseteq Frames(z, a, b) \cup (IF s.complete # c THEN {c} ELSE {})
      BY <2>1, <2>7 DEF Reporting
    <2>9. Reporting(z, t, frame, Open, Past(z, due, c, frame), had)
      <3> HIDE DEF Told
      <3>1. DOMAIN t = Fields /\ t.complete = s.complete
        BY <2>4
      <3> QED
        BY <2>5, <2>6, <2>8, <3>1, GapHeld
    <2> QED
      BY <2>4, <2>9
  <1> QED
    BY <1>0, <1>2, <1>3, <1>4

\* A frame may begin after c.
MayBegin(z, s, c, frame) ==
    /\ z \in V!SeqNums /\ frame \in V!SeqNums
    /\ s.cur = V!None => z = 0 /\ s.complete = 0
    /\ Pos(z, c) < Pos(z, frame) /\ Pos(z, frame) <= MaxFrames
    /\ Pos(z, frame) - Pos(z, s.complete) <= MaxSkipped

\* A new frame begins: with the gap before it noted, it is the last frame begun.
LEMMA FrameBegun ==
    ASSUME NEW z, NEW s, NEW c, NEW due, NEW had, Reporting(z, s, c, Done, due, had),
           NEW frame, MayBegin(z, s, c, frame),
           NEW kind, NEW unit, NEW t, t = V!Begin(V!NoteGap(s, frame), frame, kind, unit)
    PROVE  /\ Reporting(z, t, frame, Open, Past(z, due, c, frame), had)
           /\ t.cur = frame /\ t.prev = s.prev /\ t.complete = s.complete
           /\ t.missing = s.missing /\ t.handed = s.handed /\ t.did = s.did
  <1> /\ z \in V!SeqNums /\ frame \in V!SeqNums
      /\ s.cur = V!None => z = 0 /\ s.complete = 0
      /\ Pos(z, c) < Pos(z, frame) /\ Pos(z, frame) <= MaxFrames
      /\ Pos(z, frame) - Pos(z, s.complete) <= MaxSkipped
    BY DEF MayBegin
  <1>0. /\ Pos(z, c) \in Nat /\ Pos(z, frame) \in Nat /\ c \in V!SeqNums
        /\ s.complete \in V!SeqNums /\ Pos(z, s.complete) \in Nat
        /\ Pos(z, s.complete) <= Pos(z, c)
    BY PosOf DEF Reporting, IsReceiver
  <1> DEFINE a == V!Next16(s.complete)
             b == V!Add(frame, VideoModulus - 1)
             n == V!NoteGap(s, frame)
  <1>1. a \in V!SeqNums /\ Pos(z, a) = Pos(z, s.complete) + 1
    <2>1. Pos(z, s.complete) < VideoModulus - 1
      BY <1>0, VideoConstants
    <2> QED
      BY <1>0, <2>1, PosOf
  <1>2. b \in V!SeqNums /\ Pos(z, b) = Pos(z, frame) - 1
    <2>1. Pos(z, frame) > 0
      BY <1>0
    <2> QED
      BY <2>1, PosOf
  <1>3. V!Gt(frame, a) <=> Pos(z, frame) > Pos(z, a)
    <2>1. Pos(z, frame) - Pos(z, a) < V!Half /\ Pos(z, a) - Pos(z, frame) < V!Half
      <3>1. MaxSkipped \in Nat /\ MaxSkipped < V!Half /\ V!Half \in Nat
        BY VideoConstants
      <3> HIDE DEF a
      <3> QED
        BY <1>0, <1>1, <3>1
    <2> HIDE DEF a
    <2> QED
      BY <1>1, <2>1, PosOrder
  <1>4. frame = 1 /\ s.cur = V!None => Pos(z, frame) <= Pos(z, a)
    <2>1. Pos(0, 0) = 0 /\ Pos(0, 1) = 1
      BY DEF Pos
    <2> HIDE DEF a
    <2> QED
      BY <1>1, <2>1
  <1>5. n = IF Pos(z, frame) > Pos(z, a) THEN V!FlushPendingGap(V!UpdateGap(s, a, b)) ELSE s
    <2>1. Pos(z, frame) <= Pos(z, a) => ~(Pos(z, frame) > Pos(z, a))
      BY <1>0, <1>1
    <2> QED
      BY <1>3, <1>4, <2>1 DEF V!NoteGap
  <1> HIDE DEF a, b, n
  <1>6. /\ Reporting(z, n, frame, Open, Past(z, due, c, frame), had)
        /\ n.prev = s.prev /\ n.complete = s.complete
        /\ n.missing = s.missing /\ n.handed = s.handed /\ n.did = s.did
    <2>1. CASE Pos(z, frame) > Pos(z, a)
      <3>0. PICK u : u = V!UpdateGap(s, a, b)
        OBVIOUS
      <3>1. Pos(z, a) <= Pos(z, b)
        BY <1>0, <1>1, <1>2, <2>1
      <3>2. /\ Reporting(z, u, frame, Open, Past(z, due, c, frame), had)
            /\ u.prev = s.prev /\ u.complete = s.complete
            /\ u.missing = s.missing /\ u.handed = s.handed /\ u.did = s.did
        <4>1. GapBefore(z, s, c, frame, a, b)
          BY <1>1, <1>2, <3>1 DEF GapBefore
        <4> QED
          BY <3>0, <4>1, GapUpdated
      <3>3. n = V!FlushPendingGap(u)
        BY <1>5, <2>1, <3>0
      <3> QED
        BY <3>2, <3>3, GapFlushed
    <2>2. CASE ~(Pos(z, frame) > Pos(z, a))
      <3>1. Pos(z, s.complete) = Pos(z, c) /\ Pos(z, s.complete) < Pos(z, frame)
        BY <1>0, <1>1, <2>2
      <3>2. s.complete = c
        BY <1>0, <3>1, PosOf
      <3>3. Between(z, c, frame) = {}
        <4>1. ASSUME NEW m \in V!SeqNums, Pos(z, c) < Pos(z, m), Pos(z, m) < Pos(z, frame)
              PROVE  FALSE
          BY <1>0, <1>1, <2>2, <3>1, <4>1, PosOf
        <4> QED
          BY <4>1 DEF Between
      <3>4. n = s
        BY <1>5, <2>2
      <3>5. /\ Pos(z, s.complete) <= Pos(z, frame)
            /\ \A m \in V!SeqNums : Pos(z, m) <= Pos(z, c) =>
                   Pos(z, m) <= Pos(z, frame) /\ Pos(z, m) < Pos(z, frame)
            /\ \A m \in V!SeqNums : Pos(z, m) < Pos(z, c) => Pos(z, m) < Pos(z, frame)
        BY <1>0, <3>1, PosOf
      <3>6. Reporting(z, s, frame, Open, due, had)
        BY <3>1, <3>2, <3>5 DEF Reporting
      <3>7. Past(z, due, c, frame) = due
        BY <3>3 DEF Past
      <3> QED
        BY <3>4, <3>6, <3>7
    <2> QED
      BY <2>1, <2>2
  <1>7. t = [n EXCEPT !.cur = frame, !.units = {unit}, !.kind = kind]
    BY DEF n, V!Begin
  <1>8. /\ DOMAIN n = Fields /\ DOMAIN t = Fields
        /\ t.cur = frame /\ t.prev = n.prev /\ t.complete = n.complete /\ t.gap = n.gap
        /\ t.missing = n.missing /\ t.handed = n.handed /\ t.did = n.did
        /\ t.said = n.said /\ t.lastStart = n.lastStart /\ t.lastEnd = n.lastEnd
    <2>1. DOMAIN n = Fields
      BY <1>6 DEF Reporting, IsReceiver
    <2> QED
      BY <1>7, <2>1 DEF Fields
  <1>9. IsReceiver(t) /\ GapFrames(z, t) = GapFrames(z, n)
    BY <1>6, <1>8 DEF Reporting, IsReceiver, GapFrames
  <1>10. Reporting(z, t, frame, Open, Past(z, due, c, frame), had)
    BY <1>6, <1>8, <1>9 DEF Reporting
  <1> QED
    BY <1>6, <1>8, <1>10

-----------------------------------------------------------------------------
\* As many frames follow a frame as their positions say.
LEMMA FramesAfter ==
    ASSUME NEW z \in V!SeqNums, NEW d \in Nat, d < VideoModulus
    PROVE  V!Cardinality({n \in V!SeqNums : 0 < Pos(z, n) /\ Pos(z, n) <= d}) = d
  <1> DEFINE S == {n \in V!SeqNums : 0 < Pos(z, n) /\ Pos(z, n) <= d}
             f == [i \in 1 .. d |-> IF z + i < VideoModulus THEN z + i
                                    ELSE (z + i) - VideoModulus]
  <1>0. VideoModulus \in Nat /\ VideoModulus > 0 /\ z \in Nat /\ z < VideoModulus
    BY VideoConstants
  <1>1. ASSUME NEW i \in 1 .. d
        PROVE  f[i] \in V!SeqNums /\ Pos(z, f[i]) = i
    <2>1. i \in Nat /\ 1 <= i /\ i <= d
      BY <1>1
    <2>2. CASE z + i < VideoModulus
      <3>1. f[i] = z + i
        BY <2>2
      <3>2. z + i \in V!SeqNums /\ Pos(z, z + i) = i
        BY <1>0, <2>1, <2>2, VideoConstants DEF Pos
      <3> QED
        BY <3>1, <3>2
    <2>3. CASE ~(z + i < VideoModulus)
      <3>1. f[i] = (z + i) - VideoModulus
        BY <2>3
      <3>2. PICK k : k = (z + i) - VideoModulus
        OBVIOUS
      <3>3. k \in V!SeqNums /\ Pos(z, k) = i
        BY <1>0, <2>1, <2>3, <3>2, VideoConstants DEF Pos
      <3> QED
        BY <3>1, <3>2, <3>3
    <2> QED
      BY <2>2, <2>3
  <1>2. f \in [1 .. d -> S]
    <2>1. ASSUME NEW i \in 1 .. d
          PROVE  f[i] \in S
      BY <1>1
    <2> QED
      BY <2>1
  <1>3. ASSUME NEW i \in 1 .. d, NEW j \in 1 .. d, f[i] = f[j]
        PROVE  i = j
    BY <1>1, <1>3
  <1>4. ASSUME NEW n \in S
        PROVE  \E i \in 1 .. d : f[i] = n
    <2>1. n \in V!SeqNums /\ Pos(z, n) \in Nat /\ 0 < Pos(z, n) /\ Pos(z, n) <= d
      BY PosOf
    <2>2. PICK i \in 1 .. d : i = Pos(z, n)
      BY <2>1
    <2>3. f[i] \in V!SeqNums /\ Pos(z, f[i]) = Pos(z, n)
      BY <1>1, <2>2
    <2> HIDE DEF f
    <2>4. f[i] = n
      BY <2>1, <2>3, PosOf
    <2> QED
      BY <2>4
  <1> HIDE DEF f, S
  <1>5. f \in Bijection(1 .. d, S)
    <2>1. f \in Injection(1 .. d, S)
      BY <1>2, <1>3 DEF Injection, IsInjective
    <2>2. f \in Surjection(1 .. d, S)
      BY <1>2, <1>4 DEF Surjection
    <2> QED
      BY <2>1, <2>2 DEF Bijection
  <1>6. ExistsBijection(1 .. d, S)
    BY <1>5 DEF ExistsBijection
  <1>7. Cardinality(S) = d
    BY <1>6, FS_CountingElements
  <1>8. V!Cardinality(S) = Cardinality(S)
    BY DEF V!Cardinality, Cardinality
  <1> QED
    BY <1>7, <1>8 DEF S

\* Positions after one frame and after another.
LEMMA PosShift ==
    ASSUME NEW z \in V!SeqNums, NEW c \in V!SeqNums, NEW n \in V!SeqNums
    PROVE  /\ Pos(z, c) + Pos(c, n) = Pos(z, n) \/ Pos(z, c) + Pos(c, n) = Pos(z, n) + VideoModulus
           /\ V!Gt(n, c) => 0 < Pos(c, n) /\ Pos(c, n) < V!Half
           /\ 0 < Pos(c, n) /\ Pos(c, n) < V!Half => V!Gt(n, c)
  <1>0. /\ VideoModulus \in Nat /\ VideoModulus > 0
        /\ V!Half \in Nat /\ VideoModulus = 2 * V!Half
        /\ z \in Nat /\ z < VideoModulus /\ c \in Nat /\ c < VideoModulus
        /\ n \in Nat /\ n < VideoModulus
    BY VideoConstants
  <1>1. \/ Pos(z, c) + Pos(c, n) = Pos(z, n)
        \/ Pos(z, c) + Pos(c, n) = Pos(z, n) + VideoModulus
    BY <1>0 DEF Pos
  <1>2. /\ V!Gt(n, c) => 0 < Pos(c, n) /\ Pos(c, n) < V!Half
        /\ 0 < Pos(c, n) /\ Pos(c, n) < V!Half => V!Gt(n, c)
    BY <1>0 DEF Pos, V!Gt
  <1> QED
    BY <1>1, <1>2

\* The frames that a packet is the first to show are those after the last one begun.
LEMMA FramesShown ==
    ASSUME NEW z, VideoInv(z), NEW frame \in V!SeqNums,
           IF rx.cur = V!None THEN frame \in 1 .. MaxSkipped ELSE V!Gt(frame, rx.cur),
           frames + V!Cardinality(V!Shown(rx, frame)) <= MaxFrames,
           NEW c, c = At(rx)
    PROVE  /\ Pos(z, c) < Pos(z, frame) /\ Pos(z, frame) <= MaxFrames
           /\ V!Shown(rx, frame) \ {frame} = Between(z, c, frame)
           /\ frames + V!Cardinality(V!Shown(rx, frame)) = Pos(z, frame)
  <1>0. /\ z \in V!SeqNums /\ c \in V!SeqNums /\ frames = Pos(z, c)
        /\ rx.cur = V!None => rx.complete = 0
        /\ rx.cur \in V!SeqNums \cup {V!None}
        /\ VideoModulus \in Nat /\ MaxFrames \in Nat /\ MaxFrames < VideoModulus - 2
        /\ V!Half \in Nat /\ VideoModulus = 2 * V!Half
        /\ Pos(z, c) \in Nat /\ Pos(z, frame) \in Nat
    BY PosOf, VideoConstants DEF VideoInv, Reporting
  <1> DEFINE d == Pos(c, frame)
  <1>1. d \in Nat /\ d > 0 /\ d < VideoModulus
    <2>1. d \in Nat /\ d < VideoModulus
      BY <1>0, PosOf
    <2>2. CASE rx.cur = V!None
      <3>1. c = 0 /\ frame \in Nat /\ frame > 0
        BY <1>0, <2>2, VideoConstants DEF At
      <3>2. Pos(0, frame) = frame
        BY <3>1 DEF Pos
      <3> QED
        BY <2>1, <3>1, <3>2
    <2>3. CASE rx.cur # V!None
      <3>1. V!Gt(frame, c)
        BY <2>3 DEF At
      <3>2. 0 < d
        BY <1>0, <3>1, PosShift
      <3> QED
        BY <2>1, <3>2
    <2> QED
      BY <2>2, <2>3
  <1>2. V!Shown(rx, frame) = {n \in V!SeqNums : 0 < Pos(c, n) /\ Pos(c, n) <= d}
    <2>1. CASE rx.cur = V!None
      <3>1. c = 0
        BY <1>0, <2>1 DEF At
      <3>2. ASSUME NEW n \in V!SeqNums
            PROVE  Pos(0, n) = n
        <4>1. n \in Nat
          BY VideoConstants
        <4> QED
          BY <4>1 DEF Pos
      <3>3. V!Shown(rx, frame) = {n \in V!SeqNums : 0 < n /\ n <= frame}
        BY <2>1 DEF V!Shown
      <3> QED
        BY <3>1, <3>2, <3>3
    <2>2. CASE rx.cur # V!None
      <3>1. c = rx.cur /\ V!Gt(frame, c)
        BY <2>2 DEF At
      <3>2. d < V!Half
        BY <1>0, <3>1, PosShift
      <3>3. ASSUME NEW n \in V!SeqNums
            PROVE  V!Gt(n, c) /\ V!Le(n, frame) <=> 0 < Pos(c, n) /\ Pos(c, n) <= d
        <4>1. Pos(c, n) \in Nat
          BY <1>0, PosOf
        <4>2. V!Lt(n, frame) <=> V!Gt(frame, n)
          <5>1. n \in Nat /\ frame \in Nat
            BY VideoConstants
          <5> QED
            BY <1>0, <5>1 DEF V!Lt, V!Gt
        <4>3. ASSUME 0 < Pos(c, n), Pos(c, n) < V!Half
              PROVE  V!Gt(frame, n) <=> d > Pos(c, n)
          <5>1. d - Pos(c, n) < V!Half /\ Pos(c, n) - d < V!Half
            BY <1>0, <1>1, <3>2, <4>1, <4>3
          <5> QED
            BY <1>0, <5>1, PosOrder
        <4>4. n = frame <=> Pos(c, n) = d
          BY <1>0, PosOf
        <4>5. V!Gt(n, c) <=> 0 < Pos(c, n) /\ Pos(c, n) < V!Half
          BY <1>0, PosShift
        <4> HIDE DEF d
        <4> QED
          BY <1>0, <1>1, <3>2, <4>1, <4>2, <4>3, <4>4, <4>5 DEF V!Le
      <3>4. V!Shown(rx, frame) = {n \in V!SeqNums : V!Gt(n, c) /\ V!Le(n, frame)}
        BY <2>2, <3>1 DEF V!Shown
      <3> QED
        BY <3>3, <3>4
    <2> QED
      BY <2>1, <2>2
  <1>3. V!Cardinality(V!Shown(rx, frame)) = d
    <2> HIDE DEF d
    <2> QED
      BY <1>0, <1>1, <1>2, FramesAfter
  <1>4. Pos(z, c) + d = Pos(z, frame)
    <2>1. Pos(z, c) + d <= MaxFrames
      BY <1>0, <1>3
    <2>2. Pos(z, c) + d = Pos(z, frame) \/ Pos(z, c) + d = Pos(z, frame) + VideoModulus
      BY <1>0, PosShift
    <2> HIDE DEF d
    <2> QED
      BY <1>0, <1>1, <2>1, <2>2
  <1>5. ASSUME NEW n \in V!SeqNums
        PROVE  0 < Pos(c, n) /\ Pos(c, n) <= d /\ n # frame
                   <=> Pos(z, c) < Pos(z, n) /\ Pos(z, n) < Pos(z, frame)
    <2>1. /\ Pos(c, n) \in Nat /\ Pos(z, n) \in Nat /\ Pos(c, n) < VideoModulus
          /\ Pos(z, n) < VideoModulus /\ Pos(z, frame) < VideoModulus
      BY <1>0, PosOf
    <2>2. Pos(z, c) + Pos(c, n) = Pos(z, n) \/ Pos(z, c) + Pos(c, n) = Pos(z, n) + VideoModulus
      BY <1>0, PosShift
    <2>3. n = frame <=> Pos(c, n) = d
      BY <1>0, PosOf
    <2> HIDE DEF d
    <2> QED
      BY <1>0, <1>1, <1>4, <2>1, <2>2, <2>3
  <1>6. V!Shown(rx, frame) \ {frame} = Between(z, c, frame)
    <2> HIDE DEF d
    <2> QED
      BY <1>2, <1>5 DEF Between
  <1>7. Pos(z, c) < Pos(z, frame) /\ Pos(z, frame) <= MaxFrames
    <2>1. frames + d <= MaxFrames
      BY <1>3
    <2> HIDE DEF d
    <2> QED
      BY <1>0, <1>1, <1>4, <2>1
  <1> QED
    BY <1>0, <1>3, <1>4, <1>6, <1>7

\* What a packet leaves behind.
LEMMA Remembered ==
    ASSUME NEW z, VideoInv(z), NEW s, NEW shown, V!Remember(s, shown), NEW ended,
           ended = IF s.prev # rx.prev /\ s.handed = {} THEN {s.prev} ELSE {},
           Reporting(z, s, At(s), Phase(s), owed \cup ended \cup (shown \ {s.cur}),
                     delivered \cup s.handed),
           s.cur \in V!SeqNums \cup {V!None},
           s.cur = V!None => s.prev = V!None /\ z = 0 /\ s.complete = 0,
           frames + V!Cardinality(shown) = Pos(z, At(s)),
           s.missing \in Nat, s.missing <= SkipThreshold,
           \/ s.did \cap {"tried", "submitted"} # {}
           \/ "lost" \in s.did /\ s.missing = rx.missing + 1
           \/ s.did = {} /\ s.missing = rx.missing
    PROVE  VideoInv(z)'
  <1> DEFINE due == owed \cup ended \cup (shown \ {s.cur})
  <1>0. PICK r : r = rx'
    OBVIOUS
  <1>1. r = [s EXCEPT !.said = {}, !.handed = {}, !.did = {},
                     !.units = IF s.cur = s.prev THEN {} ELSE @,
                     !.kind = IF s.cur = s.prev THEN V!Intra ELSE @]
    BY <1>0 DEF V!Remember
  <1>2. DOMAIN s = Fields
    BY DEF Reporting, IsReceiver
  <1>3. /\ DOMAIN r = Fields /\ r.said = {} /\ r.handed = {} /\ r.did = {}
        /\ r.cur = s.cur /\ r.prev = s.prev /\ r.complete = s.complete /\ r.gap = s.gap
        /\ r.lastStart = s.lastStart /\ r.lastEnd = s.lastEnd /\ r.missing = s.missing
    BY <1>1, <1>2 DEF Fields
  <1>4. PICK o, h : /\ o = owed' /\ o = due \ s.said
                    /\ h = delivered' /\ h = delivered \cup s.handed
    BY DEF V!Remember
  <1>5. At(r) = At(s) /\ Phase(r) = Phase(s) /\ GapFrames(z, r) = GapFrames(z, s)
    BY <1>3 DEF At, Phase, GapFrames
  <1>6. PICK c, phase : c = At(s) /\ phase = Phase(s)
    OBVIOUS
  <1>7. Reporting(z, s, c, phase, due, h)
    BY <1>4, <1>6
  <1> HIDE DEF due
  <1>8. IsReceiver(r)
    BY <1>3, <1>7 DEF Reporting, IsReceiver
  <1>9. o \ r.said = due \ s.said
    BY <1>3, <1>4
  <1>10. GapFrames(z, r) = GapFrames(z, s)
    BY <1>5
  <1>11. Reporting(z, r, c, phase, o, h)
    BY <1>3, <1>7, <1>8, <1>9, <1>10 DEF Reporting
  <1>12. wrong' = FALSE
    BY <1>4, <1>7 DEF V!Remember, VideoInv, Reporting
  <1>13. PICK u : /\ u = untried'
                  /\ u = IF s.did \cap {"tried", "submitted"} # {} THEN 0
                         ELSE IF "lost" \in s.did THEN untried + 1 ELSE untried
    BY DEF V!Remember
  <1>14. u \in Nat /\ u <= r.missing
    BY <1>3, <1>13 DEF VideoInv
  <1>15. PICK f : f = frames' /\ f = Pos(z, At(s))
    BY DEF V!Remember
  <1>16. z \in V!SeqNums
    BY DEF VideoInv
  <1> QED
    BY <1>0, <1>3, <1>4, <1>5, <1>6, <1>11, <1>12, <1>13, <1>14, <1>15, <1>16 DEF VideoInv

-----------------------------------------------------------------------------
(* The packets of the video *)

LEMMA NoneIsNone == V!None \notin V!SeqNums
  BY VideoConstants DEF V!None

LEMMA VideoUnit ==
    ASSUME NEW z, VideoInv(z), NEW unit, NEW luck, V!Unit(unit, luck)
    PROVE  VideoInv(z)'
  <1> PICK g : g = V!FlushPendingGap(rx)
    OBVIOUS
  <1> PICK put : put = V!PutUnit(g, unit)
    OBVIOUS
  <1> PICK s : s = IF V!FlushPossible(put) THEN V!FlushFrame(put, luck) ELSE put
    OBVIOUS
  <1> PICK c, phase : c = At(rx) /\ phase = Phase(rx)
    OBVIOUS
  <1>0. V!Remember(s, {}) /\ rx.cur # V!None
    BY DEF V!Unit
  <1>1. /\ z \in V!SeqNums /\ Reporting(z, rx, c, phase, owed, delivered)
        /\ rx.handed = {} /\ rx.did = {} /\ frames = Pos(z, c)
        /\ rx.missing \in Nat /\ rx.missing <= SkipThreshold
        /\ rx.cur \in V!SeqNums /\ rx.cur = c
    BY <1>0 DEF VideoInv, At
  <1>2. /\ Reporting(z, g, c, phase, owed, delivered)
        /\ g.cur = rx.cur /\ g.prev = rx.prev /\ g.complete = rx.complete
        /\ g.missing = rx.missing /\ g.handed = rx.handed /\ g.did = rx.did
    BY <1>1, GapFlushed
  <1>3. /\ Alike(put, g) /\ put.prev = g.prev /\ put.complete = g.complete
        /\ put.missing = g.missing /\ put.handed = g.handed /\ put.did = g.did
    <2>1. DOMAIN g = Fields
      BY <1>2 DEF Reporting, IsReceiver
    <2> QED
      BY <2>1 DEF V!PutUnit, Alike, Fields
  <1>4. Reporting(z, put, c, phase, owed, delivered)
    BY <1>2, <1>3, AlikeReporting
  <1>5. put.cur = c /\ put.prev = rx.prev /\ put.missing = rx.missing /\ put.handed = {}
        /\ put.did = {}
    BY <1>1, <1>2, <1>3 DEF Alike
  <1>6. frames + V!Cardinality({}) = frames
    <2>1. V!Cardinality({}) = 0
      BY FS_EmptySet DEF V!Cardinality, Cardinality
    <2>2. Pos(z, c) \in Nat
      BY <1>1, <1>4, PosOf DEF Reporting
    <2> QED
      BY <1>1, <2>1, <2>2
  <1>7. CASE ~V!FlushPossible(put)
    <2>1. s = put /\ At(s) = c /\ Phase(s) = phase
      BY <1>0, <1>1, <1>5, <1>7 DEF At, Phase
    <2>2. owed \cup {} \cup ({} \ {s.cur}) = owed /\ delivered \cup s.handed = delivered
      BY <1>5, <2>1
    <2>3. Reporting(z, s, At(s), Phase(s), owed \cup {} \cup ({} \ {s.cur}),
                    delivered \cup s.handed)
      BY <1>4, <2>1, <2>2
    <2> QED
      BY <1>0, <1>1, <1>5, <1>6, <2>1, <2>3, Remembered, NoneIsNone
  <1>8. CASE V!FlushPossible(put)
    <2>1. s = V!FlushFrame(put, luck) /\ put.cur # put.prev
      BY <1>8 DEF V!FlushPossible
    <2>2. phase = Open
      BY <1>0, <1>1, <1>5, <2>1 DEF Phase
    <2>3. /\ \/ s.handed = {} /\ Reporting(z, s, c, Done, With(owed, c), delivered)
             \/ s.handed = {c} /\ Reporting(z, s, c, Done, owed, With(delivered, c))
          /\ s.cur = c /\ s.prev = c
          /\ s.missing \in Nat /\ s.missing <= SkipThreshold
          /\ \/ s.did \cap {"tried", "submitted"} # {}
             \/ "lost" \in s.did /\ s.missing = put.missing + 1
      <3>1. Collecting(z, put, c, owed, delivered)
        BY <1>1, <1>4, <1>5, <2>2 DEF Collecting
      <3> QED
        BY <2>1, <3>1, FlushedFrame
    <2>4. At(s) = c /\ Phase(s) = Done /\ s.prev # rx.prev
      BY <1>0, <1>1, <1>5, <2>1, <2>3 DEF At, Phase
    <2>5. PICK ended : ended = IF s.prev # rx.prev /\ s.handed = {} THEN {s.prev} ELSE {}
      OBVIOUS
    <2>6. Reporting(z, s, At(s), Phase(s), owed \cup ended \cup ({} \ {s.cur}),
                    delivered \cup s.handed)
      <3>1. CASE s.handed = {}
        <4>1. /\ owed \cup ended \cup ({} \ {s.cur}) = owed \cup {c}
              /\ delivered \cup s.handed = delivered
          BY <2>3, <2>4, <2>5, <3>1
        <4>2. Reporting(z, s, c, Done, owed \cup {c}, delivered)
          BY <2>3, <3>1 DEF With
        <4> QED
          BY <2>4, <4>1, <4>2
      <3>2. CASE s.handed # {}
        <4>1. /\ owed \cup ended \cup ({} \ {s.cur}) = owed
              /\ delivered \cup s.handed = delivered \cup {c}
          BY <2>3, <2>5, <3>2
        <4>2. Reporting(z, s, c, Done, owed, delivered \cup {c})
          BY <2>3, <3>2 DEF With
        <4> QED
          BY <2>4, <4>1, <4>2
      <3> QED
        BY <3>1, <3>2
    <2> QED
      BY <1>0, <1>1, <1>5, <1>6, <2>3, <2>4, <2>5, <2>6, Remembered, NoneIsNone
  <1> QED
    BY <1>7, <1>8

LEMMA VideoOldUnit ==
    ASSUME NEW z, VideoInv(z), V!OldUnit
    PROVE  VideoInv(z)'
  <1> PICK s : s = V!FlushPendingGap(rx)
    OBVIOUS
  <1> PICK c, phase : c = At(rx) /\ phase = Phase(rx)
    OBVIOUS
  <1>0. V!Remember(s, {}) /\ rx.cur # V!None
    BY DEF V!OldUnit
  <1>1. /\ z \in V!SeqNums /\ Reporting(z, rx, c, phase, owed, delivered)
        /\ rx.handed = {} /\ rx.did = {} /\ frames = Pos(z, c)
        /\ rx.missing \in Nat /\ rx.missing <= SkipThreshold
        /\ rx.cur \in V!SeqNums /\ rx.cur = c
    BY <1>0 DEF VideoInv, At
  <1>2. /\ Reporting(z, s, c, phase, owed, delivered)
        /\ s.cur = rx.cur /\ s.prev = rx.prev /\ s.complete = rx.complete
        /\ s.missing = rx.missing /\ s.handed = rx.handed /\ s.did = rx.did
    BY <1>1, GapFlushed
  <1>3. frames + V!Cardinality({}) = frames
    <2>1. V!Cardinality({}) = 0
      BY FS_EmptySet DEF V!Cardinality, Cardinality
    <2>2. Pos(z, c) \in Nat
      BY <1>1, <1>2, PosOf DEF Reporting
    <2> QED
      BY <1>1, <2>1, <2>2
  <1>4. At(s) = c /\ Phase(s) = phase
    BY <1>0, <1>1, <1>2 DEF At, Phase
  <1>5. owed \cup {} \cup ({} \ {s.cur}) = owed /\ delivered \cup s.handed = delivered
    BY <1>1, <1>2
  <1>6. Reporting(z, s, At(s), Phase(s), owed \cup {} \cup ({} \ {s.cur}),
                  delivered \cup s.handed)
    BY <1>2, <1>4, <1>5
  <1> QED
    BY <1>0, <1>1, <1>2, <1>3, <1>4, <1>6, Remembered, NoneIsNone

LEMMA VideoNewFrame ==
    ASSUME NEW z, VideoInv(z), NEW frame \in V!SeqNums, NEW kind, NEW unit, NEW luck,
           V!NewFrame(frame, kind, unit, luck)
    PROVE  VideoInv(z)'
  <1> PICK g : g = V!FlushPendingGap(rx)
    OBVIOUS
  <1> PICK t : t = V!FinishPrevious(g, luck)
    OBVIOUS
  <1> PICK s : s = V!Begin(V!NoteGap(t, frame), frame, kind, unit)
    OBVIOUS
  <1> PICK c, phase : c = At(rx) /\ phase = Phase(rx)
    OBVIOUS
  <1> PICK shown : shown = V!Shown(rx, frame)
    OBVIOUS
  <1>0. V!Remember(s, shown)
    BY DEF V!NewFrame
  <1>1. /\ z \in V!SeqNums /\ Reporting(z, rx, c, phase, owed, delivered)
        /\ rx.handed = {} /\ rx.did = {} /\ frames = Pos(z, c)
        /\ rx.missing \in Nat /\ rx.missing <= SkipThreshold
        /\ rx.cur \in V!SeqNums \cup {V!None} /\ (rx.cur # V!None => rx.cur = c)
        /\ rx.cur = V!None => rx.prev = V!None /\ z = 0 /\ rx.complete = 0
    BY DEF VideoInv, At
  <1>2. /\ Reporting(z, g, c, phase, owed, delivered)
        /\ g.cur = rx.cur /\ g.prev = rx.prev /\ g.complete = rx.complete
        /\ g.missing = rx.missing /\ g.handed = rx.handed /\ g.did = rx.did
    BY <1>1, GapFlushed
  <1>3. /\ Pos(z, c) < Pos(z, frame) /\ Pos(z, frame) <= MaxFrames
        /\ shown \ {frame} = Between(z, c, frame)
        /\ frames + V!Cardinality(shown) = Pos(z, frame)
    <2>1. /\ IF rx.cur = V!None THEN frame \in 1 .. MaxSkipped ELSE V!Gt(frame, rx.cur)
          /\ frames + V!Cardinality(V!Shown(rx, frame)) <= MaxFrames
      BY DEF V!NewFrame
    <2> QED
      BY <2>1, FramesShown
  <1>4. /\ c \in V!SeqNums /\ rx.complete \in V!SeqNums /\ Pos(z, c) \in Nat
        /\ Pos(z, frame) \in Nat /\ Pos(z, rx.complete) \in Nat
        /\ Pos(z, rx.complete) <= Pos(z, c)
    BY <1>1, PosOf DEF Reporting, IsReceiver
  <1>5. Pos(z, frame) - Pos(z, rx.complete) <= MaxSkipped
    <2>1. V!Span(rx.complete, frame) <= MaxSkipped + 1
      BY DEF V!NewFrame
    <2>2. Pos(z, rx.complete) <= Pos(z, frame)
      BY <1>3, <1>4
    <2>3. V!Span(rx.complete, frame) = Pos(z, frame) - Pos(z, rx.complete) + 1
      BY <1>1, <1>4, <2>2, PosOrder
    <2> QED
      BY <1>4, <2>1, <2>3, VideoConstants
  <1>6. PICK ended : ended = IF t.prev # rx.prev /\ t.handed = {} THEN {t.prev} ELSE {}
    OBVIOUS
  <1>7. /\ Reporting(z, t, c, Done, owed \cup ended, delivered \cup t.handed)
        /\ t.cur = rx.cur /\ t.prev = rx.cur
        /\ t.complete \in {rx.complete, c}
        /\ t.missing \in Nat /\ t.missing <= SkipThreshold
        /\ \/ t.did \cap {"tried", "submitted"} # {}
           \/ "lost" \in t.did /\ t.missing = rx.missing + 1
           \/ t.did = {} /\ t.missing = rx.missing
    <2>1. CASE g.cur # V!None /\ g.prev # g.cur
      <3>1. t = V!FlushFrame(g, luck) /\ phase = Open /\ rx.cur = c /\ rx.prev # c
        BY <1>1, <1>2, <2>1 DEF V!FinishPrevious, Phase
      <3>3. Collecting(z, g, c, owed, delivered)
        BY <1>1, <1>2, <3>1 DEF Collecting
      <3>4. /\ \/ t.handed = {} /\ Reporting(z, t, c, Done, With(owed, c), delivered)
               \/ t.handed = {c} /\ Reporting(z, t, c, Done, owed, With(delivered, c))
            /\ t.cur = c /\ t.prev = c /\ t.complete \in {g.complete, c}
            /\ t.missing \in Nat /\ t.missing <= SkipThreshold
            /\ \/ t.did \cap {"tried", "submitted"} # {}
               \/ "lost" \in t.did /\ t.missing = g.missing + 1
        BY <3>1, <3>3, FlushedFrame
      <3>5. Reporting(z, t, c, Done, owed \cup ended, delivered \cup t.handed)
        <4>1. CASE t.handed = {}
          <5>1. owed \cup ended = owed \cup {c} /\ delivered \cup t.handed = delivered
            BY <1>6, <3>1, <3>4, <4>1
          <5>2. Reporting(z, t, c, Done, owed \cup {c}, delivered)
            BY <3>4, <4>1 DEF With
          <5> QED
            BY <5>1, <5>2
        <4>2. CASE t.handed # {}
          <5>1. owed \cup ended = owed /\ delivered \cup t.handed = delivered \cup {c}
            BY <1>6, <3>4, <4>2
          <5>2. Reporting(z, t, c, Done, owed, delivered \cup {c})
            BY <3>4, <4>2 DEF With
          <5> QED
            BY <5>1, <5>2
        <4> QED
          BY <4>1, <4>2
      <3> QED
        BY <1>2, <3>1, <3>4, <3>5
    <2>2. CASE ~(g.cur # V!None /\ g.prev # g.cur)
      <3>1. t = g /\ phase = Done /\ t.prev = rx.prev /\ rx.prev = rx.cur
        BY <1>1, <1>2, <2>2 DEF V!FinishPrevious, Phase
      <3>2. ended = {} /\ owed \cup ended = owed /\ delivered \cup t.handed = delivered
        BY <1>1, <1>2, <1>6, <3>1
      <3>3. Reporting(z, t, c, Done, owed \cup ended, delivered \cup t.handed)
        BY <1>2, <3>1, <3>2
      <3> QED
        BY <1>1, <1>2, <3>1, <3>3
    <2> QED
      BY <2>1, <2>2
  <1>8. Pos(z, frame) - Pos(z, t.complete) <= MaxSkipped
    <2>1. CASE t.complete = rx.complete
      BY <1>5, <2>1
    <2>2. CASE t.complete = c
      BY <1>4, <1>5, <2>2, VideoConstants
    <2> QED
      BY <1>7, <2>1, <2>2
  <1>9. t.cur = V!None => z = 0 /\ t.complete = 0
    BY <1>1, <1>7 DEF At
  <1>10. PICK due, had : due = owed \cup ended /\ had = delivered \cup t.handed
    OBVIOUS
  <1>11. /\ Reporting(z, s, frame, Open, Past(z, due, c, frame), had)
         /\ s.cur = frame /\ s.prev = t.prev /\ s.complete = t.complete
         /\ s.missing = t.missing /\ s.handed = t.handed /\ s.did = t.did
    <2>1. Reporting(z, t, c, Done, due, had)
      BY <1>7, <1>10
    <2>2. MayBegin(z, t, c, frame)
      BY <1>1, <1>3, <1>8, <1>9 DEF MayBegin
    <2> QED
      BY <2>1, <2>2, FrameBegun
  <1>12. s.prev # frame
    BY <1>1, <1>3, <1>4, <1>7, <1>11, NoneIsNone
  <1>13. At(s) = frame /\ Phase(s) = Open
    BY <1>11, <1>12, NoneIsNone DEF At, Phase
  <1>14. ended = IF s.prev # rx.prev /\ s.handed = {} THEN {s.prev} ELSE {}
    BY <1>6, <1>11
  <1>15. /\ owed \cup ended \cup (shown \ {s.cur}) = Past(z, due, c, frame)
         /\ delivered \cup s.handed = had
    BY <1>3, <1>10, <1>11 DEF Past
  <1>16. Reporting(z, s, At(s), Phase(s), owed \cup ended \cup (shown \ {s.cur}),
                   delivered \cup s.handed)
    BY <1>11, <1>13, <1>15
  <1>17. frames + V!Cardinality(shown) = Pos(z, At(s))
    BY <1>3, <1>13
  <1>18. /\ s.cur \in V!SeqNums \cup {V!None} /\ s.cur # V!None
         /\ s.missing \in Nat /\ s.missing <= SkipThreshold
         /\ \/ s.did \cap {"tried", "submitted"} # {}
            \/ "lost" \in s.did /\ s.missing = rx.missing + 1
            \/ s.did = {} /\ s.missing = rx.missing
    BY <1>7, <1>11, NoneIsNone
  <1> QED
    BY <1>0, <1>14, <1>16, <1>17, <1>18, Remembered

LEMMA VideoTick ==
    ASSUME NEW z, VideoInv(z), V!Tick
    PROVE  VideoInv(z)'
  <1> PICK r : r = rx'
    OBVIOUS
  <1>1. PICK a : r = [rx EXCEPT !.gap = [@ EXCEPT !.hold = 0], !.cooled = TRUE, !.idrAge = a]
    BY DEF V!Tick
  <1>2. DOMAIN rx = Fields /\ DOMAIN rx.gap = {"pending", "start", "end", "hold"}
    BY DEF VideoInv, Reporting, IsReceiver
  <1>3. /\ DOMAIN r = Fields /\ r.said = rx.said /\ r.handed = rx.handed /\ r.did = rx.did
        /\ r.cur = rx.cur /\ r.prev = rx.prev /\ r.complete = rx.complete
        /\ r.gap = [rx.gap EXCEPT !.hold = 0]
        /\ r.lastStart = rx.lastStart /\ r.lastEnd = rx.lastEnd /\ r.missing = rx.missing
    BY <1>1, <1>2 DEF Fields
  <1>4. /\ DOMAIN r.gap = {"pending", "start", "end", "hold"}
        /\ r.gap.pending = rx.gap.pending
        /\ r.gap.start = rx.gap.start /\ r.gap.end = rx.gap.end
    BY <1>2, <1>3
  <1>5. At(r) = At(rx) /\ Phase(r) = Phase(rx) /\ GapFrames(z, r) = GapFrames(z, rx)
    BY <1>3, <1>4 DEF At, Phase, GapFrames
  <1>6. PICK c, phase : c = At(rx) /\ phase = Phase(rx)
    OBVIOUS
  <1>7. Reporting(z, rx, c, phase, owed, delivered)
    BY <1>6 DEF VideoInv
  <1>8. IsReceiver(r)
    BY <1>3, <1>4, <1>7 DEF Reporting, IsReceiver
  <1>9. Reporting(z, r, c, phase, owed, delivered)
    BY <1>3, <1>4, <1>5, <1>7, <1>8 DEF Reporting
  <1>10. /\ owed' = owed /\ delivered' = delivered /\ wrong' = wrong
         /\ untried' = untried /\ frames' = frames
    BY DEF V!Tick
  <1> QED
    BY <1>3, <1>5, <1>6, <1>9, <1>10 DEF VideoInv

LEMMA VideoStep ==
    ASSUME NEW z, VideoInv(z), V!Next
    PROVE  VideoInv(z)'
  <1>1. \/ V!OldUnit \/ V!Tick
        \/ \E unit, luck : V!Unit(unit, luck)
        \/ \E unit, luck, kind : \E frame \in V!SeqNums : V!NewFrame(frame, kind, unit, luck)
    BY DEF V!Next, V!AvPacket
  <1> QED
    BY <1>1, VideoUnit, VideoOldUnit, VideoNewFrame, VideoTick

LEMMA VideoStart ==
    ASSUME rx \in {V!Fresh, V!BeforeWrap},
           owed = {}, delivered = {}, wrong = FALSE, untried = 0, frames = 0
    PROVE  \E z : VideoInv(z)
  <1>0. /\ VideoModulus \in Nat /\ MaxFrames \in Nat /\ MaxFrames < VideoModulus - 2
        /\ MaxSkipped \in Nat /\ SkipThreshold \in Nat
        /\ V!SeqNums = 0 .. VideoModulus - 1
    BY VideoConstants
  <1> DEFINE Begun(z, s) ==
                 /\ z \in V!SeqNums /\ DOMAIN s = Fields /\ s.gap = V!NoGap
                 /\ s.complete = z /\ s.said = {} /\ s.handed = {} /\ s.did = {}
                 /\ \/ s.cur = V!None /\ s.prev = V!None /\ z = 0
                    \/ s.cur = z /\ s.prev = z
                 /\ s.missing = 0 /\ s.lastStart \in V!SeqNums
                 /\ Pos(z, s.lastStart) = 0 \/ Pos(z, s.lastStart) > MaxFrames
  <1>1. ASSUME NEW z, Begun(z, rx)
        PROVE  VideoInv(z)
    <2>1. /\ DOMAIN rx.gap = {"pending", "start", "end", "hold"} /\ rx.gap.pending = FALSE
      BY <1>1 DEF V!NoGap
    <2>2. IsReceiver(rx) /\ GapFrames(z, rx) = {}
      BY <1>1, <2>1 DEF IsReceiver, GapFrames
    <2>3. Pos(z, z) = 0 /\ 0 - 0 <= MaxSkipped /\ 0 <= MaxFrames
      BY <1>0, <1>1 DEF Pos
    <2>4. At(rx) = z /\ Phase(rx) = Done /\ Done # Open
      BY <1>1 DEF At, Phase, Done, Open
    <2>5. ~(1 <= Pos(z, rx.lastStart) /\ Pos(z, rx.lastStart) <= MaxFrames)
      <3>1. Pos(z, rx.lastStart) \in Nat
        BY <1>1, PosOf
      <3> QED
        BY <1>0, <1>1, <3>1
    <2>6. Reporting(z, rx, z, Done, owed, delivered)
      BY <1>1, <2>1, <2>2, <2>3, <2>4, <2>5 DEF Reporting
    <2> QED
      BY <1>0, <1>1, <2>3, <2>4, <2>6, NoneIsNone DEF VideoInv
  <1>2. CASE rx = V!Fresh
    <2>1. Pos(0, 0) = 0 /\ 0 \in V!SeqNums
      BY <1>0 DEF Pos
    <2>2. /\ DOMAIN rx = Fields /\ rx.gap = V!NoGap /\ rx.complete = 0
          /\ rx.said = {} /\ rx.handed = {} /\ rx.did = {}
          /\ rx.cur = V!None /\ rx.prev = V!None
          /\ rx.missing = 0 /\ rx.lastStart = 0
      BY <1>2 DEF V!Fresh, Fields
    <2>3. Begun(0, rx)
      BY <2>1, <2>2
    <2> QED
      BY <1>1, <2>3
  <1>3. CASE rx = V!BeforeWrap
    <2>1. PICK before : before = VideoModulus - 2
      OBVIOUS
    <2>2. rx = [V!Fresh EXCEPT !.cur = before, !.prev = before, !.complete = before,
                               !.refs = <<before>>, !.lastStart = before - 1,
                               !.lastEnd = before - 1]
      BY <1>3, <2>1 DEF V!BeforeWrap
    <2>3. /\ before \in V!SeqNums /\ before - 1 \in V!SeqNums
          /\ Pos(before, before - 1) > MaxFrames
      BY <1>0, <2>1 DEF Pos
    <2>4. Begun(before, rx)
      BY <2>2, <2>3 DEF V!Fresh, Fields
    <2> QED
      BY <1>1, <2>4
  <1> QED
    BY <1>2, <1>3

\* What the invariant promises.
LEMMA VideoPromise ==
    ASSUME NEW z, VideoInv(z)
    PROVE  V!LossesReported /\ V!ReportsTruthful /\ V!PressureKept
  <1>1. V!ReportsTruthful /\ V!PressureKept
    <2>1. untried <= SkipThreshold
      BY VideoConstants DEF VideoInv
    <2> QED
      BY <2>1 DEF VideoInv, V!ReportsTruthful, V!PressureKept
  <1>2. V!LossesReported
    <2> PICK c, phase : c = At(rx) /\ phase = Phase(rx)
      OBVIOUS
    <2>1. /\ z \in V!SeqNums /\ Reporting(z, rx, c, phase, owed, delivered) /\ rx.said = {}
          /\ rx.cur \in V!SeqNums \cup {V!None}
      BY DEF VideoInv
    <2>2. owed \subseteq GapFrames(z, rx) \cup
              (IF phase = Done /\ rx.complete # c THEN {c} ELSE {})
      BY <2>1 DEF Reporting
    <2>3. rx.gap.pending => GapFrames(z, rx) = V!Range16(rx.gap.start, rx.gap.end)
      <3>1. ASSUME rx.gap.pending
            PROVE  /\ rx.gap.start \in V!SeqNums /\ rx.gap.end \in V!SeqNums
                   /\ Pos(z, rx.gap.start) <= Pos(z, rx.gap.end)
        BY <2>1, <3>1 DEF Reporting
      <3> QED
        BY <2>1, <3>1, PosOrder DEF GapFrames, Frames
    <2>4. rx.cur = V!None => c = rx.complete
      BY DEF At
    <2>5. ASSUME rx.cur # V!None, rx.complete # c
          PROVE  c = rx.cur /\ c \in V!Since(rx.complete, rx.cur)
      <3>1. /\ c = rx.cur /\ c \in V!SeqNums /\ rx.complete \in V!SeqNums
            /\ Pos(z, rx.complete) \in Nat /\ Pos(z, c) \in Nat
            /\ Pos(z, rx.complete) <= Pos(z, c) /\ Pos(z, c) <= MaxFrames
        BY <2>1, <2>5, PosOf DEF At, Reporting, IsReceiver
      <3>2. Pos(z, rx.complete) # Pos(z, c)
        BY <2>1, <2>5, <3>1, PosOf
      <3>3. PICK a : a = V!Next16(rx.complete)
        OBVIOUS
      <3>4. a \in V!SeqNums /\ Pos(z, a) = Pos(z, rx.complete) + 1
        <4>1. Pos(z, rx.complete) < VideoModulus - 1
          BY <3>1, VideoConstants
        <4> QED
          BY <2>1, <3>1, <3>3, <4>1, PosOf
      <3>5. Pos(z, a) <= Pos(z, c) /\ Pos(z, c) <= Pos(z, c)
        BY <3>1, <3>2, <3>4
      <3>6. c \in V!Range16(a, c)
        BY <2>1, <3>1, <3>4, <3>5, PosOrder
      <3> QED
        BY <2>5, <3>1, <3>3, <3>6 DEF V!Since
    <2>6. ~rx.gap.pending => GapFrames(z, rx) = {}
      BY DEF GapFrames
    <2> QED
      BY <2>2, <2>3, <2>4, <2>5, <2>6 DEF V!LossesReported
  <1> QED
    BY <1>1, <1>2

\* However frames are lost, come with too few units or refer to lost frames, and whenever
\* the gap that is held becomes due: every frame the decoder did not get is reported, in the
\* gap, or in what the next report begins with; no frame it has is reported as lost; and
\* there are never more than SkipThreshold losses without an attempt to get an IDR frame
\* (videoreceiver.c, 71-150, 283-448; videoreceiver_gap.c, 7-49).
THEOREM LossesAreReported == Spec => []LossesReported
  <1> DEFINE Inv == \E z : VideoInv(z)
  <1>1. Init => Inv
    <2> SUFFICES ASSUME Init PROVE Inv
      OBVIOUS
    <2>1. /\ rx \in {V!Fresh, V!BeforeWrap}
          /\ owed = {} /\ delivered = {} /\ wrong = FALSE /\ untried = 0 /\ frames = 0
      BY DEF Init, V!Init
    <2> QED
      BY <2>1, VideoStart
  <1>2. Inv /\ [Next]_vars => Inv'
    <2> SUFFICES ASSUME NEW z, VideoInv(z), [Next]_vars PROVE VideoInv(z)'
      OBVIOUS
    <2>1. CASE UNCHANGED videoVars
      BY <2>1 DEF videoVars, VideoInv
    <2> QED
      BY <2>1, BenchStep, VideoStep
  <1>3. Inv => LossesReported
    BY VideoPromise DEF LossesReported
  <1> QED
    BY <1>1, <1>2, <1>3, PTL DEF Spec
-----------------------------------------------------------------------------
(* The touches *)

\* A slot of the thread's table, a touch of the controller, and what the loops of one poll
\* work on.
Slot == [active : BOOLEAN, finger : Nat, id : Int, start : Nat, moved : BOOLEAN]
Touch == [id : Int, at : Nat]
Loops == [slots : [1 .. Touches -> Slot], touches : [1 .. Touches -> Touch],
          next : 0 .. Ids - 1, seen : SUBSET (1 .. Touches), reused : BOOLEAN, pulse : Nat]

\* The slots that are taken, and those whose finger has moved.
InUse(own) == {i \in 1 .. Touches : own[i].active}
Dragged(own) == {i \in 1 .. Touches : own[i].moved}

\* The table of the thread and the touches of the controller say the same: one finger and
\* one id for each slot, and a touch with this id; no id twice, and no touch without a slot.
Fitting(own, shown) ==
    /\ \A i \in InUse(own) :
          /\ own[i].finger \in 1 .. Fingers /\ own[i].id \in 0 .. Ids - 1
          /\ \E t \in 1 .. Touches : shown[t].id = own[i].id
    /\ \A i, j \in InUse(own) :
          i # j => own[i].finger # own[j].finger /\ own[i].id # own[j].id
    /\ \A i \in 1 .. Touches : i \notin InUse(own) => own[i].finger = 0
    /\ \A t, u \in 1 .. Touches : t # u /\ shown[t].id >= 0 => shown[t].id # shown[u].id
    /\ \A t \in 1 .. Touches :
          shown[t].id >= 0 => \E i \in InUse(own) : own[i].id = shown[t].id

\* What the constants are.
LEMMA InputConstants ==
    /\ Fingers \in Nat \ {0} /\ Positions \in Nat \ {0} /\ Mapped \subseteq 1 .. Positions
    /\ Touches \in Nat \ {0} /\ Ids \in Nat \ {0} /\ TapMove \in Nat /\ Pulse \in Nat
  BY MCClientAssumption DEF I!InputAssumption

\* The search through a table of touches gives one of the places that fit, 0 if none does.
LEMMA FirstPlace ==
    ASSUME NEW places \in SUBSET (1 .. Touches)
    PROVE  \/ places = {} /\ I!First(places) = 0
           \/ I!First(places) \in places /\ I!First(places) # 0
  <1>1. CASE places = {}
    BY <1>1 DEF I!First
  <1>2. CASE places # {}
    <2>1. places \in SUBSET Nat
      BY InputConstants
    <2>2. \E x \in places : \A y \in places : x <= y
      BY <1>2, <2>1, Sub!LeastElement
    <2>3. I!Min(places) \in places
      BY <2>2 DEF I!Min
    <2>4. I!First(places) = I!Min(places)
      BY <1>2 DEF I!First
    <2> QED
      BY <2>3, <2>4, InputConstants
  <1> QED
    BY <1>1, <1>2

\* A touch begins at a place that is free.
LEMMA FreeTouchPlace ==
    ASSUME NEW s
    PROVE  \/ I!FreeTouch(s) = 0
           \/ /\ I!FreeTouch(s) # 0 /\ I!FreeTouch(s) \in 1 .. Touches
              /\ s.touches[I!FreeTouch(s)].id < 0
  <1> DEFINE places == {i \in 1 .. Touches : s.touches[i].id < 0}
  <1>1. I!FreeTouch(s) = I!First(places)
    BY DEF I!FreeTouch
  <1>2. places \in SUBSET (1 .. Touches)
    OBVIOUS
  <1>3. \A i \in places : i \in 1 .. Touches /\ s.touches[i].id < 0
    OBVIOUS
  <1> HIDE DEF places
  <1> QED
    BY <1>1, <1>2, <1>3, FirstPlace

\* A touch is found by its id.
LEMMA TouchOfPlace ==
    ASSUME NEW s, NEW n
    PROVE  \/ I!TouchOf(s, n) = 0 /\ \A t \in 1 .. Touches : s.touches[t].id # n
           \/ /\ I!TouchOf(s, n) # 0 /\ I!TouchOf(s, n) \in 1 .. Touches
              /\ s.touches[I!TouchOf(s, n)].id = n
  <1> DEFINE places == {i \in 1 .. Touches : s.touches[i].id = n}
  <1>1. I!TouchOf(s, n) = I!First(places)
    BY DEF I!TouchOf
  <1>2. places \in SUBSET (1 .. Touches)
    OBVIOUS
  <1>3. \A i \in 1 .. Touches : i \in places <=> s.touches[i].id = n
    OBVIOUS
  <1> HIDE DEF places
  <1> QED
    BY <1>1, <1>2, <1>3, FirstPlace

\* A finger that has moved: its touch is where it is, and the slot remembers whether it has
\* been too far away for a tap.
LEMMA MoveEffect ==
    ASSUME NEW s \in Loops, Fitting(s.slots, s.touches), NEW k \in InUse(s.slots),
           NEW at \in Nat, NEW r, r = I!MoveTouch(s, k, at)
    PROVE  /\ r \in Loops /\ r.seen = s.seen \cup {k} /\ r.reused = s.reused
           /\ InUse(r.slots) = InUse(s.slots)
           /\ \A i \in 1 .. Touches : /\ r.slots[i].finger = s.slots[i].finger
                                      /\ r.slots[i].id = s.slots[i].id
                                      /\ r.slots[i].start = s.slots[i].start
                                      /\ i # k => r.slots[i] = s.slots[i]
           /\ k \in Dragged(r.slots) <=>
                 k \in Dragged(s.slots) \/ I!Apart(at, s.slots[k].start) > TapMove
           /\ \A t \in 1 .. Touches : /\ r.touches[t].id = s.touches[t].id
                                      /\ s.touches[t].id = s.slots[k].id =>
                                            r.touches[t].at = at
                                      /\ s.touches[t].id # s.slots[k].id =>
                                            r.touches[t].at = s.touches[t].at
  <1> DEFINE far == s.slots[k].moved \/ I!Apart(at, s.slots[k].start) > TapMove
             m == [s EXCEPT !.slots[k].moved = far, !.seen = @ \cup {k}]
             u == I!TouchOf(m, s.slots[k].id)
  <1>1. r = I!SetTouchPos(m, s.slots[k].id, at)
    BY DEF I!MoveTouch
  <1>2. k \in 1 .. Touches /\ s.slots[k] \in Slot
    BY DEF InUse, Loops
  <1>3. far \in BOOLEAN
    OBVIOUS
  <1> HIDE DEF far
  <1>4. /\ m.touches = s.touches /\ m.next = s.next /\ m.reused = s.reused
        /\ m.pulse = s.pulse /\ m.seen = s.seen \cup {k}
        /\ m.slots = [s.slots EXCEPT ![k] = [s.slots[k] EXCEPT !.moved = far]]
        /\ m \in Loops
    BY <1>2, <1>3 DEF Loops, Slot
  <1> HIDE DEF m
  <1>5. /\ u # 0 /\ u \in 1 .. Touches /\ s.touches[u].id = s.slots[k].id
        /\ \A t \in 1 .. Touches : t # u => s.touches[t].id # s.slots[k].id
    <2>1. \E t \in 1 .. Touches : s.touches[t].id = s.slots[k].id
      BY DEF Fitting
    <2>2. u # 0 /\ u \in 1 .. Touches /\ s.touches[u].id = s.slots[k].id
      BY <2>1, <1>4, TouchOfPlace
    <2>3. s.slots[k].id >= 0
      BY DEF Fitting
    <2> QED
      BY <2>2, <2>3 DEF Fitting
  <1>6. r = [m EXCEPT !.touches[u].at = at]
    BY <1>1, <1>5 DEF I!SetTouchPos
  <1> HIDE DEF u
  <1>7. /\ r \in Loops /\ r.seen = m.seen /\ r.reused = m.reused /\ r.slots = m.slots
        /\ r.touches = [s.touches EXCEPT ![u] = [s.touches[u] EXCEPT !.at = at]]
    <2> DEFINE touch == [s.touches[u] EXCEPT !.at = at]
               moved == [s.touches EXCEPT ![u] = touch]
    <2>1. touch \in Touch /\ moved \in [1 .. Touches -> Touch]
      BY <1>5 DEF Loops, Touch
    <2>2. r = [m EXCEPT !.touches = moved]
      BY <1>4, <1>6
    <2> HIDE DEF moved
    <2>3. /\ r \in Loops /\ r.seen = m.seen /\ r.reused = m.reused /\ r.slots = m.slots
          /\ r.touches = moved
      BY <1>4, <2>1, <2>2 DEF Loops
    <2> QED
      BY <2>3 DEF moved
  <1>8. \A i \in 1 .. Touches : i # k => r.slots[i] = s.slots[i]
    BY <1>4, <1>7, <1>2 DEF Loops
  <1>9. /\ r.slots[k].active = s.slots[k].active /\ r.slots[k].finger = s.slots[k].finger
        /\ r.slots[k].id = s.slots[k].id /\ r.slots[k].start = s.slots[k].start
        /\ r.slots[k].moved = far
    <2> DEFINE slot == [s.slots[k] EXCEPT !.moved = far]
    <2>1. /\ slot.active = s.slots[k].active /\ slot.finger = s.slots[k].finger
          /\ slot.id = s.slots[k].id /\ slot.start = s.slots[k].start /\ slot.moved = far
      BY <1>2, <1>3 DEF Slot
    <2> HIDE DEF slot
    <2>2. r.slots = [s.slots EXCEPT ![k] = slot]
      BY <1>4, <1>7 DEF slot
    <2>3. r.slots[k] = slot
      BY <1>2, <2>2 DEF Loops
    <2> QED
      BY <2>1, <2>3
  <1>10. InUse(r.slots) = InUse(s.slots)
    BY <1>8, <1>9 DEF InUse
  <1>11. k \in Dragged(r.slots) <=>
             k \in Dragged(s.slots) \/ I!Apart(at, s.slots[k].start) > TapMove
    BY <1>9, <1>2 DEF Dragged, far
  <1>12. \A t \in 1 .. Touches : /\ r.touches[t].id = s.touches[t].id
                                 /\ s.touches[t].id = s.slots[k].id => r.touches[t].at = at
                                 /\ s.touches[t].id # s.slots[k].id =>
                                       r.touches[t].at = s.touches[t].at
    BY <1>5, <1>7 DEF Loops, Touch
  <1> QED
    BY <1>4, <1>7, <1>8, <1>9, <1>10, <1>11, <1>12

\* Slot k and place u have been taken for a finger.
Begun(s, r, k, u, finger, at) ==
    /\ r \in Loops /\ r.seen = s.seen \cup {k}
    /\ s.reused \/ (\E t \in 1 .. Touches : s.touches[t].id = s.next) => r.reused
    /\ k \notin InUse(s.slots) /\ InUse(r.slots) = InUse(s.slots) \cup {k}
    /\ \A i \in 1 .. Touches : i # k => r.slots[i] = s.slots[i]
    /\ r.slots[k].finger = finger /\ r.slots[k].start = at
    /\ r.slots[k].id = s.next /\ s.next \in 0 .. Ids - 1
    /\ k \notin Dragged(r.slots)
    /\ s.touches[u].id < 0
    /\ r.touches[u].id = s.next /\ r.touches[u].at = at
    /\ \A t \in 1 .. Touches : t # u => r.touches[t] = s.touches[t]

\* A finger that comes down begins a touch with the next id, if there is room for one.
LEMMA ClaimEffect ==
    ASSUME NEW s \in Loops, NEW finger \in 1 .. Fingers, NEW at \in Nat,
           NEW r, r = I!ClaimSlot(s, finger, at)
    PROVE  r = s \/ \E k, u \in 1 .. Touches : Begun(s, r, k, u, finger, at)
  <1> DEFINE free == {i \in 1 .. Touches : ~s.slots[i].active}
             k == I!First(free)
             u == I!FreeTouch(s)
             slot == [active |-> TRUE, finger |-> finger, id |-> s.next, start |-> at,
                      moved |-> FALSE]
             touch == [id |-> s.next, at |-> at]
             used == s.reused \/ I!TouchOf(s, s.next) # 0
             next == (s.next + 1) % Ids
             m == I!StartTouch(s, at)
  <1>1. CASE k = 0 \/ u = 0
    BY <1>1 DEF I!ClaimSlot
  <1>2. CASE k # 0 /\ u # 0
    <2>1. k \in 1 .. Touches /\ k \notin InUse(s.slots)
      <3>1. free \in SUBSET (1 .. Touches) /\ \A i \in free : i \notin InUse(s.slots)
        BY DEF InUse
      <3> HIDE DEF free
      <3> QED
        BY <1>2, <3>1, FirstPlace
    <2>2. u \in 1 .. Touches /\ s.touches[u].id < 0
      BY <1>2, FreeTouchPlace
    <2>3. m = [s EXCEPT !.touches[u] = touch, !.next = next, !.reused = used]
      BY DEF I!StartTouch
    <2>4. r = [m EXCEPT !.slots[k] = slot, !.seen = @ \cup {k}]
      BY <1>2 DEF I!ClaimSlot
    <2>5. /\ slot \in Slot /\ slot.active /\ slot.finger = finger /\ slot.start = at
          /\ slot.id = s.next /\ ~slot.moved /\ s.next \in 0 .. Ids - 1
          /\ touch \in Touch /\ touch.id = s.next /\ touch.at = at
      BY InputConstants DEF Loops, Slot, Touch
    <2>6. next \in 0 .. Ids - 1
      BY InputConstants DEF Loops
    <2>7. /\ used \in BOOLEAN /\ (s.reused => used)
          /\ (\E t \in 1 .. Touches : s.touches[t].id = s.next) => used
      BY TouchOfPlace
    <2> HIDE DEF k, u, slot, touch, used, next, m
    <2> DEFINE begun == [s.touches EXCEPT ![u] = touch]
               claimed == [s.slots EXCEPT ![k] = slot]
    <2>8. begun \in [1 .. Touches -> Touch] /\ claimed \in [1 .. Touches -> Slot]
      BY <2>1, <2>2, <2>5 DEF Loops
    <2>9. /\ begun[u] = touch /\ claimed[k] = slot
          /\ \A t \in 1 .. Touches : t # u => begun[t] = s.touches[t]
          /\ \A i \in 1 .. Touches : i # k => claimed[i] = s.slots[i]
      BY <2>1, <2>2 DEF Loops
    <2>10. m = [s EXCEPT !.touches = begun, !.next = next, !.reused = used]
      BY <2>3
    <2>11. /\ m \in Loops /\ m.slots = s.slots /\ m.seen = s.seen /\ m.touches = begun
           /\ m.reused = used
      <3> HIDE DEF begun, claimed
      <3> QED
        BY <2>6, <2>7, <2>8, <2>10 DEF Loops
    <2>12. r = [m EXCEPT !.slots = claimed, !.seen = @ \cup {k}]
      BY <2>4, <2>11
    <2> HIDE DEF begun, claimed
    <2>13. /\ r \in Loops /\ r.slots = claimed /\ r.seen = s.seen \cup {k}
           /\ r.touches = begun /\ r.reused = used
      BY <2>1, <2>8, <2>11, <2>12 DEF Loops
    <2>14. InUse(r.slots) = InUse(s.slots) \cup {k}
      BY <2>1, <2>5, <2>9, <2>13 DEF InUse
    <2>15. k \notin Dragged(r.slots)
      BY <2>5, <2>9, <2>13 DEF Dragged
    <2> QED
      BY <2>1, <2>2, <2>5, <2>7, <2>9, <2>13, <2>14, <2>15 DEF Begun
  <1> QED
    BY <1>1, <1>2

\* A touch whose finger was not seen ends: its slot and its place are free.
LEMMA ReleaseEffect ==
    ASSUME NEW s \in Loops, Fitting(s.slots, s.touches), NEW k \in InUse(s.slots),
           k \notin s.seen, NEW r, r = I!Release(s, k)
    PROVE  /\ r \in Loops /\ r.seen = s.seen /\ r.reused = s.reused
           /\ InUse(r.slots) = InUse(s.slots) \ {k} /\ r.slots[k].finger = 0
           /\ \A i \in 1 .. Touches : i # k => r.slots[i] = s.slots[i]
           /\ \A t \in 1 .. Touches :
                 \/ s.touches[t].id = s.slots[k].id /\ r.touches[t].id = -1
                 \/ s.touches[t].id # s.slots[k].id /\ r.touches[t] = s.touches[t]
  <1> DEFINE u == I!TouchOf(s, s.slots[k].id)
             m == I!StopTouch(s, s.slots[k].id)
             clicks == IF ~s.slots[k].moved /\ m.pulse < Pulse THEN Pulse ELSE m.pulse
             ended == [s.touches EXCEPT ![u] = I!NoTouch]
             freed == [s.slots EXCEPT ![k] = I!FreeSlot]
  <1>1. k \in 1 .. Touches /\ s.slots[k].active
    BY DEF InUse
  <1>2. r = [m EXCEPT !.slots[k] = I!FreeSlot, !.pulse = clicks]
    BY <1>1 DEF I!Release
  <1>3. /\ u # 0 /\ u \in 1 .. Touches /\ s.touches[u].id = s.slots[k].id
        /\ \A t \in 1 .. Touches : t # u => s.touches[t].id # s.slots[k].id
    <2>1. \E t \in 1 .. Touches : s.touches[t].id = s.slots[k].id
      BY DEF Fitting
    <2>2. u # 0 /\ u \in 1 .. Touches /\ s.touches[u].id = s.slots[k].id
      BY <2>1, TouchOfPlace
    <2>3. s.slots[k].id >= 0
      BY DEF Fitting
    <2> QED
      BY <2>2, <2>3 DEF Fitting
  <1>4. m = [s EXCEPT !.touches[u] = I!NoTouch]
    BY <1>3 DEF I!StopTouch
  <1>5. /\ I!NoTouch \in Touch /\ I!NoTouch.id = -1
        /\ I!FreeSlot \in Slot /\ I!FreeSlot.finger = 0 /\ ~I!FreeSlot.active
    BY DEF I!NoTouch, I!FreeSlot, Touch, Slot
  <1> HIDE DEF u, m
  <1>6. ended \in [1 .. Touches -> Touch] /\ freed \in [1 .. Touches -> Slot]
    BY <1>1, <1>3, <1>5 DEF Loops
  <1>7. /\ ended[u] = I!NoTouch /\ freed[k] = I!FreeSlot
        /\ \A t \in 1 .. Touches : t # u => ended[t] = s.touches[t]
        /\ \A i \in 1 .. Touches : i # k => freed[i] = s.slots[i]
    BY <1>1, <1>3 DEF Loops
  <1>8. m = [s EXCEPT !.touches = ended]
    BY <1>4
  <1> HIDE DEF ended
  <1>9. /\ m \in Loops /\ m.slots = s.slots /\ m.seen = s.seen /\ m.touches = ended
        /\ m.reused = s.reused /\ m.pulse = s.pulse
    BY <1>6, <1>8 DEF Loops
  <1>10. clicks \in Nat
    BY <1>9, InputConstants DEF Loops
  <1> HIDE DEF clicks
  <1>11. r = [m EXCEPT !.slots = freed, !.pulse = clicks]
    BY <1>2, <1>9
  <1> HIDE DEF freed
  <1>12. /\ r \in Loops /\ r.slots = freed /\ r.seen = s.seen /\ r.touches = ended
         /\ r.reused = s.reused
    BY <1>6, <1>9, <1>10, <1>11 DEF Loops
  <1>13. InUse(r.slots) = InUse(s.slots) \ {k}
    BY <1>1, <1>5, <1>7, <1>12 DEF InUse
  <1> QED
    BY <1>1, <1>3, <1>5, <1>7, <1>12, <1>13

\* Between two polls: the table fits; each slot is of a finger that lies on the touchpad, its
\* touch is where the finger is, it knows where the finger came down and whether the finger
\* has been too far away from there; and the fingers with a slot are those with an origin.
PadInv ==
    /\ fingers \in [1 .. Fingers -> 0 .. Positions] /\ idNext \in 0 .. Ids - 1
    /\ pulse \in Nat /\ origin \in [1 .. Fingers -> Nat]
    /\ slots \in [1 .. Touches -> Slot] /\ touches \in [1 .. Touches -> Touch]
    /\ Fitting(slots, touches)
    /\ \A i \in InUse(slots) :
          /\ fingers[slots[i].finger] \in Mapped
          /\ slots[i].start = origin[slots[i].finger]
          /\ i \in Dragged(slots) <=> slots[i].finger \in dragged
          /\ \A t \in 1 .. Touches :
                touches[t].id = slots[i].id => touches[t].at = fingers[slots[i].finger]
    /\ \A f \in 1 .. Fingers : origin[f] # 0 <=> \E i \in InUse(slots) : slots[i].finger = f
    /\ \A f \in dragged : f \in 1 .. Fingers /\ origin[f] # 0

\* The slot and its touch are up to date with the fingers of this poll.
Followed(s, i, now) ==
    /\ now[s.slots[i].finger] \in Mapped
    /\ s.slots[i].start = IF origin[s.slots[i].finger] # 0
                          THEN origin[s.slots[i].finger] ELSE now[s.slots[i].finger]
    /\ i \in Dragged(s.slots) <=>
          \/ s.slots[i].finger \in dragged
          \/ I!Apart(now[s.slots[i].finger], s.slots[i].start) > TapMove
    /\ \A t \in 1 .. Touches :
          s.touches[t].id = s.slots[i].id => s.touches[t].at = now[s.slots[i].finger]

\* The fingers up to n have been reported: the slots that were seen are up to date and of
\* those fingers; the others are as they were before the poll, and of a later finger or of
\* one that has left the touchpad. No slot has been given up yet.
ReportedTo(s, now, n) ==
    /\ s \in Loops /\ Fitting(s.slots, s.touches) /\ s.seen \subseteq InUse(s.slots)
    /\ \A i \in s.seen : Followed(s, i, now) /\ s.slots[i].finger <= n
    /\ \A i \in InUse(s.slots) \ s.seen :
          /\ i \in InUse(slots) /\ s.slots[i] = slots[i]
          /\ s.slots[i].finger > n \/ now[s.slots[i].finger] \notin Mapped
    /\ \A i \in InUse(slots) : i \in InUse(s.slots) /\ s.slots[i].finger = slots[i].finger

\* The slots up to n have been looked through: those that were not seen are free.
ReleasedTo(s, now, n) ==
    /\ s \in Loops /\ Fitting(s.slots, s.touches) /\ s.seen \subseteq InUse(s.slots)
    /\ \A i \in s.seen : Followed(s, i, now)
    /\ \A i \in InUse(s.slots) \ s.seen : i > n

\* A finger on the touchpad moves its touch, or begins one when it has none.
LEMMA SlotOfFinger ==
    ASSUME NEW s \in Loops, NEW finger, NEW at \in Mapped, NEW r, r = I!Report(s, finger, at)
    PROVE  \/ \E k \in InUse(s.slots) :
                 s.slots[k].finger = finger /\ r = I!MoveTouch(s, k, at)
           \/ /\ \A k \in InUse(s.slots) : s.slots[k].finger # finger
              /\ r = I!ClaimSlot(s, finger, at)
  <1> DEFINE places == {i \in 1 .. Touches : s.slots[i].active /\ s.slots[i].finger = finger}
             k == I!First(places)
  <1>1. /\ places \in SUBSET (1 .. Touches)
        /\ \A i : i \in places <=> i \in InUse(s.slots) /\ s.slots[i].finger = finger
    BY DEF InUse
  <1>2. r = IF k # 0 THEN I!MoveTouch(s, k, at) ELSE I!ClaimSlot(s, finger, at)
    BY DEF I!Report
  <1> HIDE DEF places
  <1> QED
    BY <1>1, <1>2, FirstPlace

\* The slots in use have different fingers and ids.
LEMMA FittingApart ==
    ASSUME NEW own, NEW shown, Fitting(own, shown), NEW i \in InUse(own), NEW j \in InUse(own)
    PROVE  /\ own[i].finger \in 1 .. Fingers /\ own[i].id \in 0 .. Ids - 1
           /\ i # j => own[i].finger # own[j].finger /\ own[i].id # own[j].id
  BY DEF Fitting

\* A table with the same slots and ids fits as well.
LEMMA FittingSame ==
    ASSUME NEW own, NEW shown, Fitting(own, shown), NEW kept, NEW after,
           InUse(kept) = InUse(own),
           \A i \in 1 .. Touches : kept[i].finger = own[i].finger /\ kept[i].id = own[i].id,
           \A t \in 1 .. Touches : after[t].id = shown[t].id
    PROVE  Fitting(kept, after)
  <1>1. InUse(own) \subseteq 1 .. Touches
    BY DEF InUse
  <1> QED
    BY <1>1 DEF Fitting

\* A report that moves a touch keeps what the reports are about.
LEMMA MoveKeeps ==
    ASSUME PadInv, NEW now \in [1 .. Fingers -> 0 .. Positions], NEW f \in 1 .. Fingers,
           now[f] \in Mapped, NEW s, ReportedTo(s, now, f - 1), NEW k \in InUse(s.slots),
           s.slots[k].finger = f, NEW r, r = I!MoveTouch(s, k, now[f])
    PROVE  ReportedTo(r, now, f) /\ r.reused = s.reused
  <1>1. /\ s \in Loops /\ Fitting(s.slots, s.touches) /\ s.seen \subseteq InUse(s.slots)
        /\ InUse(s.slots) \subseteq 1 .. Touches
    BY DEF ReportedTo, InUse
  <1>2. now[f] \in Nat
    BY InputConstants
  <1>3. /\ r \in Loops /\ r.seen = s.seen \cup {k} /\ r.reused = s.reused
        /\ InUse(r.slots) = InUse(s.slots)
        /\ \A i \in 1 .. Touches : /\ r.slots[i].finger = s.slots[i].finger
                                   /\ r.slots[i].id = s.slots[i].id
                                   /\ r.slots[i].start = s.slots[i].start
                                   /\ i # k => r.slots[i] = s.slots[i]
        /\ k \in Dragged(r.slots) <=>
              k \in Dragged(s.slots) \/ I!Apart(now[f], s.slots[k].start) > TapMove
        /\ \A t \in 1 .. Touches : /\ r.touches[t].id = s.touches[t].id
                                   /\ s.touches[t].id = s.slots[k].id =>
                                         r.touches[t].at = now[f]
                                   /\ s.touches[t].id # s.slots[k].id =>
                                         r.touches[t].at = s.touches[t].at
    BY <1>1, <1>2, MoveEffect
  <1>4. Fitting(r.slots, r.touches)
    BY <1>1, <1>3, FittingSame
  <1>5. k \notin s.seen /\ k \in InUse(slots) /\ s.slots[k] = slots[k]
    BY DEF ReportedTo
  <1>6. Followed(r, k, now) /\ r.slots[k].finger = f
    <2>1. r.slots[k].finger = f /\ r.slots[k].start = slots[k].start /\ slots[k].finger = f
      BY <1>1, <1>3, <1>5
    <2>2. slots[k].start = origin[f] /\ origin[f] # 0
      BY <1>5, <2>1 DEF PadInv
    <2>3. k \in Dragged(s.slots) <=> f \in dragged
      <3>1. k \in Dragged(s.slots) <=> k \in Dragged(slots)
        BY <1>5 DEF Dragged
      <3>2. k \in Dragged(slots) <=> f \in dragged
        BY <1>5, <2>1 DEF PadInv
      <3> QED
        BY <3>1, <3>2
    <2>4. r.slots[k].start = s.slots[k].start
      BY <1>1, <1>3
    <2>5. \A t \in 1 .. Touches : r.touches[t].id = r.slots[k].id => r.touches[t].at = now[f]
      BY <1>1, <1>3
    <2> QED
      BY <1>3, <2>1, <2>2, <2>3, <2>4, <2>5 DEF Followed
  <1>7. ASSUME NEW i \in s.seen
        PROVE  Followed(r, i, now) /\ r.slots[i].finger <= f
    <2>1. i # k /\ i \in InUse(s.slots) /\ i \in 1 .. Touches
      BY <1>1, <1>5
    <2>2. Followed(s, i, now) /\ s.slots[i].finger <= f - 1
      BY DEF ReportedTo
    <2>3. r.slots[i] = s.slots[i]
      BY <1>3, <2>1
    <2>4. s.slots[i].finger \in 1 .. Fingers /\ s.slots[i].id # s.slots[k].id
      BY <1>1, <2>1, FittingApart
    <2>5. i \in Dragged(r.slots) <=> i \in Dragged(s.slots)
      BY <2>3 DEF Dragged
    <2>6. \A t \in 1 .. Touches :
             r.touches[t].id = r.slots[i].id => r.touches[t].at = s.touches[t].at
      BY <1>3, <2>3, <2>4
    <2>7. \A t \in 1 .. Touches :
             r.touches[t].id = r.slots[i].id => r.touches[t].at = now[r.slots[i].finger]
      BY <1>3, <2>2, <2>3, <2>6 DEF Followed
    <2> QED
      BY <2>2, <2>3, <2>4, <2>5, <2>7 DEF Followed
  <1>8. ASSUME NEW i \in InUse(r.slots) \ r.seen
        PROVE  /\ i \in InUse(slots) /\ r.slots[i] = slots[i]
               /\ r.slots[i].finger > f \/ now[r.slots[i].finger] \notin Mapped
    <2>1. i # k /\ i \in InUse(s.slots) \ s.seen /\ i \in 1 .. Touches
      BY <1>1, <1>3
    <2>2. r.slots[i] = s.slots[i]
      BY <1>3, <2>1
    <2>3. s.slots[i].finger \in 1 .. Fingers /\ s.slots[i].finger # f
      BY <1>1, <2>1, FittingApart
    <2>4. /\ i \in InUse(slots) /\ s.slots[i] = slots[i]
          /\ s.slots[i].finger > f - 1 \/ now[s.slots[i].finger] \notin Mapped
      BY <2>1 DEF ReportedTo
    <2> QED
      BY <2>2, <2>3, <2>4
  <1>9. \A i \in InUse(slots) : i \in InUse(r.slots) /\ r.slots[i].finger = slots[i].finger
    BY <1>1, <1>3 DEF ReportedTo
  <1>10. r.seen \subseteq InUse(r.slots)
    BY <1>1, <1>3
  <1>11. \A i \in r.seen : Followed(r, i, now) /\ r.slots[i].finger <= f
    BY <1>3, <1>6, <1>7
  <1> QED
    BY <1>3, <1>4, <1>8, <1>9, <1>10, <1>11 DEF ReportedTo

\* A table fits when a slot and a touch with a new id have been added.
LEMMA FittingMore ==
    ASSUME NEW s, NEW r, NEW k \in 1 .. Touches, NEW u \in 1 .. Touches,
           NEW finger \in 1 .. Fingers, NEW at,
           s \in Loops, Fitting(s.slots, s.touches), Begun(s, r, k, u, finger, at),
           \A i \in InUse(s.slots) : s.slots[i].finger # finger,
           \A t \in 1 .. Touches : s.touches[t].id # s.next
    PROVE  Fitting(r.slots, r.touches)
  <1>1. /\ k \notin InUse(s.slots) /\ InUse(r.slots) = InUse(s.slots) \cup {k}
        /\ \A i \in 1 .. Touches : i # k => r.slots[i] = s.slots[i]
        /\ r.slots[k].finger = finger /\ r.slots[k].id = s.next /\ s.next \in 0 .. Ids - 1
        /\ s.touches[u].id < 0 /\ r.touches[u].id = s.next
        /\ \A t \in 1 .. Touches : t # u => r.touches[t] = s.touches[t]
        /\ InUse(s.slots) \subseteq 1 .. Touches
    BY DEF Begun, InUse
  <1>2. \A i \in InUse(s.slots) : i # k /\ r.slots[i] = s.slots[i]
    BY <1>1
  <1>3. \A i, j \in InUse(s.slots) :
          /\ s.slots[i].finger \in 1 .. Fingers /\ s.slots[i].id \in 0 .. Ids - 1
          /\ i # j => s.slots[i].finger # s.slots[j].finger /\ s.slots[i].id # s.slots[j].id
    BY FittingApart
  <1>4. \A i \in InUse(s.slots) : s.slots[i].id # s.next
    BY DEF Fitting
  <1>5. ASSUME NEW i \in InUse(r.slots)
        PROVE  /\ r.slots[i].finger \in 1 .. Fingers /\ r.slots[i].id \in 0 .. Ids - 1
               /\ \E t \in 1 .. Touches : r.touches[t].id = r.slots[i].id
    <2>1. CASE i = k
      BY <1>1, <2>1
    <2>2. CASE i # k
      <3>1. i \in InUse(s.slots)
        BY <1>1, <2>2
      <3>2. PICK t \in 1 .. Touches : s.touches[t].id = s.slots[i].id
        BY <3>1 DEF Fitting
      <3>3. s.slots[i].id \in 0 .. Ids - 1
        BY <1>3, <3>1
      <3>4. t # u
        BY <1>1, <3>2, <3>3
      <3> QED
        BY <1>1, <1>2, <1>3, <3>1, <3>2, <3>4
    <2> QED
      BY <2>1, <2>2
  <1>6. ASSUME NEW i \in InUse(r.slots), NEW j \in InUse(r.slots), i # j
        PROVE  r.slots[i].finger # r.slots[j].finger /\ r.slots[i].id # r.slots[j].id
    <2>1. CASE i = k
      BY <1>1, <1>2, <1>4, <1>6, <2>1
    <2>2. CASE j = k
      BY <1>1, <1>2, <1>4, <1>6, <2>2
    <2>3. CASE i # k /\ j # k
      BY <1>1, <1>2, <1>3, <1>6, <2>3
    <2> QED
      BY <2>1, <2>2, <2>3
  <1>7. \A i \in 1 .. Touches : i \notin InUse(r.slots) => r.slots[i].finger = 0
    BY <1>1 DEF Fitting
  <1>8. ASSUME NEW t \in 1 .. Touches, NEW v \in 1 .. Touches, t # v, r.touches[t].id >= 0
        PROVE  r.touches[t].id # r.touches[v].id
    <2>1. CASE t = u
      BY <1>1, <1>8, <2>1
    <2>2. CASE v = u
      BY <1>1, <1>8, <2>2
    <2>3. CASE t # u /\ v # u
      BY <1>1, <1>8, <2>3 DEF Fitting
    <2> QED
      BY <2>1, <2>2, <2>3
  <1>9. ASSUME NEW t \in 1 .. Touches, r.touches[t].id >= 0
        PROVE  \E i \in InUse(r.slots) : r.slots[i].id = r.touches[t].id
    <2>1. CASE t = u
      BY <1>1, <2>1
    <2>2. CASE t # u
      <3>1. r.touches[t] = s.touches[t]
        BY <1>1, <2>2
      <3>2. PICK i \in InUse(s.slots) : s.slots[i].id = s.touches[t].id
        BY <1>9, <3>1 DEF Fitting
      <3> QED
        BY <1>1, <1>2, <3>1, <3>2
    <2> QED
      BY <2>1, <2>2
  <1> QED
    BY <1>5, <1>6, <1>7, <1>8, <1>9 DEF Fitting

\* A report that begins a touch keeps what the reports are about, unless the id is in use.
LEMMA ClaimKeeps ==
    ASSUME PadInv, NEW now \in [1 .. Fingers -> 0 .. Positions], NEW f \in 1 .. Fingers,
           now[f] \in Mapped, NEW s, ReportedTo(s, now, f - 1),
           \A k \in InUse(s.slots) : s.slots[k].finger # f,
           NEW r, r = I!ClaimSlot(s, f, now[f])
    PROVE  r \in Loops /\ (r.reused \/ ReportedTo(r, now, f)) /\ (s.reused => r.reused)
  <1>1. /\ s \in Loops /\ Fitting(s.slots, s.touches) /\ s.seen \subseteq InUse(s.slots)
        /\ InUse(s.slots) \subseteq 1 .. Touches
    BY DEF ReportedTo, InUse
  <1>2. now[f] \in Nat
    BY InputConstants
  <1>3. \A i \in InUse(s.slots) : s.slots[i].finger \in 1 .. Fingers
    BY <1>1, FittingApart
  <1>4. CASE r = s
    BY <1>1, <1>3, <1>4 DEF ReportedTo
  <1>5. CASE r # s
    <2>1. PICK k, u \in 1 .. Touches : Begun(s, r, k, u, f, now[f])
      BY <1>1, <1>2, <1>5, ClaimEffect
    <2>2. /\ r \in Loops /\ r.seen = s.seen \cup {k}
          /\ s.reused \/ (\E t \in 1 .. Touches : s.touches[t].id = s.next) => r.reused
          /\ k \notin InUse(s.slots) /\ InUse(r.slots) = InUse(s.slots) \cup {k}
          /\ \A i \in 1 .. Touches : i # k => r.slots[i] = s.slots[i]
          /\ r.slots[k].finger = f /\ r.slots[k].start = now[f]
          /\ r.slots[k].id = s.next /\ s.next \in 0 .. Ids - 1
          /\ k \notin Dragged(r.slots)
          /\ s.touches[u].id < 0
          /\ r.touches[u].id = s.next /\ r.touches[u].at = now[f]
          /\ \A t \in 1 .. Touches : t # u => r.touches[t] = s.touches[t]
      BY <2>1 DEF Begun
    <2>3. CASE r.reused
      BY <2>2, <2>3
    <2>4. CASE ~r.reused
      <3>1. \A t \in 1 .. Touches : s.touches[t].id # s.next
        BY <2>2, <2>4
      <3>2. Fitting(r.slots, r.touches)
        BY <1>1, <2>1, <3>1, FittingMore
      <3>3. origin[f] = 0 /\ f \notin dragged
        <4>1. \A i \in InUse(slots) : slots[i].finger # f
          BY DEF ReportedTo
        <4> QED
          BY <4>1 DEF PadInv
      <3>4. Followed(r, k, now) /\ r.slots[k].finger <= f
        <4>1. \A t \in 1 .. Touches : r.touches[t].id = s.next => t = u
          BY <2>2, <3>1
        <4>2. ~(I!Apart(now[f], now[f]) > TapMove)
          BY <1>2, InputConstants DEF I!Apart
        <4> QED
          BY <2>2, <3>3, <4>1, <4>2 DEF Followed
      <3>5. ASSUME NEW i \in s.seen
            PROVE  Followed(r, i, now) /\ r.slots[i].finger <= f
        <4>1. i # k /\ r.slots[i] = s.slots[i] /\ s.slots[i].id # s.next
          <5>1. s.slots[i].id # s.next
            BY <1>1, <3>1 DEF Fitting
          <5> QED
            BY <1>1, <2>2, <5>1
        <4>2. Followed(s, i, now) /\ s.slots[i].finger <= f - 1
          BY DEF ReportedTo
        <4>3. s.slots[i].finger \in 1 .. Fingers
          BY <1>1, <1>3
        <4>4. i \in Dragged(r.slots) <=> i \in Dragged(s.slots)
          BY <4>1 DEF Dragged
        <4>5. \A t \in 1 .. Touches :
                 r.touches[t].id = r.slots[i].id => r.touches[t] = s.touches[t]
          BY <2>2, <4>1
        <4>6. \A t \in 1 .. Touches :
                 r.touches[t].id = r.slots[i].id => r.touches[t].at = now[r.slots[i].finger]
          BY <4>1, <4>2, <4>5 DEF Followed
        <4> QED
          BY <4>1, <4>2, <4>3, <4>4, <4>6 DEF Followed
      <3>6. ASSUME NEW i \in InUse(r.slots) \ r.seen
            PROVE  /\ i \in InUse(slots) /\ r.slots[i] = slots[i]
                   /\ r.slots[i].finger > f \/ now[r.slots[i].finger] \notin Mapped
        <4>1. i # k /\ i \in InUse(s.slots) \ s.seen /\ i \in 1 .. Touches
          BY <1>1, <2>2
        <4>2. s.slots[i].finger \in 1 .. Fingers /\ s.slots[i].finger # f
          BY <1>3, <4>1
        <4>3. /\ i \in InUse(slots) /\ s.slots[i] = slots[i]
              /\ s.slots[i].finger > f - 1 \/ now[s.slots[i].finger] \notin Mapped
          BY <4>1 DEF ReportedTo
        <4> QED
          BY <2>2, <4>1, <4>2, <4>3
      <3>7. \A i \in InUse(slots) :
               i \in InUse(r.slots) /\ r.slots[i].finger = slots[i].finger
        <4>1. \A i \in InUse(slots) :
                 i \in InUse(s.slots) /\ s.slots[i].finger = slots[i].finger
          BY DEF ReportedTo
        <4> QED
          BY <1>1, <2>2, <4>1
      <3>8. r.seen \subseteq InUse(r.slots)
        BY <1>1, <2>2
      <3>9. \A i \in r.seen : Followed(r, i, now) /\ r.slots[i].finger <= f
        BY <2>2, <3>4, <3>5
      <3> QED
        BY <2>2, <3>2, <3>6, <3>7, <3>8, <3>9 DEF ReportedTo
    <2> QED
      BY <2>3, <2>4
  <1> QED
    BY <1>4, <1>5

\* The function that Reports is defined by.
IsReports(f, s, now, n) ==
    f = [i \in 0 .. n |->
            IF i = 0 THEN s
            ELSE IF now[i] = 0 THEN f[i - 1] ELSE I!Report(f[i - 1], i, now[i])]

\* It exists ...
LEMMA ReportsExists ==
    ASSUME NEW s, NEW now, NEW n \in Nat
    PROVE  \E f : IsReports(f, s, now, n)
  <1> DEFINE Step(a, i) == IF now[i] = 0 THEN a ELSE I!Report(a, i, now[i])
             S == {m \in Nat : \E f :
                           f = [i \in 0 .. m |-> IF i = 0 THEN s ELSE Step(f[i - 1], i)]}
  <1> HIDE DEF Step
  <1>1. 0 \in S
    <2> DEFINE g == [i \in 0 .. 0 |-> s]
               h == [i \in 0 .. 0 |-> IF i = 0 THEN s ELSE Step(g[i - 1], i)]
    <2>1. \A i \in 0 .. 0 : i = 0
      OBVIOUS
    <2>2. g = h
      BY <2>1
    <2> HIDE DEF g
    <2> QED
      BY <2>2
  <1>2. ASSUME NEW m \in Nat, m \in S
        PROVE  m + 1 \in S
    <2>1. PICK f : f = [i \in 0 .. m |-> IF i = 0 THEN s ELSE Step(f[i - 1], i)]
      BY <1>2
    <2> DEFINE new == Step(f[m], m + 1)
               g == [i \in 0 .. m + 1 |-> IF i = m + 1 THEN new ELSE f[i]]
               h == [i \in 0 .. m + 1 |-> IF i = 0 THEN s ELSE Step(g[i - 1], i)]
    <2>2. \A i \in 0 .. m : f[i] = IF i = 0 THEN s ELSE Step(f[i - 1], i)
      BY <2>1
    <2>3. ASSUME NEW i \in 0 .. m + 1
          PROVE  g[i] = h[i]
      <3>1. CASE i = 0
        BY <2>2, <3>1
      <3>2. CASE i = m + 1
        <4>1. g[i - 1] = f[m]
          BY <3>2
        <4> QED
          BY <3>2, <4>1
      <3>3. CASE i # 0 /\ i # m + 1
        <4>1. i - 1 \in 0 .. m /\ i \in 0 .. m
          BY <3>3
        <4>2. g[i - 1] = f[i - 1] /\ g[i] = f[i]
          BY <4>1, <3>3
        <4> QED
          BY <4>1, <4>2, <2>2, <3>3
      <3> QED
        BY <3>1, <3>2, <3>3
    <2>4. g = h
      <3> HIDE DEF new
      <3>1. g = [i \in 0 .. m + 1 |-> g[i]] /\ h = [i \in 0 .. m + 1 |-> h[i]]
        OBVIOUS
      <3> HIDE DEF g, h
      <3> QED
        BY <3>1, <2>3
    <2>5. m + 1 \in Nat /\ g = [i \in 0 .. m + 1 |-> IF i = 0 THEN s ELSE Step(g[i - 1], i)]
      BY <2>4
    <2> HIDE DEF g
    <2> QED
      BY <2>5
  <1> HIDE DEF S
  <1>3. n \in S
    <2>1. S \in SUBSET Nat
      BY DEF S
    <2> QED
      BY <1>1, <1>2, <2>1, Sub!Induction
  <1> QED
    BY <1>3 DEF S, Step, IsReports

\* ... so that Reports is its last value.
LEMMA ReportsDef ==
    ASSUME NEW s, NEW now
    PROVE  \E f : IsReports(f, s, now, Fingers) /\ I!Reports(s, now) = f[Fingers]
  <1> DEFINE f == CHOOSE f : IsReports(f, s, now, Fingers)
  <1>1. IsReports(f, s, now, Fingers)
    BY ReportsExists, InputConstants
  <1>2. I!Reports(s, now) = f[Fingers]
    BY DEF I!Reports, IsReports
  <1> QED
    BY <1>1, <1>2

\* The function that Releases is defined by.
IsReleases(f, s, n) ==
    f = [i \in 0 .. n |-> IF i = 0 THEN s ELSE I!Release(f[i - 1], i)]

\* It exists ...
LEMMA ReleasesExists ==
    ASSUME NEW s, NEW n \in Nat
    PROVE  \E f : IsReleases(f, s, n)
  <1> DEFINE Step(a, i) == I!Release(a, i)
             S == {m \in Nat : \E f :
                           f = [i \in 0 .. m |-> IF i = 0 THEN s ELSE Step(f[i - 1], i)]}
  <1> HIDE DEF Step
  <1>1. 0 \in S
    <2> DEFINE g == [i \in 0 .. 0 |-> s]
               h == [i \in 0 .. 0 |-> IF i = 0 THEN s ELSE Step(g[i - 1], i)]
    <2>1. \A i \in 0 .. 0 : i = 0
      OBVIOUS
    <2>2. g = h
      BY <2>1
    <2> HIDE DEF g
    <2> QED
      BY <2>2
  <1>2. ASSUME NEW m \in Nat, m \in S
        PROVE  m + 1 \in S
    <2>1. PICK f : f = [i \in 0 .. m |-> IF i = 0 THEN s ELSE Step(f[i - 1], i)]
      BY <1>2
    <2> DEFINE new == Step(f[m], m + 1)
               g == [i \in 0 .. m + 1 |-> IF i = m + 1 THEN new ELSE f[i]]
               h == [i \in 0 .. m + 1 |-> IF i = 0 THEN s ELSE Step(g[i - 1], i)]
    <2>2. \A i \in 0 .. m : f[i] = IF i = 0 THEN s ELSE Step(f[i - 1], i)
      BY <2>1
    <2>3. ASSUME NEW i \in 0 .. m + 1
          PROVE  g[i] = h[i]
      <3>1. CASE i = 0
        BY <2>2, <3>1
      <3>2. CASE i = m + 1
        <4>1. g[i - 1] = f[m]
          BY <3>2
        <4> QED
          BY <3>2, <4>1
      <3>3. CASE i # 0 /\ i # m + 1
        <4>1. i - 1 \in 0 .. m /\ i \in 0 .. m
          BY <3>3
        <4>2. g[i - 1] = f[i - 1] /\ g[i] = f[i]
          BY <4>1, <3>3
        <4> QED
          BY <4>1, <4>2, <2>2, <3>3
      <3> QED
        BY <3>1, <3>2, <3>3
    <2>4. g = h
      <3> HIDE DEF new
      <3>1. g = [i \in 0 .. m + 1 |-> g[i]] /\ h = [i \in 0 .. m + 1 |-> h[i]]
        OBVIOUS
      <3> HIDE DEF g, h
      <3> QED
        BY <3>1, <2>3
    <2>5. m + 1 \in Nat /\ g = [i \in 0 .. m + 1 |-> IF i = 0 THEN s ELSE Step(g[i - 1], i)]
      BY <2>4
    <2> HIDE DEF g
    <2> QED
      BY <2>5
  <1> HIDE DEF S
  <1>3. n \in S
    <2>1. S \in SUBSET Nat
      BY DEF S
    <2> QED
      BY <1>1, <1>2, <2>1, Sub!Induction
  <1> QED
    BY <1>3 DEF S, Step, IsReleases

\* ... so that Releases is its last value.
LEMMA ReleasesDef ==
    ASSUME NEW s
    PROVE  \E f : IsReleases(f, s, Touches) /\ I!Releases(s) = f[Touches]
  <1> DEFINE f == CHOOSE f : IsReleases(f, s, Touches)
  <1>1. IsReleases(f, s, Touches)
    BY ReleasesExists, InputConstants
  <1>2. I!Releases(s) = f[Touches]
    BY DEF I!Releases, IsReleases
  <1> QED
    BY <1>1, <1>2

\* A report keeps the types, whatever the tables say.
LEMMA MoveTypes ==
    ASSUME NEW s \in Loops, NEW k \in 1 .. Touches, NEW at \in Nat,
           NEW r, r = I!MoveTouch(s, k, at)
    PROVE  r \in Loops /\ r.reused = s.reused
  <1> DEFINE far == s.slots[k].moved \/ I!Apart(at, s.slots[k].start) > TapMove
             m == [s EXCEPT !.slots[k].moved = far, !.seen = @ \cup {k}]
             u == I!TouchOf(m, s.slots[k].id)
  <1>1. r = I!SetTouchPos(m, s.slots[k].id, at)
    BY DEF I!MoveTouch
  <1>2. s.slots[k] \in Slot /\ far \in BOOLEAN
    BY DEF Loops
  <1> HIDE DEF far
  <1>3. m \in Loops /\ m.reused = s.reused
    BY <1>2 DEF Loops, Slot
  <1> HIDE DEF m
  <1>4. CASE u = 0
    BY <1>1, <1>3, <1>4 DEF I!SetTouchPos
  <1>5. CASE u # 0
    <2> DEFINE touch == [m.touches[u] EXCEPT !.at = at]
               moved == [m.touches EXCEPT ![u] = touch]
    <2>1. u \in 1 .. Touches
      BY <1>5, TouchOfPlace
    <2>2. r = [m EXCEPT !.touches = moved]
      BY <1>1, <1>5 DEF I!SetTouchPos
    <2> HIDE DEF u
    <2>3. touch \in Touch /\ moved \in [1 .. Touches -> Touch]
      BY <1>3, <2>1 DEF Loops, Touch
    <2> HIDE DEF moved
    <2> QED
      BY <1>3, <2>2, <2>3 DEF Loops
  <1> QED
    BY <1>4, <1>5

\* What is done about a finger keeps what the reports are about, unless a touch got an id
\* that was in use.
LEMMA ReportKeeps ==
    ASSUME PadInv, NEW now \in [1 .. Fingers -> 0 .. Positions], NEW f \in 1 .. Fingers,
           NEW s, s \in Loops, s.reused \/ ReportedTo(s, now, f - 1),
           NEW r, r = IF now[f] = 0 THEN s ELSE I!Report(s, f, now[f])
    PROVE  r \in Loops /\ (r.reused \/ ReportedTo(r, now, f))
  <1>0. InUse(s.slots) \subseteq 1 .. Touches
    BY DEF InUse
  <1>1. CASE now[f] \notin Mapped
    <2>1. r = s
      BY <1>1 DEF I!Report
    <2>2. CASE s.reused
      BY <2>1, <2>2
    <2>3. CASE ReportedTo(s, now, f - 1)
      <3>1. \A i \in InUse(s.slots) : s.slots[i].finger \in 1 .. Fingers
        BY <2>3, FittingApart DEF ReportedTo
      <3> QED
        BY <1>1, <2>1, <2>3, <3>1 DEF ReportedTo
    <2> QED
      BY <2>2, <2>3
  <1>2. CASE now[f] \in Mapped
    <2>1. now[f] # 0 /\ now[f] \in Nat /\ r = I!Report(s, f, now[f])
      BY <1>2, InputConstants
    <2>2. CASE \E k \in InUse(s.slots) :
                  s.slots[k].finger = f /\ r = I!MoveTouch(s, k, now[f])
      <3>1. PICK k \in InUse(s.slots) : s.slots[k].finger = f /\ r = I!MoveTouch(s, k, now[f])
        BY <2>2
      <3>2. r \in Loops /\ r.reused = s.reused
        BY <1>0, <2>1, <3>1, MoveTypes
      <3>3. ReportedTo(s, now, f - 1) => ReportedTo(r, now, f)
        BY <1>2, <3>1, MoveKeeps
      <3> QED
        BY <3>2, <3>3
    <2>3. CASE /\ \A k \in InUse(s.slots) : s.slots[k].finger # f
               /\ r = I!ClaimSlot(s, f, now[f])
      <3>1. CASE s.reused
        <4>1. r = s \/ \E k, u \in 1 .. Touches : Begun(s, r, k, u, f, now[f])
          BY <2>1, <2>3, ClaimEffect
        <4> QED
          BY <3>1, <4>1 DEF Begun
      <3>2. CASE ReportedTo(s, now, f - 1)
        BY <1>2, <2>3, <3>2, ClaimKeeps
      <3> QED
        BY <3>1, <3>2
    <2> QED
      BY <1>2, <2>1, <2>2, <2>3, SlotOfFinger
  <1> QED
    BY <1>1, <1>2

\* So do the reports of all fingers.
LEMMA ReportsKeep ==
    ASSUME PadInv, NEW now \in [1 .. Fingers -> 0 .. Positions],
           NEW s, s \in Loops, ReportedTo(s, now, 0), NEW r, r = I!Reports(s, now)
    PROVE  r \in Loops /\ (r.reused \/ ReportedTo(r, now, Fingers))
  <1>1. PICK f : IsReports(f, s, now, Fingers) /\ r = f[Fingers]
    BY ReportsDef
  <1> DEFINE S == {i \in 0 .. Fingers : f[i] \in Loops /\ (f[i].reused \/ ReportedTo(f[i], now, i))}
  <1>2. 0 \in 0 .. Fingers /\ Fingers \in 0 .. Fingers
    BY InputConstants
  <1>3. f[0] = s
    BY <1>1, <1>2 DEF IsReports
  <1>4. ASSUME NEW i \in 0 .. Fingers - 1, i \in S
        PROVE  i + 1 \in S
    <2> DEFINE j == i + 1
    <2>1. j \in 1 .. Fingers /\ j \in 0 .. Fingers /\ j - 1 = i /\ j # 0
      BY InputConstants
    <2>2. f[j] = IF now[j] = 0 THEN f[i] ELSE I!Report(f[i], j, now[j])
      BY <1>1, <2>1 DEF IsReports
    <2>3. f[i] \in Loops /\ (f[i].reused \/ ReportedTo(f[i], now, j - 1))
      BY <1>4, <2>1
    <2> HIDE DEF j
    <2>4. f[j] \in Loops /\ (f[j].reused \/ ReportedTo(f[j], now, j))
      BY <2>1, <2>2, <2>3, ReportKeeps
    <2> QED
      BY <2>1, <2>4 DEF j
  <1>5. 0 \in S
    BY <1>2, <1>3
  <1>6. S \in SUBSET Nat /\ Fingers \in Nat
    BY InputConstants
  <1>7. Fingers \in S
    <2> HIDE DEF S
    <2> QED
      BY <1>2, <1>4, <1>5, <1>6, Sub!Induction
  <1> QED
    BY <1>1, <1>7

\* The look at a slot frees it if its finger was not seen.
LEMMA ReleaseKeeps ==
    ASSUME NEW now, NEW k \in 1 .. Touches, NEW s, ReleasedTo(s, now, k - 1),
           NEW r, r = I!Release(s, k)
    PROVE  ReleasedTo(r, now, k) /\ r.reused = s.reused
  <1>1. /\ s \in Loops /\ Fitting(s.slots, s.touches) /\ s.seen \subseteq InUse(s.slots)
        /\ InUse(s.slots) \subseteq 1 .. Touches
    BY DEF ReleasedTo, InUse
  <1>2. CASE k \notin InUse(s.slots) \/ k \in s.seen
    <2>1. r = s
      BY <1>2 DEF I!Release, InUse
    <2>2. \A i \in InUse(s.slots) \ s.seen : i > k
      BY <1>1, <1>2 DEF ReleasedTo
    <2> QED
      BY <2>1, <2>2 DEF ReleasedTo
  <1>3. CASE k \in InUse(s.slots) /\ k \notin s.seen
    <2>1. /\ r \in Loops /\ r.seen = s.seen /\ r.reused = s.reused
          /\ InUse(r.slots) = InUse(s.slots) \ {k} /\ r.slots[k].finger = 0
          /\ \A i \in 1 .. Touches : i # k => r.slots[i] = s.slots[i]
          /\ \A t \in 1 .. Touches :
                \/ s.touches[t].id = s.slots[k].id /\ r.touches[t].id = -1
                \/ s.touches[t].id # s.slots[k].id /\ r.touches[t] = s.touches[t]
      BY <1>1, <1>3, ReleaseEffect
    <2>2. \A i, j \in InUse(s.slots) :
             /\ s.slots[i].finger \in 1 .. Fingers /\ s.slots[i].id \in 0 .. Ids - 1
             /\ i # j => s.slots[i].finger # s.slots[j].finger
                         /\ s.slots[i].id # s.slots[j].id
      BY <1>1, FittingApart
    <2>3. \A i \in InUse(r.slots) : i \in InUse(s.slots) /\ i # k /\ r.slots[i] = s.slots[i]
      BY <1>1, <2>1
    <2>4. Fitting(r.slots, r.touches)
      <3>1. ASSUME NEW i \in InUse(r.slots)
            PROVE  \E t \in 1 .. Touches : r.touches[t].id = r.slots[i].id
        <4>1. PICK t \in 1 .. Touches : s.touches[t].id = s.slots[i].id
          BY <1>1, <2>3 DEF Fitting
        <4>2. s.slots[i].id # s.slots[k].id
          BY <1>3, <2>2, <2>3
        <4> QED
          BY <2>1, <2>3, <4>1, <4>2
      <3>2. \A i \in 1 .. Touches : i \notin InUse(r.slots) => r.slots[i].finger = 0
        BY <1>1, <2>1 DEF Fitting
      <3>3. \A t, u \in 1 .. Touches :
               t # u /\ r.touches[t].id >= 0 => r.touches[t].id # r.touches[u].id
        BY <1>1, <2>1 DEF Fitting
      <3>4. ASSUME NEW t \in 1 .. Touches, r.touches[t].id >= 0
            PROVE  \E i \in InUse(r.slots) : r.slots[i].id = r.touches[t].id
        <4>1. s.touches[t].id # s.slots[k].id /\ r.touches[t] = s.touches[t]
          BY <2>1, <3>4
        <4>2. PICK i \in InUse(s.slots) : s.slots[i].id = s.touches[t].id
          BY <1>1, <3>4, <4>1 DEF Fitting
        <4>3. i \in InUse(r.slots)
          BY <2>1, <4>1, <4>2
        <4> QED
          BY <2>3, <4>1, <4>2, <4>3
      <3>5. \A i, j \in InUse(r.slots) :
               /\ r.slots[i].finger \in 1 .. Fingers /\ r.slots[i].id \in 0 .. Ids - 1
               /\ i # j => r.slots[i].finger # r.slots[j].finger
                           /\ r.slots[i].id # r.slots[j].id
        BY <2>2, <2>3
      <3> QED
        BY <3>1, <3>2, <3>3, <3>4, <3>5 DEF Fitting
    <2>5. ASSUME NEW i \in r.seen
          PROVE  Followed(r, i, now)
      <3>1. i \in s.seen /\ i \in InUse(s.slots) /\ i # k
        BY <1>1, <1>3, <2>1
      <3>2. Followed(s, i, now) /\ r.slots[i] = s.slots[i]
        BY <1>1, <2>1, <3>1 DEF ReleasedTo
      <3>3. i \in Dragged(r.slots) <=> i \in Dragged(s.slots)
        BY <3>2 DEF Dragged
      <3>4. s.slots[i].id \in 0 .. Ids - 1
        BY <2>2, <3>1
      <3>5. \A t \in 1 .. Touches :
               r.touches[t].id = r.slots[i].id => r.touches[t].at = now[r.slots[i].finger]
        BY <2>1, <3>2, <3>4 DEF Followed
      <3> QED
        BY <3>2, <3>3, <3>5 DEF Followed
    <2>6. \A i \in InUse(r.slots) \ r.seen : i > k
      BY <1>1, <2>1 DEF ReleasedTo
    <2>7. r.seen \subseteq InUse(r.slots)
      BY <1>1, <1>3, <2>1
    <2> QED
      BY <2>1, <2>4, <2>5, <2>6, <2>7 DEF ReleasedTo
  <1> QED
    BY <1>2, <1>3

\* It keeps the types, whatever the tables say.
LEMMA ReleaseTypes ==
    ASSUME NEW s \in Loops, NEW k \in 1 .. Touches, NEW r, r = I!Release(s, k)
    PROVE  r \in Loops /\ r.reused = s.reused
  <1> DEFINE u == I!TouchOf(s, s.slots[k].id)
             m == I!StopTouch(s, s.slots[k].id)
             clicks == IF ~s.slots[k].moved /\ m.pulse < Pulse THEN Pulse ELSE m.pulse
             ended == [s.touches EXCEPT ![u] = I!NoTouch]
             freed == [m.slots EXCEPT ![k] = I!FreeSlot]
  <1>1. r = s \/ r = [m EXCEPT !.slots[k] = I!FreeSlot, !.pulse = clicks]
    BY DEF I!Release
  <1>2. I!NoTouch \in Touch /\ I!FreeSlot \in Slot
    BY DEF I!NoTouch, I!FreeSlot, Touch, Slot
  <1>3. m \in Loops /\ m.reused = s.reused
    <2>1. CASE u = 0
      BY <2>1 DEF I!StopTouch
    <2>2. CASE u # 0
      <3>1. u \in 1 .. Touches
        BY <2>2, TouchOfPlace
      <3>2. m = [s EXCEPT !.touches = ended]
        BY <2>2 DEF I!StopTouch
      <3> HIDE DEF u, m
      <3>3. ended \in [1 .. Touches -> Touch]
        BY <1>2, <3>1 DEF Loops
      <3> HIDE DEF ended
      <3> QED
        BY <3>2, <3>3 DEF Loops
    <2> QED
      BY <2>1, <2>2
  <1> HIDE DEF m
  <1>4. clicks \in Nat /\ freed \in [1 .. Touches -> Slot]
    BY <1>2, <1>3, InputConstants DEF Loops
  <1> HIDE DEF clicks
  <1>5. r = s \/ r = [m EXCEPT !.slots = freed, !.pulse = clicks]
    BY <1>1
  <1> HIDE DEF freed
  <1> QED
    BY <1>3, <1>4, <1>5 DEF Loops

\* So does the look at all slots.
LEMMA ReleasesKeep ==
    ASSUME NEW now, NEW s, s \in Loops, s.reused \/ ReleasedTo(s, now, 0),
           NEW r, r = I!Releases(s)
    PROVE  r.reused \/ ReleasedTo(r, now, Touches)
  <1>1. PICK f : IsReleases(f, s, Touches) /\ r = f[Touches]
    BY ReleasesDef
  <1> DEFINE S == {i \in 0 .. Touches : f[i] \in Loops /\ (f[i].reused \/ ReleasedTo(f[i], now, i))}
  <1>2. 0 \in 0 .. Touches /\ Touches \in 0 .. Touches
    BY InputConstants
  <1>3. f[0] = s
    BY <1>1, <1>2 DEF IsReleases
  <1>4. ASSUME NEW i \in 0 .. Touches - 1, i \in S
        PROVE  i + 1 \in S
    <2> DEFINE j == i + 1
    <2>1. j \in 1 .. Touches /\ j \in 0 .. Touches /\ j - 1 = i /\ j # 0
      BY InputConstants
    <2>2. f[j] = I!Release(f[i], j)
      BY <1>1, <2>1 DEF IsReleases
    <2>3. f[i] \in Loops /\ (f[i].reused \/ ReleasedTo(f[i], now, j - 1))
      BY <1>4, <2>1
    <2> HIDE DEF j
    <2>4. f[j] \in Loops /\ f[j].reused = f[i].reused
      BY <2>1, <2>2, <2>3, ReleaseTypes
    <2>5. ReleasedTo(f[i], now, j - 1) => ReleasedTo(f[j], now, j)
      BY <2>1, <2>2, ReleaseKeeps
    <2> QED
      BY <2>1, <2>3, <2>4, <2>5 DEF j
  <1>5. 0 \in S
    BY <1>2, <1>3
  <1>6. S \in SUBSET Nat /\ Touches \in Nat
    BY InputConstants
  <1>7. Touches \in S
    <2> HIDE DEF S
    <2> QED
      BY <1>2, <1>4, <1>5, <1>6, Sub!Induction
  <1> QED
    BY <1>1, <1>7

\* After a poll in which no touch got an id that was in use, the slots are those of the
\* fingers on the touchpad, and up to date.
LEMMA LoopKeeps ==
    ASSUME PadInv, NEW now \in [1 .. Fingers -> 0 .. Positions],
           NEW a, a = I!AfterReports(now), ~a.reused
    PROVE  ReleasedTo(a, now, Touches)
  <1> DEFINE b == [slots |-> slots, touches |-> touches, next |-> idNext, seen |-> {},
                   reused |-> FALSE, pulse |-> IF pulse > 0 THEN pulse - 1 ELSE 0]
             c == I!Reports(b, now)
  <1>1. a = I!Releases(c)
    BY DEF I!AfterReports
  <1>2. /\ b \in Loops /\ b.slots = slots /\ b.touches = touches /\ b.seen = {}
    BY DEF PadInv, Loops
  <1> HIDE DEF b
  <1>3. Fitting(slots, touches) /\ \A i \in InUse(slots) : slots[i].finger \in 1 .. Fingers
    BY FittingApart DEF PadInv
  <1>4. ReportedTo(b, now, 0)
    BY <1>2, <1>3 DEF ReportedTo
  <1>5. c \in Loops /\ (c.reused \/ ReportedTo(c, now, Fingers))
    BY <1>2, <1>4, ReportsKeep
  <1> HIDE DEF c
  <1>6. ReportedTo(c, now, Fingers) => ReleasedTo(c, now, 0)
    <2>1. \A i \in InUse(c.slots) : i \in 1 .. Touches
      BY DEF InUse
    <2> QED
      BY <2>1 DEF ReportedTo, ReleasedTo
  <1> QED
    BY <1>1, <1>5, <1>6, ReleasesKeep

\* A poll, a loop with the buttons of the combination held, and the gate keep it.
LEMMA PadStep ==
    ASSUME PadInv, I!Next
    PROVE  PadInv'
  <1>1. ASSUME NEW now \in [1 .. Fingers -> 0 .. Positions], I!Loop(now)
        PROVE  PadInv'
    <2> DEFINE a == I!AfterReports(now)
    <2>1. /\ ~a.reused
          /\ fingers' = now /\ slots' = a.slots /\ touches' = a.touches
          /\ idNext' = a.next /\ pulse' = a.pulse
          /\ origin' = [f \in 1 .. Fingers |-> I!Began(a, f)]
          /\ dragged' = {f \in 1 .. Fingers : origin'[f] # 0 /\ (f \in dragged
                                                  \/ I!Apart(now[f], origin'[f]) > TapMove)}
      BY <1>1 DEF I!Loop
    <2>2. ReleasedTo(a, now, Touches)
      BY <2>1, LoopKeeps
    <2> HIDE DEF a
    <2>3. /\ a \in Loops /\ Fitting(a.slots, a.touches)
          /\ InUse(a.slots) \subseteq 1 .. Touches
      BY <2>2 DEF ReleasedTo, InUse
    <2>4. ASSUME NEW i \in InUse(a.slots)
          PROVE  Followed(a, i, now)
      <3>1. ~(i > Touches)
        BY <2>3, InputConstants
      <3> QED
        BY <2>2, <3>1 DEF ReleasedTo
    <2>5. \A i \in InUse(a.slots) : a.slots[i].finger \in 1 .. Fingers
      BY <2>3, FittingApart
    <2>6. \A i \in 1 .. Touches : i \notin InUse(a.slots) => a.slots[i].finger = 0
      BY <2>3 DEF Fitting
    <2>7. ASSUME NEW f \in 1 .. Fingers
          PROVE  origin'[f] = IF \A i \in InUse(a.slots) : a.slots[i].finger # f THEN 0
                              ELSE IF origin[f] # 0 THEN origin[f] ELSE now[f]
      <3>1. (\A i \in InUse(a.slots) : a.slots[i].finger # f)
              <=> \A i \in 1 .. Touches : a.slots[i].finger # f
        BY <2>3, <2>6
      <3> QED
        BY <2>1, <3>1 DEF I!Began
    <2>8. ASSUME NEW i \in InUse(a.slots)
          PROVE  /\ now[a.slots[i].finger] \in Mapped
                 /\ a.slots[i].start = origin'[a.slots[i].finger]
                 /\ origin'[a.slots[i].finger] # 0
                 /\ i \in Dragged(a.slots) <=> a.slots[i].finger \in dragged'
                 /\ \A t \in 1 .. Touches :
                       a.touches[t].id = a.slots[i].id => a.touches[t].at = now[a.slots[i].finger]
      <3> DEFINE g == a.slots[i].finger
      <3>1. g \in 1 .. Fingers
        BY <2>5
      <3>2. /\ now[g] \in Mapped
            /\ a.slots[i].start = IF origin[g] # 0 THEN origin[g] ELSE now[g]
            /\ i \in Dragged(a.slots) <=>
                  g \in dragged \/ I!Apart(now[g], a.slots[i].start) > TapMove
            /\ \A t \in 1 .. Touches : a.touches[t].id = a.slots[i].id => a.touches[t].at = now[g]
        BY <2>4 DEF Followed
      <3>3. origin'[g] = IF origin[g] # 0 THEN origin[g] ELSE now[g]
        BY <2>7, <3>1
      <3>4. now[g] # 0
        BY <3>2, InputConstants
      <3> HIDE DEF g
      <3>5. g \in dragged' <=> g \in dragged \/ I!Apart(now[g], origin'[g]) > TapMove
        BY <2>1, <3>1, <3>3, <3>4
      <3> QED
        BY <3>2, <3>3, <3>4, <3>5 DEF g
    <2>9. ASSUME NEW f \in 1 .. Fingers
          PROVE  origin'[f] # 0 <=> \E i \in InUse(a.slots) : a.slots[i].finger = f
      BY <2>7, <2>8
    <2>10. origin' \in [1 .. Fingers -> Nat]
      <3>1. ASSUME NEW f \in 1 .. Fingers
            PROVE  I!Began(a, f) \in Nat
        <4>1. origin[f] \in Nat /\ fingers'[f] \in Nat
          BY <2>1, InputConstants DEF PadInv
        <4> QED
          BY <4>1 DEF I!Began
      <3> QED
        BY <2>1, <3>1
    <2>11. \A f \in dragged' : f \in 1 .. Fingers /\ origin'[f] # 0
      BY <2>1
    <2>12. /\ a.slots \in [1 .. Touches -> Slot] /\ a.touches \in [1 .. Touches -> Touch]
           /\ a.next \in 0 .. Ids - 1 /\ a.pulse \in Nat
      BY <2>3 DEF Loops
    <2>13. InUse(slots)' = InUse(a.slots) /\ Dragged(slots)' = Dragged(a.slots)
      BY <2>1 DEF InUse, Dragged
    <2>14. Fitting(slots, touches)'
      BY <2>1, <2>3 DEF Fitting, InUse
    <2> QED
      BY <2>1, <2>8, <2>9, <2>10, <2>11, <2>12, <2>13, <2>14 DEF PadInv
  <1>2. CASE I!ComboLoop \/ I!Gate
    <2>1. /\ UNCHANGED <<fingers, slots, touches, idNext, origin, dragged>>
          /\ pulse' \in Nat
      BY <1>2 DEF I!ComboLoop, I!Gate, PadInv
    <2>2. /\ InUse(slots)' = InUse(slots) /\ Dragged(slots)' = Dragged(slots)
          /\ Fitting(slots, touches)' <=> Fitting(slots, touches)
      BY <2>1 DEF InUse, Dragged, Fitting
    <2> QED
      BY <2>1, <2>2 DEF PadInv
  <1> QED
    BY <1>1, <1>2 DEF I!Next

\* At first the table is empty and no finger has a touch.
LEMMA PadStart ==
    ASSUME I!Init
    PROVE  PadInv
  <1>1. /\ I!FreeSlot \in Slot /\ I!FreeSlot.finger = 0 /\ ~I!FreeSlot.active
        /\ I!NoTouch \in Touch /\ I!NoTouch.id = -1
    BY DEF I!NoTouch, I!FreeSlot, Touch, Slot
  <1>2. /\ fingers = [f \in 1 .. Fingers |-> 0] /\ origin = [f \in 1 .. Fingers |-> 0]
        /\ slots = [i \in 1 .. Touches |-> I!FreeSlot]
        /\ touches = [i \in 1 .. Touches |-> I!NoTouch]
        /\ idNext = 0 /\ pulse = 0 /\ dragged = {}
    BY DEF I!Init
  <1>3. /\ fingers \in [1 .. Fingers -> 0 .. Positions] /\ idNext \in 0 .. Ids - 1
        /\ origin \in [1 .. Fingers -> Nat] /\ \A f \in 1 .. Fingers : origin[f] = 0
    BY <1>2, InputConstants
  <1>4. /\ slots \in [1 .. Touches -> Slot] /\ touches \in [1 .. Touches -> Touch]
        /\ \A i \in 1 .. Touches : ~slots[i].active /\ slots[i].finger = 0
        /\ \A t \in 1 .. Touches : touches[t].id = -1
    BY <1>1, <1>2
  <1>5. InUse(slots) = {}
    BY <1>4 DEF InUse
  <1>6. Fitting(slots, touches)
    BY <1>4, <1>5 DEF Fitting
  <1> QED
    BY <1>2, <1>3, <1>4, <1>5, <1>6 DEF PadInv

\* There are as many touches as slots in use.
LEMMA AsManyTouches ==
    ASSUME PadInv
    PROVE  Cardinality({t \in 1 .. Touches : touches[t].id >= 0}) = Cardinality(InUse(slots))
  <1> DEFINE Shown == {t \in 1 .. Touches : touches[t].id >= 0}
             Taken == InUse(slots)
             g == [t \in Shown |-> CHOOSE i \in Taken : slots[i].id = touches[t].id]
  <1>1. IsFiniteSet(Shown)
    <2>1. IsFiniteSet(1 .. Touches)
      BY InputConstants, FS_Interval
    <2> QED
      BY <2>1, FS_Subset
  <1>2. /\ \A t \in Shown : \E i \in Taken : slots[i].id = touches[t].id
        /\ \A i \in Taken : slots[i].id \in 0 .. Ids - 1
        /\ \A i \in Taken : \E t \in 1 .. Touches : touches[t].id = slots[i].id
        /\ \A i, j \in Taken : i # j => slots[i].id # slots[j].id
        /\ \A t, u \in Shown : t # u => touches[t].id # touches[u].id
    BY DEF PadInv, Fitting
  <1>3. \A i \in Taken : \E t \in Shown : touches[t].id = slots[i].id
    BY <1>2
  <1> HIDE DEF Shown, Taken
  <1>4. \A t \in Shown : g[t] \in Taken /\ slots[g[t]].id = touches[t].id
    BY <1>2
  <1> HIDE DEF g
  <1>5. g \in [Shown -> Taken]
    BY <1>4 DEF g
  <1>6. g \in Injection(Shown, Taken)
    <2>1. \A t, u \in Shown : g[t] = g[u] => t = u
      BY <1>2, <1>4
    <2> QED
      BY <1>5, <2>1 DEF Injection, IsInjective
  <1>7. g \in Surjection(Shown, Taken)
    <2>1. ASSUME NEW i \in Taken
          PROVE  \E t \in Shown : g[t] = i
      <3>1. PICK t \in Shown : touches[t].id = slots[i].id
        BY <1>3
      <3>2. g[t] = i
        BY <1>2, <1>4, <3>1
      <3> QED
        BY <3>2
    <2> QED
      BY <1>5, <2>1 DEF Surjection
  <1>8. ExistsBijection(Shown, Taken)
    BY <1>6, <1>7 DEF ExistsBijection, Bijection
  <1>9. Cardinality(Taken) = Cardinality(Shown)
    BY <1>1, <1>8, FS_Bijection
  <1> QED
    BY <1>9 DEF Shown, Taken

\* However many fingers come, move and go from one poll to the next, and wherever the
\* touchpad is mapped: each finger that has a slot lies on the touchpad and has a touch where
\* it is, no two slots are of one finger, no touch stays without its finger, and a slot has
\* moved exactly when its finger has been away from where it came down
\* (host_input.c, 344-412; controller.c, 36-76).
THEOREM TouchesAreAlwaysTrue == Spec => []TouchesAreTrue
  <1>1. Init => PadInv
    BY PadStart DEF Init
  <1>2. PadInv /\ [Next]_vars => PadInv'
    <2> SUFFICES ASSUME PadInv, [Next]_vars PROVE PadInv'
      OBVIOUS
    <2>1. CASE UNCHANGED padVars
      BY <2>1 DEF padVars, PadInv, InUse, Dragged, Fitting
    <2> QED
      BY <2>1, BenchStep, PadStep
  <1>3. PadInv => TouchesAreTrue
    <2> SUFFICES ASSUME PadInv PROVE I!TouchesFollowFingers /\ I!TapsAreStill
      BY DEF TouchesAreTrue
    <2>1. I!Active = InUse(slots)
      BY DEF I!Active, InUse
    <2>2. I!Cardinality({t \in 1 .. Touches : touches[t].id >= 0})
            = I!Cardinality(InUse(slots))
      BY AsManyTouches DEF I!Cardinality, Cardinality
    <2>3. ASSUME NEW i \in InUse(slots)
          PROVE  /\ I!OnPad(slots[i].finger)
                 /\ \E t \in 1 .. Touches :
                       touches[t] = [id |-> slots[i].id, at |-> fingers[slots[i].finger]]
      <3>1. PICK t \in 1 .. Touches : touches[t].id = slots[i].id
        BY DEF PadInv, Fitting
      <3>2. touches[t].at = fingers[slots[i].finger] /\ touches[t] \in Touch
        BY <3>1 DEF PadInv
      <3>3. touches[t] = [id |-> slots[i].id, at |-> fingers[slots[i].finger]]
        BY <3>1, <3>2 DEF Touch
      <3> QED
        BY <3>3 DEF I!OnPad, PadInv
    <2>4. \A i, j \in InUse(slots) : i # j => slots[i].finger # slots[j].finger
      BY FittingApart DEF PadInv
    <2>5. I!TouchesFollowFingers
      BY <2>1, <2>2, <2>3, <2>4 DEF I!TouchesFollowFingers
    <2>6. I!TapsAreStill
      BY <2>1 DEF I!TapsAreStill, PadInv, Dragged, InUse
    <2> QED
      BY <2>5, <2>6
  <1> QED
    BY <1>1, <1>2, <1>3, PTL DEF Spec

-----------------------------------------------------------------------------
(* The table of consoles *)

\* An object of the heap, and the table with its objects.
HostRec == [mac : Nat, type : SUBSET H!Types, source : {"none", "lan", "manual", "psn"},
            remote : Nat, age : Nat]
Worlds == [table : [1 .. Slots -> {0} \cup H!Objects], heap : [H!Objects -> HostRec]]

\* A console with a manual host does not join the network, and a device of the account is
\* registered.
Settled == Home \cap Manual = {} /\ Devices \subseteq Registered

\* An object is what its source says: one of the configuration, a console that was found, a
\* device of the account, or free.
Kind(o, h) ==
    /\ h \in HostRec
    /\ h.source = "none" <=> h = H!Free
    /\ h.source = "manual" <=> o \in H!Config
    /\ h.source = "lan" <=> "DISCOVERED" \in h.type
    /\ h.source = "manual" <=> "MANUALLY_ADDED" \in h.type
    /\ h.source = "lan" => h.mac \in Home
    /\ h.source = "manual" => h.mac \in Manual
    /\ h.source = "psn" => h.remote = h.mac
    /\ h.remote \in {0, h.mac}

\* The slots refer to living objects, each to another; what was found or is a device is in a
\* slot; and no console has been found twice.
Loose(w) ==
    /\ w \in Worlds
    /\ \A o \in H!Objects : Kind(o, w.heap[o])
    /\ \A s \in H!Used(w) : w.heap[w.table[s]].source # "none"
    /\ \A s, t \in H!Used(w) : s # t => w.table[s] # w.table[t]
    /\ \A o \in H!Objects :
          w.heap[o].source \in {"lan", "psn"} => \E s \in H!Used(w) : w.table[s] = o
    /\ \A s, t \in H!Used(w) :
          /\ w.heap[w.table[s]].source = "lan" /\ w.heap[w.table[t]].source = "lan"
          /\ w.heap[w.table[s]].mac = w.heap[w.table[t]].mac
          => s = t

\* No device in the first n slots has been found on the network.
Merged(w, n) ==
    \A s, t \in H!Used(w) :
        t <= n /\ w.heap[w.table[t]].source = "psn" /\ w.heap[w.table[s]].source = "lan"
        => w.heap[w.table[s]].mac # w.heap[w.table[t]].mac

\* A console that was found has no other slot.
Sole(w) ==
    \A s, t \in H!Used(w) :
        w.heap[w.table[s]].source = "lan" /\ w.heap[w.table[s]].mac = w.heap[w.table[t]].mac
        => s = t

\* There is no gap.
Packed(w) == \A s \in H!Used(w), t \in 1 .. Slots : t < s => t \in H!Used(w)

Tidy(w) == Loose(w) /\ Sole(w) /\ Packed(w)

\* An object that lives, and that no merge frees.
Safe(w, a) ==
    /\ a \in H!Objects /\ w.heap[a].source # "none"
    /\ w.heap[a].source = "psn" =>
          \A s \in H!Used(w) : w.heap[w.table[s]].source = "lan" =>
                                  w.heap[w.table[s]].mac # w.heap[a].mac
Stays(w, v, a) ==
    Safe(w, a) => Safe(v, a) /\ v.heap[a].source = w.heap[a].source
                             /\ v.heap[a].mac = w.heap[a].mac

\* Only ages and the devices behind the consoles differ.
Akin(w, v) ==
    /\ v \in Worlds /\ v.table = w.table
    /\ \A o \in H!Objects : /\ Kind(o, v.heap[o]) /\ v.heap[o].source = w.heap[o].source
                            /\ v.heap[o].mac = w.heap[o].mac

\* What the constants are.
LEMMA HostConstants ==
    /\ IsFiniteSet(Consoles) /\ Consoles = 1 .. Cardinality(Consoles)
    /\ Cardinality(Consoles) \in Nat /\ Consoles \subseteq Nat \ {0}
    /\ Registered \subseteq Consoles /\ Manual \subseteq Consoles /\ Devices \subseteq Consoles
    /\ Home \subseteq Consoles /\ Slots \in Nat \ {0}
    /\ IsFiniteSet(Manual) /\ Cardinality(Manual) \in Nat
    /\ H!Config = 1 .. Cardinality(Manual)
    /\ H!Objects = 1 .. Slots + Cardinality(Manual) + 1
    /\ H!Config \subseteq H!Objects /\ H!Objects \subseteq Nat \ {0}
    /\ DropPings \in Nat /\ Grace \in Nat
  <1>1. /\ IsFiniteSet(Consoles) /\ Consoles = 1 .. Cardinality(Consoles)
        /\ Registered \subseteq Consoles /\ Manual \subseteq Registered
        /\ Devices \cup Home \subseteq Consoles
        /\ Slots \in Nat \ {0} /\ DropPings \in Nat \ {0} /\ Grace \in Nat \ {0}
    BY MCClientAssumption DEF H!HostTableAssumption, H!Cardinality, Cardinality,
       H!IsFiniteSet, IsFiniteSet
  <1>2. Cardinality(Consoles) \in Nat /\ Manual \subseteq Consoles
    BY <1>1, FS_CardinalityType
  <1>3. IsFiniteSet(Manual) /\ Cardinality(Manual) \in Nat
    BY <1>1, <1>2, FS_Subset, FS_CardinalityType
  <1>4. /\ H!Config = 1 .. Cardinality(Manual)
        /\ H!Objects = 1 .. Slots + Cardinality(Manual) + 1
    BY DEF H!Config, H!Objects, H!Cardinality, Cardinality
  <1> HIDE DEF H!Config, H!Objects
  <1>5. H!Config \subseteq H!Objects /\ H!Objects \subseteq Nat \ {0}
    BY <1>1, <1>3, <1>4
  <1>6. Consoles \subseteq Nat \ {0}
    BY <1>1, <1>2
  <1> QED
    BY <1>1, <1>2, <1>3, <1>4, <1>5, <1>6

\* The least of a set of numbers is one of them.
LEMMA LeastOf ==
    ASSUME NEW places \in SUBSET Nat, places # {}
    PROVE  H!Min(places) \in places
  <1>1. \E x \in places : \A y \in places : x <= y
    BY Sub!LeastElement
  <1> QED
    BY <1>1 DEF H!Min

\* The manual hosts are those of the configuration.
LEMMA ManualMac ==
    ASSUME NEW i \in H!Config
    PROVE  H!ManualHost(i).mac \in Manual
  <1> DEFINE upto(c) == {d \in Manual : d <= c}
             n == Cardinality(Manual)
             S == {k \in 0 .. n : k = 0 \/ \E c \in Manual : Cardinality(upto(c)) = k}
  <1>1. i \in 1 .. n /\ n \in Nat /\ Manual \subseteq Nat /\ IsFiniteSet(Manual)
    BY HostConstants
  <1>2. ASSUME NEW k \in 0 .. n - 1, k \in S
        PROVE  k + 1 \in S
    <2>1. \E b \in SUBSET Manual :
             Cardinality(b) = k /\ \A d \in Manual : \A e \in b : d <= e => d \in b
      <3>1. CASE k = 0
        <4>1. {} \in SUBSET Manual /\ Cardinality({}) = k
          BY <3>1, FS_EmptySet
        <4> QED
          BY <4>1
      <3>2. CASE k # 0
        <4>1. PICK c \in Manual : Cardinality(upto(c)) = k
          BY <1>2, <3>2
        <4> DEFINE b == upto(c)
        <4>2. b \in SUBSET Manual /\ \A d \in Manual : d \in b <=> d <= c
          OBVIOUS
        <4>3. Cardinality(b) = k
          BY <4>1
        <4> HIDE DEF b
        <4>4. \A d \in Manual : \A e \in b : d <= e => d \in b
          BY <1>1, <4>2
        <4> QED
          BY <4>2, <4>3, <4>4
      <3> QED
        BY <3>1, <3>2
    <2>2. PICK below \in SUBSET Manual :
             Cardinality(below) = k /\ \A d \in Manual : \A e \in below : d <= e => d \in below
      BY <2>1
    <2> DEFINE rest == Manual \ below
    <2>3. rest # {} /\ rest \in SUBSET Nat /\ IsFiniteSet(below)
      <3>1. below # Manual
        BY <1>1, <2>2
      <3> QED
        BY <1>1, <2>2, <3>1, FS_Subset
    <2>4. PICK c \in rest : \A d \in rest : c <= d
      <3> HIDE DEF rest
      <3> QED
        BY <2>3, Sub!LeastElement
    <2>5. upto(c) = below \cup {c} /\ c \notin below /\ c \in Manual
      <3>1. c \in Manual /\ c \notin below
        OBVIOUS
      <3>2. ASSUME NEW d \in Manual
            PROVE  d <= c <=> d \in below \/ d = c
        <4>1. d \in Nat /\ c \in Nat
          BY <1>1, <3>1
        <4>2. d \notin below => c <= d
          BY <2>4
        <4>3. d \in below => ~(c <= d)
          BY <2>2, <3>1
        <4> QED
          BY <4>1, <4>2, <4>3
      <3> QED
        BY <3>1, <3>2
    <2>6. Cardinality(upto(c)) = k + 1
      BY <2>2, <2>3, <2>5, FS_AddElement
    <2>7. k + 1 \in 0 .. n /\ c \in Manual
      BY <1>1, <2>5
    <2> HIDE DEF upto, n
    <2> QED
      BY <2>6, <2>7
  <1>3. 0 \in S /\ S \in SUBSET Nat
    BY <1>1
  <1>4. i \in S
    <2> HIDE DEF S
    <2>1. \A k \in 0 .. n : k \in S
      BY <1>1, <1>2, <1>3, Sub!Induction
    <2> QED
      BY <1>1, <2>1
  <1>5. \E c \in Manual : Cardinality({d \in Manual : d <= c}) = i
    BY <1>1, <1>4
  <1>6. \E c \in Manual : H!Cardinality({d \in Manual : d <= c}) = i
    BY <1>5 DEF H!Cardinality, Cardinality
  <1> HIDE DEF upto, n, S
  <1> QED
    BY <1>6 DEF H!ManualHost

\* An object that is in no slot and not of the configuration is free; there is always one.
LEMMA FreeObject ==
    ASSUME NEW w, Loose(w)
    PROVE  H!Unused(w) \in H!Objects /\ w.heap[H!Unused(w)] = H!Free
  <1> DEFINE free == {o \in H!Objects : w.heap[o] = H!Free}
             more == Cardinality(Manual) + 1 .. Slots + Cardinality(Manual) + 1
             g == [o \in more |-> CHOOSE s \in 1 .. Slots : w.table[s] = o]
  <1>1. free \in SUBSET Nat
    BY HostConstants
  <1>2. free # {}
    <2>1. SUFFICES ASSUME free = {} PROVE FALSE
      OBVIOUS
    <2>2. ASSUME NEW o \in more
          PROVE  \E s \in 1 .. Slots : w.table[s] = o
      <3>1. o \in H!Objects /\ o \notin H!Config
        BY HostConstants
      <3>2. Kind(o, w.heap[o]) /\ w.heap[o] # H!Free
        BY <2>1, <3>1 DEF Loose
      <3>3. w.heap[o].source \in {"lan", "psn"}
        BY <3>1, <3>2 DEF Kind, HostRec
      <3> QED
        BY <3>1, <3>3 DEF Loose, H!Used
    <2>3. \A o \in more : g[o] \in 1 .. Slots /\ w.table[g[o]] = o
      BY <2>2
    <2>4. g \in [more -> 1 .. Slots]
      BY <2>3
    <2>5. /\ IsFiniteSet(more) /\ Cardinality(more) = Slots + 1
          /\ IsFiniteSet(1 .. Slots) /\ Cardinality(1 .. Slots) = Slots
      <3> DEFINE lo == Cardinality(Manual) + 1
                 hi == Slots + Cardinality(Manual) + 1
      <3>1. lo \in Int /\ hi \in Int /\ 1 \in Int /\ Slots \in Int
            /\ ~(lo > hi) /\ hi - lo + 1 = Slots + 1 /\ ~(1 > Slots) /\ Slots - 1 + 1 = Slots
        BY HostConstants
      <3>2. more = lo .. hi
        OBVIOUS
      <3> HIDE DEF lo, hi, more
      <3>3. IsFiniteSet(more) /\ Cardinality(more) = Slots + 1
        BY <3>1, <3>2, FS_Interval
      <3>4. IsFiniteSet(1 .. Slots) /\ Cardinality(1 .. Slots) = Slots
        BY <3>1, FS_Interval
      <3> QED
        BY <3>3, <3>4
    <2> HIDE DEF g, more
    <2>6. \E x, y \in more : x # y /\ g[x] = g[y]
      BY <2>4, <2>5, HostConstants, FS_PigeonHole
    <2> QED
      BY <2>3, <2>6
  <1>3. H!Unused(w) = H!Min(free)
    BY DEF H!Unused
  <1>4. \A o \in free : o \in H!Objects /\ w.heap[o] = H!Free
    OBVIOUS
  <1> HIDE DEF free
  <1> QED
    BY <1>1, <1>2, <1>3, <1>4, LeastOf

\* What is kept stays so when it is kept again.
LEMMA StaysOn ==
    ASSUME NEW u, NEW v, NEW w, NEW a, Stays(u, v, a), Stays(v, w, a)
    PROVE  Stays(u, w, a)
  BY DEF Stays

\* The slots in use are slots.
LEMMA UsedSlots ==
    ASSUME NEW w, Loose(w), NEW s \in H!Used(w)
    PROVE  s \in 1 .. Slots /\ w.table[s] \in H!Objects /\ Kind(w.table[s], w.heap[w.table[s]])
  BY DEF Loose, Worlds, H!Used

\* Ages and devices are of no matter to the slots.
LEMMA AkinKeeps ==
    ASSUME NEW w, Loose(w), NEW v, Akin(w, v), NEW a
    PROVE  /\ Loose(v) /\ H!Used(v) = H!Used(w) /\ Stays(w, v, a)
           /\ Sole(w) => Sole(v)
           /\ Packed(w) => Packed(v)
           /\ \A n \in Nat : Merged(w, n) => Merged(v, n)
  <1>1. H!Used(v) = H!Used(w) /\ v.table = w.table /\ v \in Worlds
    BY DEF Akin, H!Used
  <1>2. \A s \in H!Used(w) : /\ v.heap[v.table[s]].source = w.heap[w.table[s]].source
                             /\ v.heap[v.table[s]].mac = w.heap[w.table[s]].mac
    BY <1>1, UsedSlots DEF Akin
  <1>3. \A o \in H!Objects : /\ Kind(o, v.heap[o]) /\ v.heap[o].source = w.heap[o].source
                             /\ v.heap[o].mac = w.heap[o].mac
    BY DEF Akin
  <1>4. Loose(v)
    <2>1. \A s \in H!Used(v) : v.heap[v.table[s]].source # "none"
      BY <1>1, <1>2 DEF Loose
    <2>2. \A s, t \in H!Used(v) : s # t => v.table[s] # v.table[t]
      BY <1>1 DEF Loose
    <2>3. \A o \in H!Objects :
             v.heap[o].source \in {"lan", "psn"} => \E s \in H!Used(v) : v.table[s] = o
      BY <1>1, <1>3 DEF Loose
    <2>4. \A s, t \in H!Used(v) :
             /\ v.heap[v.table[s]].source = "lan" /\ v.heap[v.table[t]].source = "lan"
             /\ v.heap[v.table[s]].mac = v.heap[v.table[t]].mac
             => s = t
      BY <1>1, <1>2 DEF Loose
    <2> QED
      BY <1>1, <1>3, <2>1, <2>2, <2>3, <2>4 DEF Loose
  <1>5. Stays(w, v, a)
    BY <1>1, <1>2, <1>3 DEF Stays, Safe
  <1>6. Sole(w) => Sole(v)
    BY <1>1, <1>2 DEF Sole
  <1>7. Packed(w) => Packed(v)
    BY <1>1 DEF Packed
  <1>8. \A n \in Nat : Merged(w, n) => Merged(v, n)
    BY <1>1, <1>2 DEF Merged
  <1> QED
    BY <1>1, <1>4, <1>5, <1>6, <1>7, <1>8

\* Objects that were found, or are devices, are freed together with their slots.
LEMMA GoneKeeps ==
    ASSUME NEW w, Loose(w), NEW gone \in SUBSET H!Used(w),
           \A s \in gone : w.heap[w.table[s]].source \in {"lan", "psn"},
           NEW a, Safe(w, a) => \A s \in gone : w.table[s] # a,
           NEW v, v = H!Release(w, gone)
    PROVE  /\ Loose(v) /\ H!Used(v) = H!Used(w) \ gone /\ Stays(w, v, a)
           /\ \A s \in H!Used(v) :
                 v.table[s] = w.table[s] /\ v.heap[v.table[s]] = w.heap[w.table[s]]
           /\ \A s \in 1 .. Slots : v.table[s] = IF s \in gone THEN 0 ELSE w.table[s]
  <1>0. /\ gone \subseteq 1 .. Slots /\ H!Used(w) \subseteq 1 .. Slots
        /\ w.table \in [1 .. Slots -> {0} \cup H!Objects] /\ w.heap \in [H!Objects -> HostRec]
        /\ 0 \notin H!Objects
    BY HostConstants DEF H!Used, Loose, Worlds
  <1>1. H!Free \in HostRec /\ H!Free.source = "none"
    BY DEF H!Free, HostRec, H!Types
  <1>2. /\ v.table = [s \in 1 .. Slots |-> IF s \in gone THEN 0 ELSE w.table[s]]
        /\ v.heap = [o \in H!Objects |-> IF \E s \in gone : w.table[s] = o
                                         THEN H!Free ELSE w.heap[o]]
        /\ v = [table |-> v.table, heap |-> v.heap]
    BY DEF H!Release
  <1>3. v \in Worlds
    <2>1. /\ v.table \in [1 .. Slots -> {0} \cup H!Objects]
          /\ v.heap \in [H!Objects -> HostRec]
      <3>1. \A s \in 1 .. Slots : w.table[s] \in {0} \cup H!Objects
        BY <1>0
      <3>2. v.table \in [1 .. Slots -> {0} \cup H!Objects]
        BY <1>2, <3>1
      <3>3. v.heap \in [H!Objects -> HostRec]
        BY <1>0, <1>1, <1>2
      <3> QED
        BY <3>2, <3>3
    <2> QED
      BY <1>2, <2>1 DEF Worlds
  <1>4. \A s \in 1 .. Slots : v.table[s] = IF s \in gone THEN 0 ELSE w.table[s]
    BY <1>2
  <1>5. \A o \in H!Objects : v.heap[o] = IF \E s \in gone : w.table[s] = o
                                         THEN H!Free ELSE w.heap[o]
    BY <1>2
  <1>6. H!Used(v) = H!Used(w) \ gone
    BY <1>4 DEF H!Used
  <1>7. \A s \in H!Used(v) : /\ s \in H!Used(w) /\ s \notin gone /\ v.table[s] = w.table[s]
                             /\ v.heap[v.table[s]] = w.heap[w.table[s]]
    <2> TAKE s \in H!Used(v)
    <2>1. s \in H!Used(w) /\ s \notin gone /\ s \in 1 .. Slots
      BY <1>0, <1>6
    <2>2. v.table[s] = w.table[s] /\ w.table[s] \in H!Objects
      BY <1>4, <2>1, UsedSlots
    <2>3. \A t \in gone : w.table[t] # w.table[s]
      BY <2>1 DEF Loose
    <2> QED
      BY <1>5, <2>1, <2>2, <2>3
  <1>8. Loose(v)
    <2>1. ASSUME NEW o \in H!Objects
          PROVE  Kind(o, v.heap[o])
      <3>1. CASE \E s \in gone : w.table[s] = o
        <4>1. v.heap[o] = H!Free
          BY <1>5, <3>1
        <4>2. o \notin H!Config
          BY <3>1 DEF Loose, Kind
        <4> QED
          BY <1>1, <4>1, <4>2 DEF Kind, H!Free
      <3>2. CASE ~(\E s \in gone : w.table[s] = o)
        BY <1>5, <3>2 DEF Loose
      <3> QED
        BY <3>1, <3>2
    <2>2. \A s \in H!Used(v) : v.heap[v.table[s]].source # "none"
      BY <1>7 DEF Loose
    <2>3. \A s, t \in H!Used(v) : s # t => v.table[s] # v.table[t]
      BY <1>7 DEF Loose
    <2>4. ASSUME NEW o \in H!Objects, v.heap[o].source \in {"lan", "psn"}
          PROVE  \E s \in H!Used(v) : v.table[s] = o
      <3>1. v.heap[o] = w.heap[o] /\ ~(\E s \in gone : w.table[s] = o)
        BY <1>1, <1>5, <2>4
      <3>2. PICK s \in H!Used(w) : w.table[s] = o
        BY <2>4, <3>1 DEF Loose
      <3>3. s \in H!Used(v)
        BY <1>6, <3>1, <3>2
      <3> QED
        BY <1>7, <3>2, <3>3
    <2>5. \A s, t \in H!Used(v) :
             /\ v.heap[v.table[s]].source = "lan" /\ v.heap[v.table[t]].source = "lan"
             /\ v.heap[v.table[s]].mac = v.heap[v.table[t]].mac
             => s = t
      BY <1>7 DEF Loose
    <2> QED
      BY <1>3, <2>1, <2>2, <2>3, <2>4, <2>5 DEF Loose
  <1>9. Stays(w, v, a)
    <2> SUFFICES ASSUME Safe(w, a)
                 PROVE  /\ Safe(v, a) /\ v.heap[a].source = w.heap[a].source
                        /\ v.heap[a].mac = w.heap[a].mac
      BY DEF Stays
    <2>1. v.heap[a] = w.heap[a]
      BY <1>5 DEF Safe
    <2> QED
      BY <1>7, <2>1 DEF Safe
  <1> QED
    BY <1>4, <1>6, <1>7, <1>8, <1>9

\* A new object takes an empty slot.
LEMMA PutKeeps ==
    ASSUME NEW w, Loose(w), NEW s \in H!Empty(w), NEW h, h.source \in {"lan", "psn"},
           \A o \in H!Objects \ H!Config : Kind(o, h),
           h.source = "lan" =>
               \A t \in H!Used(w) : w.heap[w.table[t]].source = "lan"
                                       => w.heap[w.table[t]].mac # h.mac,
           NEW a, Safe(w, a) /\ h.source = "lan" /\ w.heap[a].source = "psn"
                      => w.heap[a].mac # h.mac,
           NEW v, v = H!Put(w, s, h)
    PROVE  /\ Loose(v) /\ Stays(w, v, a)
           /\ H!Used(v) = H!Used(w) \cup {s}
  <1> DEFINE n == H!Unused(w)
  <1>0. n \in H!Objects /\ w.heap[n] = H!Free
    BY FreeObject
  <1> HIDE DEF n
  <1>1. /\ s \in 1 .. Slots /\ s \notin H!Used(w) /\ n # 0
        /\ w.table \in [1 .. Slots -> {0} \cup H!Objects] /\ w.heap \in [H!Objects -> HostRec]
        /\ H!Used(w) \subseteq 1 .. Slots
    BY <1>0, HostConstants DEF H!Used, H!Empty, Loose, Worlds
  <1>2. w.heap[n].source = "none" /\ n \notin H!Config
    <2>1. w.heap[n].source = "none"
      BY <1>0 DEF H!Free
    <2>2. Kind(n, w.heap[n])
      BY <1>0 DEF Loose
    <2> QED
      BY <2>1, <2>2 DEF Kind
  <1>3. Kind(n, h) /\ h \in HostRec
    BY <1>0, <1>2 DEF Kind
  <1>4. /\ v.table = [w.table EXCEPT ![s] = n] /\ v.heap = [w.heap EXCEPT ![n] = h]
        /\ v = [table |-> v.table, heap |-> v.heap]
    BY DEF H!Put, n
  <1>5. v \in Worlds
    <2>1. /\ v.table \in [1 .. Slots -> {0} \cup H!Objects]
          /\ v.heap \in [H!Objects -> HostRec]
      BY <1>0, <1>1, <1>3, <1>4
    <2> QED
      BY <1>4, <2>1 DEF Worlds
  <1>6. /\ v.table[s] = n /\ \A t \in 1 .. Slots : t # s => v.table[t] = w.table[t]
        /\ v.heap[n] = h /\ \A o \in H!Objects : o # n => v.heap[o] = w.heap[o]
    BY <1>0, <1>1, <1>4
  <1>7. H!Used(v) = H!Used(w) \cup {s}
    BY <1>1, <1>6 DEF H!Used
  <1>8. \A t \in H!Used(w) : /\ t # s /\ v.table[t] = w.table[t] /\ w.table[t] # n
                             /\ v.heap[v.table[t]] = w.heap[w.table[t]]
    <2> TAKE t \in H!Used(w)
    <2>1. t # s /\ t \in 1 .. Slots /\ w.table[t] \in H!Objects
      BY <1>1, UsedSlots
    <2>2. w.table[t] # n
      BY <1>2 DEF Loose
    <2> QED
      BY <1>6, <2>1, <2>2
  <1>9. Loose(v)
    <2>1. ASSUME NEW o \in H!Objects
          PROVE  Kind(o, v.heap[o])
      <3>1. CASE o = n
        BY <1>3, <1>6, <3>1
      <3>2. CASE o # n
        BY <1>6, <3>2 DEF Loose
      <3> QED
        BY <3>1, <3>2
    <2>2. \A t \in H!Used(v) : v.heap[v.table[t]].source # "none"
      BY <1>6, <1>7, <1>8 DEF Loose
    <2>3. \A t, u \in H!Used(v) : t # u => v.table[t] # v.table[u]
      BY <1>6, <1>7, <1>8 DEF Loose
    <2>4. ASSUME NEW o \in H!Objects, v.heap[o].source \in {"lan", "psn"}
          PROVE  \E t \in H!Used(v) : v.table[t] = o
      <3>1. CASE o = n
        BY <1>6, <1>7, <3>1
      <3>2. CASE o # n
        BY <1>6, <1>7, <1>8, <2>4, <3>2 DEF Loose
      <3> QED
        BY <3>1, <3>2
    <2>5. ASSUME NEW t \in H!Used(v), NEW u \in H!Used(v),
                 v.heap[v.table[t]].source = "lan", v.heap[v.table[u]].source = "lan",
                 v.heap[v.table[t]].mac = v.heap[v.table[u]].mac
          PROVE  t = u
      <3>1. CASE t = s
        BY <1>6, <1>7, <1>8, <2>5, <3>1
      <3>2. CASE u = s
        BY <1>6, <1>7, <1>8, <2>5, <3>2
      <3>3. CASE t # s /\ u # s
        <4>1. t \in H!Used(w) /\ u \in H!Used(w)
          BY <1>7, <3>3
        <4> QED
          BY <1>8, <2>5, <4>1 DEF Loose
      <3> QED
        BY <3>1, <3>2, <3>3
    <2> QED
      BY <1>5, <2>1, <2>2, <2>3, <2>4, <2>5 DEF Loose
  <1>10. Stays(w, v, a)
    <2> SUFFICES ASSUME Safe(w, a)
                 PROVE  /\ Safe(v, a) /\ v.heap[a].source = w.heap[a].source
                        /\ v.heap[a].mac = w.heap[a].mac
      BY DEF Stays
    <2>1. v.heap[a] = w.heap[a]
      BY <1>2, <1>6 DEF Safe
    <2> QED
      BY <1>6, <1>7, <1>8, <2>1 DEF Safe
  <1> QED
    BY <1>7, <1>9, <1>10

\* What one round of each loop does.
HostStep(kind, w, i, list) ==
    CASE kind = "merge" -> H!MergeOne(w, i)
      [] kind = "add" -> H!AddManual(w, i)
      [] kind = "save" -> H!Save(w, list[i])
      [] kind = "device" -> IF i \in list THEN H!AddDevice(w, i) ELSE w

\* The function that a loop is defined by.
IsHostLoop(f, w, kind, list, n) ==
    f = [i \in 0 .. n |-> IF i = 0 THEN w ELSE HostStep(kind, f[i - 1], i, list)]
IsMerging(f, w, n) == f = [s \in 0 .. n |-> IF s = 0 THEN w ELSE H!MergeOne(f[s - 1], s)]
IsAdding(f, w, n) == f = [i \in 0 .. n |-> IF i = 0 THEN w ELSE H!AddManual(f[i - 1], i)]
IsSaving(f, w, list, n) == f = [i \in 0 .. n |-> IF i = 0 THEN w ELSE H!Save(f[i - 1], list[i])]
IsListing(f, w, present, n) ==
    f = [d \in 0 .. n |->
            IF d = 0 THEN w ELSE IF d \in present THEN H!AddDevice(f[d - 1], d) ELSE f[d - 1]]

\* It exists ...
LEMMA HostLoopExists ==
    ASSUME NEW w, NEW kind, NEW list, NEW n \in Nat
    PROVE  \E f : IsHostLoop(f, w, kind, list, n)
  <1> DEFINE Step(a, i) == HostStep(kind, a, i, list)
             S == {m \in Nat : \E f :
                           f = [i \in 0 .. m |-> IF i = 0 THEN w ELSE Step(f[i - 1], i)]}
  <1> HIDE DEF Step
  <1>1. 0 \in S
    <2> DEFINE g == [i \in 0 .. 0 |-> w]
               h == [i \in 0 .. 0 |-> IF i = 0 THEN w ELSE Step(g[i - 1], i)]
    <2>1. \A i \in 0 .. 0 : i = 0
      OBVIOUS
    <2>2. g = h
      BY <2>1
    <2> HIDE DEF g
    <2> QED
      BY <2>2
  <1>2. ASSUME NEW m \in Nat, m \in S
        PROVE  m + 1 \in S
    <2>1. PICK f : f = [i \in 0 .. m |-> IF i = 0 THEN w ELSE Step(f[i - 1], i)]
      BY <1>2
    <2> DEFINE new == Step(f[m], m + 1)
               g == [i \in 0 .. m + 1 |-> IF i = m + 1 THEN new ELSE f[i]]
               h == [i \in 0 .. m + 1 |-> IF i = 0 THEN w ELSE Step(g[i - 1], i)]
    <2>2. \A i \in 0 .. m : f[i] = IF i = 0 THEN w ELSE Step(f[i - 1], i)
      BY <2>1
    <2>3. ASSUME NEW i \in 0 .. m + 1
          PROVE  g[i] = h[i]
      <3>1. CASE i = 0
        BY <2>2, <3>1
      <3>2. CASE i = m + 1
        <4>1. g[i - 1] = f[m]
          BY <3>2
        <4> QED
          BY <3>2, <4>1
      <3>3. CASE i # 0 /\ i # m + 1
        <4>1. i - 1 \in 0 .. m /\ i \in 0 .. m
          BY <3>3
        <4>2. g[i - 1] = f[i - 1] /\ g[i] = f[i]
          BY <4>1, <3>3
        <4> QED
          BY <4>1, <4>2, <2>2, <3>3
      <3> QED
        BY <3>1, <3>2, <3>3
    <2>4. g = h
      <3> HIDE DEF new
      <3>1. g = [i \in 0 .. m + 1 |-> g[i]] /\ h = [i \in 0 .. m + 1 |-> h[i]]
        OBVIOUS
      <3> HIDE DEF g, h
      <3> QED
        BY <3>1, <2>3
    <2>5. m + 1 \in Nat /\ g = [i \in 0 .. m + 1 |-> IF i = 0 THEN w ELSE Step(g[i - 1], i)]
      BY <2>4
    <2> HIDE DEF g
    <2> QED
      BY <2>5
  <1> HIDE DEF S
  <1>3. n \in S
    <2>1. S \in SUBSET Nat
      BY DEF S
    <2> QED
      BY <1>1, <1>2, <2>1, Sub!Induction
  <1> QED
    BY <1>3 DEF S, Step, IsHostLoop

\* ... so that each of the loops is the last value of its function.
LEMMA MergeDef ==
    ASSUME NEW w
    PROVE  \E f : IsMerging(f, w, Slots) /\ H!Merge(w) = f[Slots]
  <1>1. PICK g : IsHostLoop(g, w, "merge", 0, Slots)
    BY HostLoopExists, HostConstants
  <1>2. \A a, i : HostStep("merge", a, i, 0) = H!MergeOne(a, i)
    BY DEF HostStep
  <1>3. IsMerging(g, w, Slots)
    BY <1>1, <1>2 DEF IsHostLoop, IsMerging
  <1> DEFINE f == CHOOSE f : IsMerging(f, w, Slots)
  <1>4. IsMerging(f, w, Slots)
    BY <1>3
  <1>5. H!Merge(w) = f[Slots]
    BY DEF H!Merge, IsMerging
  <1> QED
    BY <1>4, <1>5

\* The manual hosts are added one after another,
LEMMA AddManualsDef ==
    ASSUME NEW w
    PROVE  \E f : /\ IsAdding(f, w, Cardinality(Manual))
                  /\ H!AddManuals(w) = f[Cardinality(Manual)]
  <1> DEFINE n == Cardinality(Manual)
  <1>1. PICK g : IsHostLoop(g, w, "add", 0, n)
    BY HostLoopExists, HostConstants
  <1>2. \A a, i : HostStep("add", a, i, 0) = H!AddManual(a, i)
    BY DEF HostStep
  <1>3. IsAdding(g, w, n)
    BY <1>1, <1>2 DEF IsHostLoop, IsAdding
  <1> DEFINE f == CHOOSE f : IsAdding(f, w, n)
  <1>4. IsAdding(f, w, n)
    BY <1>3
  <1>5. H!AddManuals(w) = f[n]
    BY DEF H!AddManuals, IsAdding, H!Cardinality, Cardinality
  <1> QED
    BY <1>4, <1>5

\* so are the reported consoles,
LEMMA SaveAllDef ==
    ASSUME NEW w, NEW list, Len(list) \in Nat
    PROVE  \E f : IsSaving(f, w, list, Len(list)) /\ H!SaveAll(w, list) = f[Len(list)]
  <1> DEFINE n == Len(list)
  <1>1. PICK g : IsHostLoop(g, w, "save", list, n)
    BY HostLoopExists
  <1>2. \A a, i : HostStep("save", a, i, list) = H!Save(a, list[i])
    BY DEF HostStep
  <1>3. IsSaving(g, w, list, n)
    BY <1>1, <1>2 DEF IsHostLoop, IsSaving
  <1> DEFINE f == CHOOSE f : IsSaving(f, w, list, n)
  <1>4. IsSaving(f, w, list, n)
    BY <1>3
  <1>5. H!SaveAll(w, list) = f[n]
    BY DEF H!SaveAll, IsSaving
  <1> QED
    BY <1>4, <1>5

\* and so are the devices of the account.
LEMMA AddDevicesDef ==
    ASSUME NEW w, NEW present
    PROVE  \E f : /\ IsListing(f, w, present, Cardinality(Consoles))
                  /\ H!AddDevices(w, present) = f[Cardinality(Consoles)]
  <1> DEFINE n == Cardinality(Consoles)
  <1>1. PICK g : IsHostLoop(g, w, "device", present, n)
    BY HostLoopExists, HostConstants
  <1>2. \A a, i : HostStep("device", a, i, present)
                    = IF i \in present THEN H!AddDevice(a, i) ELSE a
    BY DEF HostStep
  <1>3. IsListing(g, w, present, n)
    BY <1>1, <1>2 DEF IsHostLoop, IsListing
  <1> DEFINE f == CHOOSE f : IsListing(f, w, present, n)
  <1>4. IsListing(f, w, present, n)
    BY <1>3
  <1>5. H!AddDevices(w, present) = f[n]
    BY DEF H!AddDevices, IsListing, H!Cardinality, Cardinality
  <1> QED
    BY <1>4, <1>5

\* An object keeps its kind when only its age or the device behind it changes.
LEMMA KindSame ==
    ASSUME NEW o, NEW h, Kind(o, h), NEW g \in HostRec, h.source # "none",
           g.source = h.source, g.type = h.type, g.mac = h.mac, g.remote \in {0, g.mac},
           g.source = "psn" => g.remote = g.mac
    PROVE  Kind(o, g)
  <1>1. g # H!Free
    BY DEF Kind, H!Free
  <1> QED
    BY <1>1 DEF Kind

\* One object changes.
LEMMA ChangeOne ==
    ASSUME NEW w, Loose(w), NEW o \in H!Objects, NEW g, Kind(o, g),
           g.source = w.heap[o].source, g.mac = w.heap[o].mac,
           NEW v, v = [w EXCEPT !.heap[o] = g]
    PROVE  Akin(w, v) /\ v.heap[o] = g
  <1>1. /\ w \in Worlds /\ g \in HostRec
        /\ \A p \in H!Objects : Kind(p, w.heap[p])
    BY DEF Loose, Kind
  <1> DEFINE heaps == [w.heap EXCEPT ![o] = g]
  <1>2. heaps \in [H!Objects -> HostRec] /\ heaps[o] = g
        /\ \A p \in H!Objects : p # o => heaps[p] = w.heap[p]
    BY <1>1 DEF Worlds
  <1>3. v = [w EXCEPT !.heap = heaps]
    OBVIOUS
  <1> HIDE DEF heaps
  <1>4. v \in Worlds /\ v.table = w.table /\ v.heap = heaps
    BY <1>1, <1>2, <1>3 DEF Worlds
  <1> QED
    BY <1>1, <1>2, <1>4 DEF Akin

\* A device in a slot that has been found on the network is merged into what was found.
LEMMA MergeOneKeeps ==
    ASSUME NEW w, Loose(w), NEW s \in 1 .. Slots, Merged(w, s - 1), NEW a,
           NEW v, v = H!MergeOne(w, s)
    PROVE  Loose(v) /\ Merged(v, s) /\ Stays(w, v, a)
  <1>0. H!Used(w) \subseteq 1 .. Slots /\ \A t \in H!Used(w) : Kind(w.table[t], w.heap[w.table[t]])
    BY UsedSlots
  <1>1. \A t : t \in H!Twins(w, s) <=>
                  /\ t \in H!Used(w) /\ t # s
                  /\ w.heap[w.table[t]].source = "lan"
                  /\ w.heap[w.table[t]].mac = w.heap[w.table[s]].mac
    BY <1>0 DEF H!Twins, H!At, H!Of, Kind
  <1>2. CASE ~(w.table[s] # 0 /\ w.heap[w.table[s]].source = "psn" /\ H!Twins(w, s) # {})
    <2>1. v = w
      BY <1>2 DEF H!MergeOne, H!At
    <2>2. s \in H!Used(w) <=> w.table[s] # 0
      BY DEF H!Used
    <2>3. Merged(w, s)
      <3> SUFFICES ASSUME NEW t \in H!Used(w), NEW u \in H!Used(w), u <= s,
                          w.heap[w.table[u]].source = "psn", w.heap[w.table[t]].source = "lan"
                   PROVE  w.heap[w.table[t]].mac # w.heap[w.table[u]].mac
        BY DEF Merged
      <3>1. CASE u = s
        BY <1>1, <1>2, <2>2, <3>1
      <3>2. CASE u # s
        <4>1. u <= s - 1
          BY <1>0, <3>2
        <4> QED
          BY <4>1 DEF Merged
      <3> QED
        BY <3>1, <3>2
    <2> QED
      BY <2>1, <2>3 DEF Stays
  <1>3. CASE w.table[s] # 0 /\ w.heap[w.table[s]].source = "psn" /\ H!Twins(w, s) # {}
    <2> DEFINE k == H!Min(H!Twins(w, s))
               o == w.table[k]
               x == w.heap[w.table[s]].remote
               g == [w.heap[o] EXCEPT !.remote = x]
               m == [w EXCEPT !.heap[o] = g]
    <2>1. v = H!Release(m, {s})
      BY <1>3 DEF H!MergeOne, H!At
    <2>2. k \in H!Twins(w, s)
      <3>1. H!Twins(w, s) \in SUBSET Nat
        BY <1>0, <1>1
      <3> QED
        BY <1>3, <3>1, LeastOf
    <2> HIDE DEF k
    <2>3. /\ k \in H!Used(w) /\ k # s /\ s \in H!Used(w)
          /\ o \in H!Objects /\ Kind(o, w.heap[o]) /\ w.heap[o].source = "lan"
          /\ w.heap[o].mac = w.heap[w.table[s]].mac /\ x = w.heap[o].mac
      <3>1. s \in H!Used(w)
        BY <1>3 DEF H!Used
      <3> QED
        BY <1>1, <1>3, <2>2, <3>1, UsedSlots DEF Kind
    <2> HIDE DEF o, x
    <2>4. Kind(o, g) /\ g.source = w.heap[o].source /\ g.mac = w.heap[o].mac
      <3>1. w.heap[o] \in HostRec /\ x \in Nat
        BY <2>3 DEF Kind, HostRec
      <3>2. /\ g \in HostRec /\ g.source = w.heap[o].source /\ g.mac = w.heap[o].mac
            /\ g.type = w.heap[o].type /\ g.remote = x
        BY <3>1 DEF HostRec
      <3> HIDE DEF g
      <3> QED
        BY <2>3, <3>2, KindSame
    <2> HIDE DEF g
    <2>5. Akin(w, m)
      BY <2>3, <2>4, ChangeOne
    <2> HIDE DEF m
    <2>6. /\ Loose(m) /\ H!Used(m) = H!Used(w) /\ Stays(w, m, a) /\ Merged(m, s - 1)
      BY <2>5, AkinKeeps
    <2>7. /\ m.table = w.table /\ m.heap[m.table[s]].source = "psn"
          /\ m.heap[m.table[k]].source = "lan"
          /\ m.heap[m.table[k]].mac = m.heap[m.table[s]].mac
      <3>1. w.table[s] \in H!Objects /\ w.table[k] \in H!Objects
        BY <2>3, UsedSlots
      <3> QED
        BY <1>3, <2>3, <2>5, <3>1 DEF Akin, o
    <2>8. Safe(m, a) => m.table[s] # a
      BY <2>3, <2>6, <2>7 DEF Safe
    <2>9. /\ Loose(v) /\ H!Used(v) = H!Used(m) \ {s} /\ Stays(m, v, a)
          /\ \A t \in H!Used(v) :
                v.table[t] = m.table[t] /\ v.heap[v.table[t]] = m.heap[m.table[t]]
      <3> DEFINE gone == {s}
      <3>1. /\ gone \in SUBSET H!Used(m) /\ v = H!Release(m, gone)
            /\ \A t \in gone : m.heap[m.table[t]].source \in {"lan", "psn"}
            /\ Safe(m, a) => \A t \in gone : m.table[t] # a
            /\ H!Used(m) \ gone = H!Used(m) \ {s}
        BY <2>1, <2>3, <2>6, <2>7, <2>8
      <3> HIDE DEF gone
      <3> QED
        BY <2>6, <3>1, GoneKeeps
    <2>10. Merged(v, s)
      <3> SUFFICES ASSUME NEW t \in H!Used(v), NEW u \in H!Used(v), u <= s,
                          v.heap[v.table[u]].source = "psn", v.heap[v.table[t]].source = "lan"
                   PROVE  v.heap[v.table[t]].mac # v.heap[v.table[u]].mac
        BY DEF Merged
      <3>1. u <= s - 1 /\ u \in H!Used(m) /\ t \in H!Used(m)
        BY <1>0, <2>6, <2>9
      <3> QED
        BY <2>6, <2>9, <3>1 DEF Merged
    <2> QED
      BY <2>6, <2>9, <2>10, StaysOn
  <1> QED
    BY <1>2, <1>3

\* After the loop no device is left that has been found as well.
LEMMA MergeKeeps ==
    ASSUME NEW w, Loose(w), NEW a, NEW v, v = H!Merge(w)
    PROVE  Loose(v) /\ Merged(v, Slots) /\ Stays(w, v, a)
  <1>1. PICK f : IsMerging(f, w, Slots) /\ v = f[Slots]
    BY MergeDef
  <1> DEFINE S == {i \in 0 .. Slots : Loose(f[i]) /\ Merged(f[i], i) /\ Stays(w, f[i], a)}
  <1>2. 0 \in 0 .. Slots /\ Slots \in 0 .. Slots
    BY HostConstants
  <1>3. f[0] = w
    BY <1>1, <1>2 DEF IsMerging
  <1>4. ASSUME NEW i \in 0 .. Slots - 1, i \in S
        PROVE  i + 1 \in S
    <2> DEFINE j == i + 1
    <2>1. j \in 1 .. Slots /\ j \in 0 .. Slots /\ j - 1 = i /\ j # 0
      BY HostConstants
    <2>2. f[j] = H!MergeOne(f[i], j)
      BY <1>1, <2>1 DEF IsMerging
    <2>3. Loose(f[i]) /\ Merged(f[i], j - 1) /\ Stays(w, f[i], a)
      BY <1>4, <2>1
    <2> HIDE DEF j
    <2>4. Loose(f[j]) /\ Merged(f[j], j) /\ Stays(f[i], f[j], a)
      BY <2>1, <2>2, <2>3, MergeOneKeeps
    <2>5. Stays(w, f[j], a)
      BY <2>3, <2>4, StaysOn
    <2> QED
      BY <2>1, <2>4, <2>5 DEF j
  <1>5. 0 \in S
    <2>1. Merged(w, 0)
      BY UsedSlots DEF Merged
    <2> QED
      BY <1>2, <1>3, <2>1 DEF Stays
  <1>6. S \in SUBSET Nat /\ Slots \in Nat
    BY HostConstants
  <1>7. Slots \in S
    <2> HIDE DEF S
    <2> QED
      BY <1>2, <1>4, <1>5, <1>6, Sub!Induction
  <1> QED
    BY <1>1, <1>7

\* Then what was found has one slot.
LEMMA MergedIsSole ==
    ASSUME Settled, NEW w, Loose(w), Merged(w, Slots)
    PROVE  Sole(w)
  <1> SUFFICES ASSUME NEW s \in H!Used(w), NEW t \in H!Used(w),
                      w.heap[w.table[s]].source = "lan",
                      w.heap[w.table[s]].mac = w.heap[w.table[t]].mac
               PROVE  s = t
    BY DEF Sole
  <1>1. /\ t \in 1 .. Slots /\ Kind(w.table[s], w.heap[w.table[s]])
        /\ Kind(w.table[t], w.heap[w.table[t]]) /\ w.heap[w.table[t]].source # "none"
    BY UsedSlots DEF Loose
  <1>2. w.heap[w.table[t]].source # "manual"
    BY <1>1 DEF Kind, Settled
  <1>3. w.heap[w.table[t]].source # "psn"
    <2>1. t <= Slots
      BY <1>1, HostConstants
    <2> QED
      BY <2>1 DEF Merged
  <1>4. w.heap[w.table[t]].source = "lan"
    BY <1>1, <1>2, <1>3 DEF Kind, HostRec
  <1> QED
    BY <1>4 DEF Loose

\* No manual host is hidden by a console that was found.
LEMMA HideNothing ==
    ASSUME Settled, NEW w, Loose(w)
    PROVE  H!Hide(w) = w
  <1>1. \A s \in H!Used(w) : Kind(w.table[s], w.heap[w.table[s]])
    BY UsedSlots
  <1>2. H!Hidden(w) = {}
    <2> SUFFICES ASSUME NEW s \in H!Hidden(w) PROVE FALSE
      OBVIOUS
    <2>1. s \in H!Used(w) /\ "MANUALLY_ADDED" \in w.heap[w.table[s]].type
      BY DEF H!Hidden, H!At, H!Of
    <2>2. w.table[s] \in H!Config /\ w.heap[w.table[s]].mac \in Manual
      BY <1>1, <2>1 DEF Kind
    <2>3. PICK t \in H!Used(w) : /\ "DISCOVERED" \in w.heap[w.table[t]].type
                                 /\ w.heap[w.table[t]].mac = w.heap[w.table[s]].mac
      BY <2>2 DEF H!Hidden, H!At, H!Of
    <2>4. w.heap[w.table[t]].mac \in Home
      BY <1>1, <2>3 DEF Kind
    <2> QED
      BY <2>2, <2>3, <2>4 DEF Settled
  <1>3. w \in Worlds
    BY DEF Loose
  <1> DEFINE tab == [s \in 1 .. Slots |-> IF s \in H!Hidden(w) THEN 0 ELSE w.table[s]]
  <1>4. tab = w.table
    BY <1>2, <1>3 DEF Worlds
  <1>5. H!Hide(w) = [w EXCEPT !.table = tab]
    BY DEF H!Hide
  <1> HIDE DEF tab
  <1> QED
    BY <1>3, <1>4, <1>5 DEF Worlds

\* The gaps are closed, in the order the slots have.
LEMMA CompactKeeps ==
    ASSUME NEW w, Loose(w), Sole(w), NEW a, NEW v, v = H!Compact(w)
    PROVE  Tidy(v) /\ Stays(w, v, a)
  <1> DEFINE K == H!Used(w)
             r == H!Subsequence(w.table, K)
             n == Len(r)
             tab == [s \in 1 .. Slots |-> IF s <= n THEN r[s] ELSE 0]
  <1>1. /\ w \in Worlds /\ w.table \in [1 .. Slots -> {0} \cup H!Objects]
        /\ Slots \in Nat /\ K \in SUBSET (1 .. Slots) /\ 0 \notin H!Objects
    BY HostConstants DEF Loose, Worlds, H!Used
  <1>2. w.table \in Seq({0} \cup H!Objects) /\ Len(w.table) = Slots
    BY <1>1
  <1>3. r = Sub!Subsequence(w.table, K)
    BY DEF H!Subsequence, H!LeftOf, Sub!Subsequence, Sub!LeftOf
  <1>4. v = [w EXCEPT !.table = tab]
    BY DEF H!Compact
  <1>5. \A s \in K : w.table[s] \in H!Objects
    BY UsedSlots
  <1>6. \A s : s \in K <=> s \in 1 .. Slots /\ w.table[s] # 0
    BY DEF H!Used
  <1> HIDE DEF K
  <1>7. r \in Seq({0} \cup H!Objects) /\ \E m : Sub!Places(m, w.table, K, r)
    BY <1>1, <1>2, <1>3, Sub!SubsequenceIsWhatIsLeft
  <1> HIDE DEF r
  <1>8. PICK m : Sub!Places(m, w.table, K, r)
    BY <1>7
  <1>9. /\ n \in Nat /\ m \in [1 .. n -> K]
        /\ \A i, j \in 1 .. n : i < j => m[i] < m[j]
        /\ \A k \in K : \E j \in 1 .. n : m[j] = k
        /\ \A j \in 1 .. n : r[j] = w.table[m[j]]
    BY <1>7, <1>8 DEF Sub!Places
  <1> HIDE DEF n
  <1>10. \A i \in 1 .. n : /\ m[i] \in K /\ m[i] \in Nat /\ r[i] \in H!Objects
    <2>1. \A k \in K : k \in Nat
      BY <1>1
    <2>2. \A i \in 1 .. n : m[i] \in K
      BY <1>9
    <2> QED
      BY <1>5, <1>9, <2>1, <2>2
  <1>11. \A i, j \in 1 .. n : m[i] = m[j] => i = j
    <2> SUFFICES ASSUME NEW i \in 1 .. n, NEW j \in 1 .. n, m[i] = m[j], i # j PROVE FALSE
      OBVIOUS
    <2>1. m[i] \in Nat /\ m[j] \in Nat
      BY <1>10
    <2>2. i < j \/ j < i
      BY <1>9
    <2> QED
      BY <1>9, <2>1, <2>2
  <1>12. n <= Slots
    <2>1. m \in Injection(1 .. n, 1 .. Slots)
      <3>1. m \in [1 .. n -> 1 .. Slots]
        BY <1>1, <1>9
      <3> QED
        BY <1>11, <3>1 DEF Injection, IsInjective
    <2>2. /\ IsFiniteSet(1 .. Slots) /\ Cardinality(1 .. Slots) = Slots
          /\ Cardinality(1 .. n) = n
      <3>1. 1 \in Int /\ Slots \in Int /\ n \in Int
        BY <1>1, <1>9
      <3>2. /\ Cardinality(1 .. Slots) = IF 1 > Slots THEN 0 ELSE Slots - 1 + 1
            /\ Cardinality(1 .. n) = IF 1 > n THEN 0 ELSE n - 1 + 1
            /\ IsFiniteSet(1 .. Slots)
        BY <3>1, FS_Interval
      <3> QED
        BY <1>1, <1>9, <3>2
    <2>3. Cardinality(1 .. n) <= Cardinality(1 .. Slots)
      BY <2>1, <2>2, FS_Injection
    <2> QED
      BY <2>2, <2>3
  <1>13. /\ tab \in [1 .. Slots -> {0} \cup H!Objects]
         /\ \A s \in 1 .. n : tab[s] = w.table[m[s]]
         /\ \A s \in 1 .. Slots : s \notin 1 .. n => tab[s] = 0
    <2>1. ASSUME NEW s \in 1 .. Slots
          PROVE  /\ (IF s <= n THEN r[s] ELSE 0) \in {0} \cup H!Objects
                 /\ s \in 1 .. n <=> s <= n
      <3>1. s \in 1 .. n <=> s <= n
        BY <1>1, <1>9
      <3> QED
        BY <1>10, <3>1
    <2>2. \A s \in 1 .. n : s \in 1 .. Slots
      BY <1>1, <1>9, <1>12
    <2> QED
      BY <1>9, <2>1, <2>2
  <1> HIDE DEF tab
  <1>14. v \in Worlds /\ v.table = tab /\ v.heap = w.heap
    BY <1>1, <1>4, <1>13 DEF Worlds
  <1>15. H!Used(v) = 1 .. n
    <2>1. ASSUME NEW s \in 1 .. n
          PROVE  s \in 1 .. Slots /\ tab[s] # 0
      <3>1. s \in 1 .. Slots
        BY <1>1, <1>9, <1>12
      <3>2. tab[s] = r[s] /\ r[s] \in H!Objects
        BY <1>9, <1>10, <1>13
      <3> QED
        BY <1>1, <3>1, <3>2
    <2> QED
      BY <1>13, <1>14, <2>1 DEF H!Used
  <1>16. \A s \in H!Used(v) : /\ m[s] \in H!Used(w) /\ v.table[s] = w.table[m[s]]
                              /\ v.heap[v.table[s]] = w.heap[w.table[m[s]]]
    BY <1>9, <1>13, <1>14, <1>15 DEF K
  <1>17. Loose(v)
    <2>1. \A o \in H!Objects : Kind(o, v.heap[o])
      BY <1>14 DEF Loose
    <2>2. \A s \in H!Used(v) : v.heap[v.table[s]].source # "none"
      BY <1>16 DEF Loose
    <2>3. \A s, t \in H!Used(v) : s # t => v.table[s] # v.table[t]
      BY <1>11, <1>15, <1>16 DEF Loose
    <2>4. ASSUME NEW o \in H!Objects, v.heap[o].source \in {"lan", "psn"}
          PROVE  \E s \in H!Used(v) : v.table[s] = o
      <3>1. PICK k \in H!Used(w) : w.table[k] = o
        BY <1>14, <2>4 DEF Loose
      <3>2. PICK j \in 1 .. n : m[j] = k
        BY <1>9, <3>1 DEF K
      <3> QED
        BY <1>15, <1>16, <3>1, <3>2
    <2>5. \A s, t \in H!Used(v) :
             /\ v.heap[v.table[s]].source = "lan" /\ v.heap[v.table[t]].source = "lan"
             /\ v.heap[v.table[s]].mac = v.heap[v.table[t]].mac
             => s = t
      <3>1. \A s, t \in H!Used(v) :
               /\ v.heap[v.table[s]].source = "lan" /\ v.heap[v.table[t]].source = "lan"
               /\ v.heap[v.table[s]].mac = v.heap[v.table[t]].mac
               => m[s] = m[t]
        BY <1>16 DEF Loose
      <3> QED
        BY <1>11, <1>15, <3>1
    <2> QED
      BY <1>14, <2>1, <2>2, <2>3, <2>4, <2>5 DEF Loose
  <1>18. Sole(v)
    <2>1. \A s, t \in H!Used(v) :
             /\ v.heap[v.table[s]].source = "lan"
             /\ v.heap[v.table[s]].mac = v.heap[v.table[t]].mac
             => m[s] = m[t]
      BY <1>16 DEF Sole
    <2> QED
      BY <1>11, <1>15, <2>1 DEF Sole
  <1>19. Packed(v)
    BY <1>9, <1>15 DEF Packed
  <1>20. Stays(w, v, a)
    BY <1>14, <1>16 DEF Stays, Safe
  <1> QED
    BY <1>17, <1>18, <1>19, <1>20 DEF Tidy

\* A manual host that is not shown takes the first empty slot.
LEMMA AddManualKeeps ==
    ASSUME Settled, NEW w, Tidy(w), NEW i \in H!Config, NEW a, NEW v, v = H!AddManual(w, i)
    PROVE  Tidy(v) /\ Stays(w, v, a)
  <1>0. /\ Loose(w) /\ Sole(w) /\ Packed(w) /\ w \in Worlds
        /\ i \in H!Objects /\ i # 0 /\ Kind(i, w.heap[i]) /\ w.heap[i].source = "manual"
        /\ w.heap[i].mac \in Manual
    BY HostConstants DEF Tidy, Loose, Kind
  <1>1. CASE H!Shown(w, i) \/ H!Empty(w) = {}
    BY <1>0, <1>1 DEF H!AddManual, Tidy, Stays
  <1>2. CASE ~H!Shown(w, i) /\ H!Empty(w) # {}
    <2> DEFINE k == H!Min(H!Empty(w))
               tab == [w.table EXCEPT ![k] = i]
    <2>1. v = [w EXCEPT !.table = tab]
      BY <1>2 DEF H!AddManual
    <2>2. k \in H!Empty(w) /\ \A y \in H!Empty(w) : k <= y
      <3>1. H!Empty(w) \in SUBSET Nat
        BY HostConstants DEF H!Empty
      <3>2. \E x \in H!Empty(w) : \A y \in H!Empty(w) : x <= y
        BY <1>2, <3>1, Sub!LeastElement
      <3> QED
        BY <3>2 DEF H!Min
    <2> HIDE DEF k
    <2>3. /\ k \in 1 .. Slots /\ k \notin H!Used(w)
          /\ \A y \in 1 .. Slots : y < k => y \in H!Used(w)
          /\ H!Used(w) \subseteq 1 .. Slots
      BY <2>2, HostConstants DEF H!Empty, H!Used
    <2>4. /\ tab \in [1 .. Slots -> {0} \cup H!Objects] /\ tab[k] = i
          /\ \A t \in 1 .. Slots : t # k => tab[t] = w.table[t]
      BY <1>0, <2>3 DEF Worlds
    <2> HIDE DEF tab
    <2>5. v \in Worlds /\ v.table = tab /\ v.heap = w.heap
      BY <1>0, <2>1, <2>4 DEF Worlds
    <2>6. H!Used(v) = H!Used(w) \cup {k}
      BY <1>0, <2>3, <2>4, <2>5 DEF H!Used
    <2>7. \A t \in H!Used(w) : /\ t # k /\ v.table[t] = w.table[t] /\ w.table[t] # i
                               /\ v.heap[v.table[t]] = w.heap[w.table[t]]
      <3> TAKE t \in H!Used(w)
      <3>1. t # k /\ v.table[t] = w.table[t]
        BY <2>3, <2>4, <2>5
      <3>2. w.table[t] # i
        BY <1>0, <1>2 DEF H!Shown, H!At, Kind
      <3> QED
        BY <2>5, <3>1, <3>2
    <2>8. v.table[k] = i /\ v.heap[v.table[k]] = w.heap[i]
      BY <2>4, <2>5
    <2>9. Loose(v)
      <3>1. \A o \in H!Objects : Kind(o, v.heap[o])
        BY <1>0, <2>5 DEF Loose
      <3>2. \A t \in H!Used(v) : v.heap[v.table[t]].source # "none"
        BY <1>0, <2>6, <2>7, <2>8 DEF Loose
      <3>3. \A t, u \in H!Used(v) : t # u => v.table[t] # v.table[u]
        BY <1>0, <2>6, <2>7, <2>8 DEF Loose
      <3>4. \A o \in H!Objects :
               v.heap[o].source \in {"lan", "psn"} => \E t \in H!Used(v) : v.table[t] = o
        BY <1>0, <2>5, <2>6, <2>7 DEF Loose
      <3>5. \A t, u \in H!Used(v) :
               /\ v.heap[v.table[t]].source = "lan" /\ v.heap[v.table[u]].source = "lan"
               /\ v.heap[v.table[t]].mac = v.heap[v.table[u]].mac
               => t = u
        BY <1>0, <2>6, <2>7, <2>8 DEF Loose
      <3> QED
        BY <2>5, <3>1, <3>2, <3>3, <3>4, <3>5 DEF Loose
    <2>10. Sole(v)
      <3> SUFFICES ASSUME NEW t \in H!Used(v), NEW u \in H!Used(v),
                          v.heap[v.table[t]].source = "lan",
                          v.heap[v.table[t]].mac = v.heap[v.table[u]].mac
                   PROVE  t = u
        BY DEF Sole
      <3>1. t \in H!Used(w)
        BY <1>0, <2>6, <2>8
      <3>2. v.heap[v.table[t]].mac \in Home
        BY <2>9, UsedSlots DEF Kind
      <3>3. u # k
        BY <1>0, <2>8, <3>2 DEF Settled
      <3> QED
        BY <1>0, <2>6, <2>7, <3>1, <3>3 DEF Sole
    <2>11. Packed(v)
      <3> SUFFICES ASSUME NEW t \in H!Used(v), NEW u \in 1 .. Slots, u < t
                   PROVE  u \in H!Used(v)
        BY DEF Packed
      <3>1. CASE t = k
        BY <2>3, <2>6, <3>1
      <3>2. CASE t # k
        BY <1>0, <2>6, <3>2 DEF Packed
      <3> QED
        BY <3>1, <3>2
    <2>12. Stays(w, v, a)
      BY <1>0, <2>5, <2>6, <2>7, <2>8 DEF Stays, Safe
    <2> QED
      BY <2>9, <2>10, <2>11, <2>12 DEF Tidy
  <1> QED
    BY <1>1, <1>2

\* So do all of them.
LEMMA AddManualsKeep ==
    ASSUME Settled, NEW w, Tidy(w), NEW a, NEW v, v = H!AddManuals(w)
    PROVE  Tidy(v) /\ Stays(w, v, a)
  <1> DEFINE n == Cardinality(Manual)
  <1>1. PICK f : IsAdding(f, w, n) /\ v = f[n]
    BY AddManualsDef
  <1> DEFINE S == {i \in 0 .. n : Tidy(f[i]) /\ Stays(w, f[i], a)}
  <1>2. 0 \in 0 .. n /\ n \in 0 .. n /\ n \in Nat /\ H!Config = 1 .. n
    BY HostConstants
  <1> HIDE DEF n
  <1>3. f[0] = w
    BY <1>1, <1>2 DEF IsAdding
  <1>4. ASSUME NEW i \in 0 .. n - 1, i \in S
        PROVE  i + 1 \in S
    <2> DEFINE j == i + 1
    <2>1. j \in H!Config /\ j \in 0 .. n /\ j - 1 = i /\ j # 0
      BY <1>2
    <2>2. f[j] = H!AddManual(f[i], j)
      BY <1>1, <2>1 DEF IsAdding
    <2> HIDE DEF j
    <2>3. Tidy(f[j]) /\ Stays(f[i], f[j], a)
      BY <1>4, <2>1, <2>2, AddManualKeeps
    <2>4. Stays(w, f[j], a)
      BY <1>4, <2>3, StaysOn
    <2> QED
      BY <2>1, <2>3, <2>4 DEF j
  <1>5. 0 \in S
    BY <1>2, <1>3 DEF Stays
  <1>6. S \in SUBSET Nat
    BY <1>2
  <1>7. n \in S
    <2> HIDE DEF S
    <2> QED
      BY <1>2, <1>4, <1>5, <1>6, Sub!Induction
  <1> QED
    BY <1>1, <1>7

\* update_context_hosts makes the table sound, and keeps what no merge frees.
LEMMA UpdateKeeps ==
    ASSUME Settled, NEW w, Loose(w), NEW a, NEW v, v = H!Update(w)
    PROVE  Tidy(v) /\ Stays(w, v, a)
  <1> DEFINE m == H!Merge(w)
             p == H!Compact(m)
  <1>1. v = H!AddManuals(p)
    BY HideNothing DEF H!Update
  <1>2. Loose(m) /\ Sole(m) /\ Stays(w, m, a)
    BY MergeKeeps, MergedIsSole
  <1> HIDE DEF m
  <1>3. Tidy(p) /\ Stays(m, p, a)
    BY <1>2, CompactKeeps
  <1> HIDE DEF p
  <1>4. Tidy(v) /\ Stays(p, v, a)
    BY <1>1, <1>3, AddManualsKeep
  <1> QED
    BY <1>2, <1>3, <1>4, StaysOn

\* A console that answers is refreshed, or takes an empty slot.
LEMMA SaveKeeps ==
    ASSUME Settled, NEW w, Loose(w), NEW c \in Home, NEW a,
           Safe(w, a) /\ w.heap[a].source = "psn" => w.heap[a].mac # c,
           NEW v, v = H!Save(w, c)
    PROVE  Loose(v) /\ Stays(w, v, a)
  <1>0. \A t \in H!Used(w) : t \in 1 .. Slots /\ Kind(w.table[t], w.heap[w.table[t]])
    BY UsedSlots
  <1>1. \A t : t \in H!Seen(w, c) <=>
                  /\ t \in H!Used(w) /\ w.heap[w.table[t]].source = "lan"
                  /\ w.heap[w.table[t]].mac = c
    BY <1>0 DEF H!Seen, H!At, H!Of, Kind
  <1>2. H!Targets(w, c) = H!Empty(w)
    <2>1. \A t \in H!Used(w) :
             ~("MANUALLY_ADDED" \in w.heap[w.table[t]].type /\ w.heap[w.table[t]].mac = c)
      BY <1>0 DEF Kind, Settled
    <2> QED
      BY <2>1 DEF H!Targets, H!At, H!Of
  <1>3. CASE H!Seen(w, c) # {}
    <2> DEFINE k == H!Min(H!Seen(w, c))
               o == w.table[k]
               g == [w.heap[o] EXCEPT !.age = 0]
    <2>1. v = [w EXCEPT !.heap[o] = g]
      BY <1>3 DEF H!Save
    <2>2. k \in H!Seen(w, c)
      <3>1. H!Seen(w, c) \in SUBSET Nat
        BY <1>0, <1>1
      <3> QED
        BY <1>3, <3>1, LeastOf
    <2> HIDE DEF k
    <2>3. o \in H!Objects /\ Kind(o, w.heap[o]) /\ w.heap[o].source = "lan"
      BY <1>1, <2>2, UsedSlots
    <2> HIDE DEF o
    <2>4. Kind(o, g) /\ g.source = w.heap[o].source /\ g.mac = w.heap[o].mac
      <3>1. w.heap[o] \in HostRec
        BY <2>3 DEF Kind
      <3>2. /\ g \in HostRec /\ g.source = w.heap[o].source /\ g.mac = w.heap[o].mac
            /\ g.type = w.heap[o].type /\ g.remote = w.heap[o].remote
        BY <3>1 DEF HostRec
      <3>3. w.heap[o].remote \in {0, w.heap[o].mac}
        BY <2>3 DEF Kind
      <3> HIDE DEF g
      <3> QED
        BY <2>3, <3>2, <3>3, KindSame
    <2> HIDE DEF g
    <2>5. Akin(w, v)
      BY <2>1, <2>3, <2>4, ChangeOne
    <2> QED
      BY <2>5, AkinKeeps
  <1>4. CASE H!Seen(w, c) = {} /\ H!Empty(w) = {}
    BY <1>2, <1>4 DEF H!Save, Stays
  <1>5. CASE H!Seen(w, c) = {} /\ H!Empty(w) # {}
    <2> DEFINE s == H!Min(H!Empty(w))
               known == IF c \in Registered THEN {"REGISTERED"} ELSE {}
               h == [mac |-> c, type |-> {"DISCOVERED"} \cup known, source |-> "lan",
                     remote |-> 0, age |-> 0]
               m == H!Put(w, s, h)
    <2>1. s \in H!Empty(w) /\ w.table[s] = 0
      <3>1. H!Empty(w) \in SUBSET Nat
        BY HostConstants DEF H!Empty
      <3>2. s \in H!Empty(w)
        BY <1>5, <3>1, LeastOf
      <3> QED
        BY <3>2 DEF H!Empty
    <2>2. v = H!Update(m)
      BY <1>2, <1>5, <2>1 DEF H!Save
    <2>3. /\ h.source = "lan" /\ h.mac = c
          /\ \A o \in H!Objects \ H!Config : Kind(o, h)
      <3>1. c \in Nat /\ c \in Home
        BY HostConstants
      <3>2. known \in SUBSET {"REGISTERED"}
        OBVIOUS
      <3> HIDE DEF known
      <3>3. h \in HostRec
        BY <3>1, <3>2 DEF HostRec, H!Types
      <3>4. /\ h.source = "lan" /\ h.mac = c /\ h.remote = 0 /\ "DISCOVERED" \in h.type
            /\ "MANUALLY_ADDED" \notin h.type /\ h # H!Free
        BY <3>2 DEF H!Free
      <3> HIDE DEF h
      <3> QED
        BY <3>1, <3>3, <3>4 DEF Kind
    <2> HIDE DEF h, s
    <2>4. \A t \in H!Used(w) : w.heap[w.table[t]].source = "lan"
                                  => w.heap[w.table[t]].mac # h.mac
      BY <1>1, <1>5, <2>3
    <2>5. Loose(m) /\ Stays(w, m, a)
      BY <2>1, <2>3, <2>4, PutKeeps
    <2> HIDE DEF m
    <2>6. Tidy(v) /\ Stays(m, v, a)
      BY <2>2, <2>5, UpdateKeeps
    <2> QED
      BY <2>5, <2>6, StaysOn DEF Tidy
  <1> QED
    BY <1>3, <1>4, <1>5

\* So are all that the service reports.
LEMMA SaveAllKeeps ==
    ASSUME Settled, NEW w, Loose(w), NEW list \in Seq(Home), NEW a,
           \A i \in 1 .. Len(list) :
               Safe(w, a) /\ w.heap[a].source = "psn" => w.heap[a].mac # list[i],
           NEW v, v = H!SaveAll(w, list)
    PROVE  Loose(v) /\ Stays(w, v, a)
  <1> DEFINE n == Len(list)
  <1>1. n \in Nat /\ 0 \in 0 .. n /\ n \in 0 .. n /\ \A i \in 1 .. n : list[i] \in Home
    OBVIOUS
  <1>2. PICK f : IsSaving(f, w, list, n) /\ v = f[n]
    BY <1>1, SaveAllDef
  <1> DEFINE S == {i \in 0 .. n : Loose(f[i]) /\ Stays(w, f[i], a)}
  <1> HIDE DEF n
  <1>3. f[0] = w
    BY <1>1, <1>2 DEF IsSaving
  <1>4. ASSUME NEW i \in 0 .. n - 1, i \in S
        PROVE  i + 1 \in S
    <2> DEFINE j == i + 1
    <2>1. j \in 1 .. n /\ j \in 0 .. n /\ j - 1 = i /\ j # 0
      BY <1>1
    <2>2. f[j] = H!Save(f[i], list[j])
      BY <1>2, <2>1 DEF IsSaving
    <2> HIDE DEF j
    <2>3. CASE Safe(w, a)
      <3>1. f[i].heap[a].source = w.heap[a].source /\ f[i].heap[a].mac = w.heap[a].mac
        BY <1>4, <2>3 DEF Stays
      <3>2. Safe(f[i], a) /\ f[i].heap[a].source = "psn" => f[i].heap[a].mac # list[j]
        BY <2>1, <2>3, <3>1 DEF n
      <3>3. Loose(f[j]) /\ Stays(f[i], f[j], a)
        BY <1>1, <1>4, <2>1, <2>2, <3>2, SaveKeeps
      <3>4. Stays(w, f[j], a)
        BY <1>4, <3>3, StaysOn
      <3> QED
        BY <2>1, <3>3, <3>4 DEF j
    <2>4. CASE ~Safe(w, a)
      <3>1. Safe(f[i], 0) => FALSE
        BY HostConstants DEF Safe
      <3>2. Loose(f[j])
        BY <1>1, <1>4, <2>1, <2>2, <3>1, SaveKeeps
      <3> QED
        BY <2>1, <2>4, <3>2 DEF j, Stays
    <2> QED
      BY <2>3, <2>4
  <1>5. 0 \in S
    BY <1>1, <1>3 DEF Stays
  <1>6. S \in SUBSET Nat
    BY <1>1
  <1>7. n \in S
    <2> HIDE DEF S
    <2> QED
      BY <1>1, <1>4, <1>5, <1>6, Sub!Induction
  <1> QED
    BY <1>2, <1>7

\* What has not been seen for long is freed, but not what is used.
LEMMA RemoveLostKeeps ==
    ASSUME Settled, NEW w, Loose(w), NEW v, v = H!RemoveLost(w)
    PROVE  Tidy(v) /\ Stays(w, v, activeHost)
  <1> DEFINE gone == {s \in H!Used(w) : /\ H!Of("DISCOVERED", H!At(w, s))
                                        /\ w.table[s] # activeHost
                                        /\ H!At(w, s).age >= Grace}
             m == H!Release(w, gone)
  <1>1. v = H!Update(m)
    BY DEF H!RemoveLost
  <1>2. /\ gone \in SUBSET H!Used(w)
        /\ \A s \in gone : w.heap[w.table[s]].source \in {"lan", "psn"}
        /\ Safe(w, activeHost) => \A s \in gone : w.table[s] # activeHost
    BY UsedSlots DEF H!Of, H!At, Kind
  <1> HIDE DEF gone
  <1>3. Loose(m) /\ Stays(w, m, activeHost)
    BY <1>2, GoneKeeps
  <1> HIDE DEF m
  <1>4. Tidy(v) /\ Stays(m, v, activeHost)
    BY <1>1, <1>3, UpdateKeeps
  <1> QED
    BY <1>3, <1>4, StaysOn

\* The callback of the discovery.
LEMMA CbKeeps ==
    ASSUME Settled, NEW w, Loose(w), NEW list \in Seq(Home),
           \A i \in 1 .. Len(list) :
               Safe(w, activeHost) /\ w.heap[activeHost].source = "psn"
               => w.heap[activeHost].mac # list[i],
           NEW v, v = H!Cb(w, list)
    PROVE  Tidy(v) /\ Stays(w, v, activeHost)
  <1> DEFINE m == H!SaveAll(w, list)
  <1>1. v = H!RemoveLost(m)
    BY DEF H!Cb
  <1>2. Loose(m) /\ Stays(w, m, activeHost)
    BY SaveAllKeeps
  <1> HIDE DEF m
  <1>3. Tidy(v) /\ Stays(m, v, activeHost)
    BY <1>1, <1>2, RemoveLostKeeps
  <1> QED
    BY <1>2, <1>3, StaysOn

\* Consoles that were found grow older, and devices behind consoles are forgotten.
LEMMA ChangeAll ==
    ASSUME NEW w, Loose(w), NEW heaps, heaps = [o \in H!Objects |-> heaps[o]],
           \A o \in H!Objects :
              \/ heaps[o] = w.heap[o]
              \/ /\ w.heap[o].source = "lan"
                 /\ \E n \in Nat : heaps[o] = [w.heap[o] EXCEPT !.age = n]
              \/ /\ w.heap[o].source \in {"lan", "manual"}
                 /\ heaps[o] = [w.heap[o] EXCEPT !.remote = 0],
           NEW v, v = [w EXCEPT !.heap = heaps]
    PROVE  Akin(w, v) /\ v.heap = heaps
  <1>1. w \in Worlds /\ \A o \in H!Objects : Kind(o, w.heap[o]) /\ w.heap[o] \in HostRec
    BY DEF Loose, Kind
  <1>2. ASSUME NEW o \in H!Objects
        PROVE  /\ Kind(o, heaps[o]) /\ heaps[o] \in HostRec
               /\ heaps[o].source = w.heap[o].source /\ heaps[o].mac = w.heap[o].mac
    <2> DEFINE h == w.heap[o]
               g == heaps[o]
    <2>1. h \in HostRec /\ Kind(o, h)
      BY <1>1
    <2>2. \/ g = h
          \/ h.source = "lan" /\ \E n \in Nat : g = [h EXCEPT !.age = n]
          \/ h.source \in {"lan", "manual"} /\ g = [h EXCEPT !.remote = 0]
      OBVIOUS
    <2> HIDE DEF h, g
    <2>3. CASE g = h
      BY <2>1, <2>3 DEF h, g
    <2>4. CASE h.source = "lan" /\ \E n \in Nat : g = [h EXCEPT !.age = n]
      <3>1. PICK n \in Nat : g = [h EXCEPT !.age = n]
        BY <2>4
      <3>2. /\ g \in HostRec /\ g.source = h.source /\ g.type = h.type /\ g.mac = h.mac
            /\ g.remote = h.remote
        BY <2>1, <3>1 DEF HostRec
      <3>3. h.remote \in {0, h.mac}
        BY <2>1 DEF Kind
      <3>4. Kind(o, g)
        BY <2>1, <2>4, <3>2, <3>3, KindSame
      <3> QED
        BY <3>2, <3>4 DEF h, g
    <2>5. CASE h.source \in {"lan", "manual"} /\ g = [h EXCEPT !.remote = 0]
      <3>1. /\ g \in HostRec /\ g.source = h.source /\ g.type = h.type /\ g.mac = h.mac
            /\ g.remote = 0
        BY <2>1, <2>5 DEF HostRec
      <3>2. h.source # "none" /\ g.source # "psn" /\ h.source # "psn"
        BY <2>5, <3>1
      <3>3. Kind(o, g)
        BY <2>1, <3>1, <3>2, KindSame
      <3> QED
        BY <3>1, <3>3 DEF h, g
    <2> QED
      BY <2>2, <2>3, <2>4, <2>5
  <1>3. heaps \in [H!Objects -> HostRec]
    BY <1>2
  <1>4. v \in Worlds /\ v.table = w.table /\ v.heap = heaps
    BY <1>1, <1>3 DEF Worlds
  <1> QED
    BY <1>2, <1>4 DEF Akin

\* A ping makes them older ...
LEMMA OlderIsAkin ==
    ASSUME NEW w, Loose(w)
    PROVE  Akin(w, H!Older(w))
  <1> DEFINE Aged(h) == H!Of("DISCOVERED", h) /\ h.age < Grace
             heaps == [o \in H!Objects |-> IF Aged(w.heap[o])
                                             THEN [w.heap[o] EXCEPT !.age = w.heap[o].age + 1]
                                             ELSE w.heap[o]]
  <1>1. H!Older(w) = [w EXCEPT !.heap = heaps]
    BY DEF H!Older
  <1>2. ASSUME NEW o \in H!Objects
        PROVE  \/ heaps[o] = w.heap[o]
               \/ /\ w.heap[o].source = "lan"
                  /\ \E n \in Nat : heaps[o] = [w.heap[o] EXCEPT !.age = n]
    <2>1. Kind(o, w.heap[o]) /\ w.heap[o].age \in Nat
      BY DEF Loose, Kind, HostRec
    <2>2. CASE Aged(w.heap[o])
      <3>1. w.heap[o].source = "lan"
        BY <2>1, <2>2 DEF Kind, H!Of
      <3>2. heaps[o] = [w.heap[o] EXCEPT !.age = w.heap[o].age + 1]
        BY <2>2
      <3>3. w.heap[o].age + 1 \in Nat
        BY <2>1
      <3> HIDE DEF heaps
      <3> QED
        BY <3>1, <3>2, <3>3
    <2>3. CASE ~Aged(w.heap[o])
      BY <2>3
    <2> QED
      BY <2>2, <2>3
  <1>3. heaps = [o \in H!Objects |-> heaps[o]]
    OBVIOUS
  <1> HIDE DEF heaps
  <1> QED
    BY <1>1, <1>2, <1>3, ChangeAll

\* ... and so does a time without pings.
LEMMA LateIsAkin ==
    ASSUME NEW w, Loose(w), NEW v,
           v = [w EXCEPT !.heap = [o \in H!Objects |-> IF H!Of("DISCOVERED", @[o])
                                      THEN [@[o] EXCEPT !.age = Grace] ELSE @[o]]]
    PROVE  Akin(w, v)
  <1> DEFINE heaps == [o \in H!Objects |-> IF H!Of("DISCOVERED", w.heap[o])
                                             THEN [w.heap[o] EXCEPT !.age = Grace]
                                             ELSE w.heap[o]]
  <1>1. v = [w EXCEPT !.heap = heaps]
    OBVIOUS
  <1>2. ASSUME NEW o \in H!Objects
        PROVE  \/ heaps[o] = w.heap[o]
               \/ /\ w.heap[o].source = "lan"
                  /\ \E n \in Nat : heaps[o] = [w.heap[o] EXCEPT !.age = n]
    <2>1. CASE H!Of("DISCOVERED", w.heap[o])
      <3>1. w.heap[o].source = "lan"
        BY <2>1 DEF Loose, Kind, H!Of
      <3>2. heaps[o] = [w.heap[o] EXCEPT !.age = Grace]
        BY <2>1
      <3> HIDE DEF heaps
      <3> QED
        BY <3>1, <3>2, HostConstants
    <2>2. CASE ~H!Of("DISCOVERED", w.heap[o])
      BY <2>2
    <2> QED
      BY <2>1, <2>2
  <1>3. heaps = [o \in H!Objects |-> heaps[o]]
    OBVIOUS
  <1> HIDE DEF heaps
  <1> QED
    BY <1>1, <1>2, <1>3, ChangeAll

\* remove_existing_psn_hosts.
LEMMA WithoutPsnKeeps ==
    ASSUME NEW w, Loose(w)
    PROVE  Loose(H!WithoutPsn(w))
  <1> DEFINE Untouched(o) == w.heap[o].source = "psn" \/ \A s \in H!Used(w) : w.table[s] # o
             heaps == [o \in H!Objects |-> IF Untouched(o)
                                               THEN w.heap[o] ELSE [w.heap[o] EXCEPT !.remote = 0]]
             m == [w EXCEPT !.heap = heaps]
             gone == {s \in H!Used(w) : H!At(w, s).source = "psn"}
             v == H!Release(m, gone)
  <1>1. H!WithoutPsn(w) = v
    BY DEF H!WithoutPsn
  <1>2. ASSUME NEW o \in H!Objects
        PROVE  \/ heaps[o] = w.heap[o]
               \/ /\ w.heap[o].source \in {"lan", "manual"}
                  /\ heaps[o] = [w.heap[o] EXCEPT !.remote = 0]
    <2>1. CASE Untouched(o)
      BY <2>1
    <2>2. CASE ~Untouched(o)
      <3>1. heaps[o] = [w.heap[o] EXCEPT !.remote = 0]
        BY <2>2
      <3>2. w.heap[o].source # "psn" /\ w.heap[o].source # "none" /\ w.heap[o] \in HostRec
        BY <2>2 DEF Loose, Kind
      <3>3. w.heap[o].source \in {"lan", "manual"}
        BY <3>2 DEF HostRec
      <3> QED
        BY <3>1, <3>3
    <2> QED
      BY <2>1, <2>2
  <1>3. heaps = [o \in H!Objects |-> heaps[o]]
    OBVIOUS
  <1> HIDE DEF heaps
  <1>4. Akin(w, m) /\ m.heap = heaps
    BY <1>2, <1>3, ChangeAll
  <1> HIDE DEF m
  <1>5. Loose(m) /\ H!Used(m) = H!Used(w)
    BY <1>4, AkinKeeps
  <1>6. /\ gone \in SUBSET H!Used(m)
        /\ \A s \in gone : m.heap[m.table[s]].source \in {"lan", "psn"}
    <2>1. \A s \in gone : s \in H!Used(w) /\ w.heap[w.table[s]].source = "psn"
      BY DEF H!At
    <2> HIDE DEF gone
    <2> QED
      BY <1>4, <1>5, <2>1, UsedSlots DEF Akin
  <1>7. Safe(m, 0) => FALSE
    BY HostConstants DEF Safe
  <1> HIDE DEF gone, v
  <1>8. Loose(v)
    BY <1>5, <1>6, <1>7, GoneKeeps DEF v
  <1> QED
    BY <1>1, <1>8

\* A device of the account.
LEMMA AddDeviceKeeps ==
    ASSUME Settled, NEW w, Loose(w), NEW d \in Devices
    PROVE  Loose(H!AddDevice(w, d))
  <1> DEFINE s == H!Min(H!Empty(w))
             h == [mac |-> d, type |-> {"REGISTERED"}, source |-> "psn", remote |-> d,
                   age |-> 0]
             v == H!Put(w, s, h)
  <1>1. H!Source(d) = d /\ d \in Nat
    BY HostConstants DEF H!Source, Settled
  <1>2. H!AddDevice(w, d) = IF Registered = {} \/ H!Empty(w) = {} THEN w ELSE v
    BY <1>1 DEF H!AddDevice
  <1>3. CASE H!Empty(w) # {}
    <2>1. s \in H!Empty(w)
      <3>1. H!Empty(w) \in SUBSET Nat
        BY HostConstants DEF H!Empty
      <3> QED
        BY <1>3, <3>1, LeastOf
    <2>2. h.source \in {"lan", "psn"} /\ h.source # "lan"
      OBVIOUS
    <2>3. \A o \in H!Objects \ H!Config : Kind(o, h)
      <3>1. h \in HostRec /\ h # H!Free
        BY <1>1 DEF HostRec, H!Types, H!Free
      <3>2. /\ h.source = "psn" /\ h.mac = d /\ h.remote = d
            /\ "DISCOVERED" \notin h.type /\ "MANUALLY_ADDED" \notin h.type
        OBVIOUS
      <3> HIDE DEF h
      <3> QED
        BY <3>1, <3>2 DEF Kind
    <2> HIDE DEF h, s, v
    <2>4. Loose(v)
      BY <2>1, <2>2, <2>3, PutKeeps DEF v
    <2> QED
      BY <1>2, <2>4
  <1>4. CASE H!Empty(w) = {}
    BY <1>2, <1>4
  <1> QED
    BY <1>3, <1>4

\* All of them.
LEMMA AddDevicesKeep ==
    ASSUME Settled, NEW w, Loose(w), NEW present \in SUBSET Devices
    PROVE  Loose(H!AddDevices(w, present))
  <1> DEFINE n == Cardinality(Consoles)
  <1>1. PICK f : IsListing(f, w, present, n) /\ H!AddDevices(w, present) = f[n]
    BY AddDevicesDef
  <1> DEFINE S == {i \in 0 .. n : Loose(f[i])}
  <1>2. 0 \in 0 .. n /\ n \in 0 .. n /\ n \in Nat
    BY HostConstants
  <1> HIDE DEF n
  <1>3. f[0] = w
    BY <1>1, <1>2 DEF IsListing
  <1>4. ASSUME NEW i \in 0 .. n - 1, i \in S
        PROVE  i + 1 \in S
    <2> DEFINE j == i + 1
    <2>1. j \in 0 .. n /\ j - 1 = i /\ j # 0
      BY <1>2
    <2>2. f[j] = IF j \in present THEN H!AddDevice(f[i], j) ELSE f[i]
      BY <1>1, <2>1 DEF IsListing
    <2> HIDE DEF j
    <2>3. Loose(f[j])
      BY <1>4, <2>2, AddDeviceKeeps
    <2> QED
      BY <2>1, <2>3 DEF j
  <1>5. 0 \in S
    BY <1>2, <1>3
  <1>6. S \in SUBSET Nat
    BY <1>2
  <1>7. n \in S
    <2> HIDE DEF S
    <2> QED
      BY <1>2, <1>4, <1>5, <1>6, Sub!Induction
  <1> QED
    BY <1>1, <1>7

\* The consoles that have answered the service.
HostEntries == [mac : Home, missed : Nat]
Near(list) == {list[i].mac : i \in 1 .. Len(list)}

\* The table is tidy between the handlers; a connection has an object that no merge frees, so
\* that over the Internet its console is not one that answers here.
HostsInv ==
    /\ Tidy(H!World) /\ lan \subseteq Home
    /\ service \in [on : BOOLEAN, hosts : Seq(HostEntries)]
    /\ activeHost # 0 =>
          /\ Safe(H!World, activeHost)
          /\ heap[activeHost].source = "psn" =>
                heap[activeHost].mac \notin lan \cup Near(service.hosts)

\* The next table.
LEMMA BecomesWorld ==
    ASSUME NEW v, v \in Worlds, H!Becomes(v)
    PROVE  H!World' = v
  <1>1. v = [table |-> v.table, heap |-> v.heap]
    BY DEF Worlds
  <1> QED
    BY <1>1 DEF H!Becomes, H!World

\* A handler that leaves the table tidy and what is in use as it is keeps the invariant.
LEMMA HandlerKeeps ==
    ASSUME HostsInv, NEW v, H!Becomes(v), Tidy(v), Stays(H!World, v, activeHost),
           UNCHANGED <<lan, activeHost>>,
           service' \in [on : BOOLEAN, hosts : Seq(HostEntries)],
           Near(service'.hosts) \subseteq lan \cup Near(service.hosts)
    PROVE  HostsInv'
  <1>1. H!World' = v /\ heap' = v.heap
    BY BecomesWorld DEF Tidy, Loose, H!Becomes
  <1>2. Tidy(H!World)'
    BY <1>1 DEF Tidy, Loose, Sole, Packed, Worlds, H!Used, H!Objects
  <1>3. ASSUME activeHost # 0
        PROVE  /\ Safe(H!World, activeHost)'
               /\ heap'[activeHost].source = "psn" =>
                     heap'[activeHost].mac \notin lan \cup Near(service'.hosts)
    <2>1. Safe(H!World, activeHost)
      BY <1>3 DEF HostsInv
    <2>2. /\ Safe(v, activeHost) /\ v.heap[activeHost].source = heap[activeHost].source
          /\ v.heap[activeHost].mac = heap[activeHost].mac
      BY <2>1 DEF Stays, H!World
    <2>3. Safe(H!World, activeHost)'
      BY <1>1, <2>2 DEF Safe, H!Used, H!Objects
    <2> QED
      BY <1>1, <1>3, <2>2, <2>3 DEF HostsInv
  <1> QED
    BY <1>2, <1>3 DEF HostsInv

\* Nothing is in use without a connection.
LEMMA NoneIsSafe ==
    ASSUME NEW w, NEW v, activeHost = 0
    PROVE  Stays(w, v, activeHost)
  BY HostConstants DEF Stays, Safe

\* The service reports consoles.
LEMMA NamesOf ==
    ASSUME NEW list \in Seq(HostEntries)
    PROVE  /\ H!Names(list) \in Seq(Home) /\ Len(H!Names(list)) = Len(list)
           /\ \A i \in 1 .. Len(list) : H!Names(list)[i] = list[i].mac
           /\ H!ToSet(H!Names(list)) = Near(list)
  <1>1. \A i \in 1 .. Len(list) : list[i].mac \in Home
    <2>1. \A i \in 1 .. Len(list) : list[i] \in HostEntries
      OBVIOUS
    <2> QED
      BY <2>1 DEF HostEntries
  <1>2. H!Names(list) = [i \in 1 .. Len(list) |-> list[i].mac] /\ Len(list) \in Nat
    BY DEF H!Names
  <1>3. H!Names(list) \in Seq(Home) /\ Len(H!Names(list)) = Len(list)
    BY <1>1, <1>2
  <1>4. \A i \in 1 .. Len(list) : H!Names(list)[i] = list[i].mac
    BY <1>2
  <1>5. H!ToSet(H!Names(list)) = Near(list)
    BY <1>2, <1>3, <1>4 DEF H!ToSet, Near
  <1> QED
    BY <1>3, <1>4, <1>5

\* A report does not touch a connection over the Internet.
LEMMA HostReportKeeps ==
    ASSUME Settled, HostsInv, NEW w, Akin(H!World, w), NEW list \in Seq(HostEntries),
           Near(list) \subseteq lan \cup Near(service.hosts),
           NEW v, v = H!Cb(w, H!Names(list))
    PROVE  Tidy(v) /\ Stays(H!World, v, activeHost)
  <1>1. Loose(H!World)
    BY DEF HostsInv, Tidy
  <1>2. Loose(w) /\ Stays(H!World, w, activeHost)
    BY <1>1, AkinKeeps
  <1>3. H!Names(list) \in Seq(Home)
    BY NamesOf
  <1>4. ASSUME NEW i \in 1 .. Len(H!Names(list)),
               Safe(w, activeHost), w.heap[activeHost].source = "psn"
        PROVE  w.heap[activeHost].mac # H!Names(list)[i]
    <2>1. activeHost \in H!Objects /\ activeHost # 0
      BY <1>4, HostConstants DEF Safe
    <2>2. /\ heap[activeHost].source = "psn"
          /\ heap[activeHost].mac = w.heap[activeHost].mac
      BY <1>4, <2>1 DEF Akin, H!World
    <2>3. heap[activeHost].mac \notin lan \cup Near(service.hosts)
      BY <2>1, <2>2 DEF HostsInv
    <2>4. H!Names(list)[i] \in Near(list)
      BY <1>4, NamesOf DEF Near
    <2> QED
      BY <2>2, <2>3, <2>4
  <1>5. Tidy(v) /\ Stays(w, v, activeHost)
    BY <1>2, <1>3, <1>4, CbKeeps
  <1> QED
    BY <1>2, <1>5, StaysOn

\* The world as it is.
LEMMA WorldAkin ==
    ASSUME NEW w, Loose(w)
    PROVE  Akin(w, w)
  BY DEF Loose, Akin

\* A ping: the consoles that have not answered for too long are dropped.
LEMMA PingKeeps ==
    ASSUME Settled, HostsInv, H!Ping
    PROVE  HostsInv'
  <1> DEFINE hosts == service.hosts
             missed == [i \in 1 .. Len(hosts) |-> [hosts[i] EXCEPT !.missed = @ + 1]]
             kept == H!Kept(missed)
             w == H!Older(H!World)
             v == IF Len(kept) < Len(missed) THEN H!Cb(w, H!Names(kept)) ELSE w
  <1>1. /\ H!Becomes(v) /\ service' = [service EXCEPT !.hosts = kept]
        /\ UNCHANGED <<lan, activeHost>>
    BY DEF H!Ping
  <1>2. /\ hosts \in Seq(HostEntries) /\ service \in [on : BOOLEAN, hosts : Seq(HostEntries)]
        /\ Loose(H!World) /\ Tidy(H!World)
    BY DEF HostsInv, Tidy
  <1>3. /\ missed \in Seq(HostEntries) /\ Len(missed) = Len(hosts)
        /\ \A i \in 1 .. Len(hosts) : missed[i].mac = hosts[i].mac
    <2>1. \A i \in 1 .. Len(hosts) : hosts[i] \in HostEntries
      BY <1>2
    <2>2. \A i \in 1 .. Len(hosts) : /\ [hosts[i] EXCEPT !.missed = @ + 1] \in HostEntries
                                     /\ [hosts[i] EXCEPT !.missed = @ + 1].mac = hosts[i].mac
      BY <2>1 DEF HostEntries
    <2>3. Len(hosts) \in Nat
      BY <1>2
    <2> QED
      BY <2>2, <2>3
  <1> HIDE DEF missed
  <1>4. kept \in Seq(HostEntries) /\ Near(kept) \subseteq Near(hosts)
    <2> DEFINE K == {i \in 1 .. Len(missed) : missed[i].missed <= DropPings}
    <2>1. K \in SUBSET (1 .. Len(missed)) /\ kept = Sub!Subsequence(missed, K)
      BY DEF H!Kept, H!Subsequence, H!LeftOf, Sub!Subsequence, Sub!LeftOf
    <2> HIDE DEF K, kept
    <2>2. kept \in Seq(HostEntries) /\ \E m : Sub!Places(m, missed, K, kept)
      BY <1>3, <2>1, Sub!SubsequenceIsWhatIsLeft
    <2>3. PICK m : Sub!Places(m, missed, K, kept)
      BY <2>2
    <2>4. \A i \in 1 .. Len(kept) : \E j \in 1 .. Len(missed) : kept[i] = missed[j]
      BY <2>1, <2>3 DEF Sub!Places
    <2>5. Near(kept) \subseteq Near(hosts)
      BY <1>3, <2>4 DEF Near
    <2> QED
      BY <2>2, <2>5
  <1> HIDE DEF kept
  <1>5. Akin(H!World, w)
    BY <1>2, OlderIsAkin
  <1> HIDE DEF w
  <1>6. Tidy(v) /\ Stays(H!World, v, activeHost)
    <2>1. CASE Len(kept) < Len(missed)
      <3>1. v = H!Cb(w, H!Names(kept))
        BY <2>1
      <3> HIDE DEF v
      <3> QED
        BY <1>4, <1>5, <3>1, HostReportKeeps
    <2>2. CASE ~(Len(kept) < Len(missed))
      BY <1>2, <1>5, <2>2, AkinKeeps DEF Tidy
    <2> QED
      BY <2>1, <2>2
  <1> HIDE DEF v
  <1>7. /\ service' \in [on : BOOLEAN, hosts : Seq(HostEntries)]
        /\ Near(service'.hosts) \subseteq lan \cup Near(service.hosts)
    BY <1>1, <1>2, <1>4
  <1> QED
    BY <1>1, <1>6, <1>7, HandlerKeeps

\* A console answers: the pings it has missed are forgotten.
LEMMA AnswerKeeps ==
    ASSUME NEW list \in Seq(HostEntries), NEW i,
           NEW new, new = [list EXCEPT ![i].missed = 0]
    PROVE  new \in Seq(HostEntries) /\ Near(new) = Near(list)
  <1>1. DOMAIN list = 1 .. Len(list) /\ Len(list) \in Nat
    OBVIOUS
  <1>2. \A j \in 1 .. Len(list) : /\ list[j] \in HostEntries
                                  /\ [list[j] EXCEPT !.missed = 0] \in HostEntries
                                  /\ [list[j] EXCEPT !.missed = 0].mac = list[j].mac
    <2>1. \A j \in 1 .. Len(list) : list[j] \in HostEntries
      OBVIOUS
    <2> QED
      BY <2>1 DEF HostEntries
  <1>3. new = [j \in 1 .. Len(list) |-> IF j = i THEN [list[j] EXCEPT !.missed = 0]
                                                 ELSE list[j]]
    BY <1>1
  <1>4. new \in Seq(HostEntries) /\ Len(new) = Len(list)
    <2>1. \A j \in 1 .. Len(list) : new[j] \in HostEntries
      BY <1>2, <1>3
    <2>2. new \in [1 .. Len(list) -> HostEntries]
      BY <1>3, <2>1
    <2> QED
      BY <1>1, <2>2
  <1>5. \A j \in 1 .. Len(list) : new[j].mac = list[j].mac
    BY <1>2, <1>3
  <1> QED
    BY <1>4, <1>5 DEF Near

\* discovery_service_host_received.
LEMMA HostReceivedKeeps ==
    ASSUME Settled, HostsInv, NEW c, H!HostReceived(c)
    PROVE  HostsInv'
  <1> DEFINE hosts == service.hosts
             entry == [mac |-> c, missed |-> 0]
             longer == Append(hosts, entry)
  <1>1. /\ c \in lan /\ c \in Home /\ UNCHANGED <<lan, activeHost>>
        /\ hosts \in Seq(HostEntries) /\ service \in [on : BOOLEAN, hosts : Seq(HostEntries)]
        /\ Loose(H!World) /\ Tidy(H!World)
    BY DEF H!HostReceived, HostsInv, Tidy
  <1>2. \/ /\ service' = [service EXCEPT !.hosts = longer]
           /\ H!Becomes(H!Cb(H!World, H!Names(service'.hosts)))
        \/ /\ \E i : service' = [service EXCEPT !.hosts[i].missed = 0]
           /\ UNCHANGED <<table, heap>> \/ H!Becomes(H!Cb(H!World, H!Names(hosts)))
    BY DEF H!HostReceived
  <1>3. Akin(H!World, H!World)
    BY <1>1, WorldAkin
  <1>4. CASE /\ service' = [service EXCEPT !.hosts = longer]
             /\ H!Becomes(H!Cb(H!World, H!Names(service'.hosts)))
    <2> DEFINE v == H!Cb(H!World, H!Names(longer))
    <2>1. entry \in HostEntries /\ entry.mac = c
      BY <1>1 DEF HostEntries
    <2> HIDE DEF entry
    <2>2. longer \in Seq(HostEntries) /\ Near(longer) \subseteq lan \cup Near(hosts)
      <3>1. longer \in Seq(HostEntries) /\ Len(longer) = Len(hosts) + 1
        BY <1>1, <2>1
      <3>2. \A i \in 1 .. Len(longer) : IF i = Len(longer) THEN longer[i] = entry
                                        ELSE i \in 1 .. Len(hosts) /\ longer[i] = hosts[i]
        BY <1>1, <2>1
      <3> HIDE DEF longer
      <3> QED
        BY <1>1, <2>1, <3>1, <3>2 DEF Near
    <2> HIDE DEF longer
    <2>3. service'.hosts = longer /\ service' \in [on : BOOLEAN, hosts : Seq(HostEntries)]
      BY <1>1, <1>4, <2>2
    <2>4. Tidy(v) /\ Stays(H!World, v, activeHost)
      <3> HIDE DEF v
      <3> QED
        BY <1>3, <2>2, HostReportKeeps DEF v
    <2>5. H!Becomes(v)
      BY <1>4, <2>3
    <2> HIDE DEF v
    <2> QED
      BY <1>1, <2>2, <2>3, <2>4, <2>5, HandlerKeeps
  <1>5. CASE /\ \E i : service' = [service EXCEPT !.hosts[i].missed = 0]
             /\ UNCHANGED <<table, heap>> \/ H!Becomes(H!Cb(H!World, H!Names(hosts)))
    <2> DEFINE v == H!Cb(H!World, H!Names(hosts))
    <2>1. PICK i : service' = [service EXCEPT !.hosts[i].missed = 0]
      BY <1>5
    <2> DEFINE new == [hosts EXCEPT ![i].missed = 0]
    <2>2. service' = [service EXCEPT !.hosts = new]
      BY <2>1
    <2>3. new \in Seq(HostEntries) /\ Near(new) = Near(hosts)
      <3> HIDE DEF new, hosts
      <3> QED
        BY <1>1, AnswerKeeps DEF new
    <2> HIDE DEF new
    <2>4. service'.hosts = new /\ service' \in [on : BOOLEAN, hosts : Seq(HostEntries)]
      BY <1>1, <2>2, <2>3
    <2>5. \E w : H!Becomes(w) /\ Tidy(w) /\ Stays(H!World, w, activeHost)
      <3>1. CASE UNCHANGED <<table, heap>>
        <4>1. H!Becomes(H!World)
          BY <3>1 DEF H!Becomes, H!World
        <4>2. Stays(H!World, H!World, activeHost)
          BY DEF Stays
        <4> QED
          BY <1>1, <4>1, <4>2
      <3>2. CASE H!Becomes(v)
        <4>1. Near(hosts) \subseteq lan \cup Near(service.hosts)
          OBVIOUS
        <4> HIDE DEF v
        <4>2. Tidy(v) /\ Stays(H!World, v, activeHost)
          BY <1>1, <1>3, <4>1, HostReportKeeps DEF v
        <4> QED
          BY <3>2, <4>2
      <3> QED
        BY <1>5, <3>1, <3>2
    <2> QED
      BY <1>1, <2>3, <2>4, <2>5, HandlerKeeps
  <1> QED
    BY <1>2, <1>4, <1>5

\* The discovery is started or stopped.
LEMMA DiscoveryKeeps ==
    ASSUME Settled, HostsInv, H!StartDiscovery \/ H!StopDiscovery
    PROVE  HostsInv'
  <1> DEFINE v == H!Update(H!World)
  <1>1. /\ H!Becomes(v) /\ UNCHANGED <<lan, activeHost>>
        /\ service' \in {H!Listening, H!Silent}
    BY DEF H!StartDiscovery, H!StopDiscovery
  <1>2. Loose(H!World)
    BY DEF HostsInv, Tidy
  <1>3. Tidy(v) /\ Stays(H!World, v, activeHost)
    <2> HIDE DEF v
    <2> QED
      BY <1>2, UpdateKeeps DEF v
  <1> HIDE DEF v
  <1>4. /\ service' \in [on : BOOLEAN, hosts : Seq(HostEntries)]
        /\ Near(service'.hosts) \subseteq lan \cup Near(service.hosts)
    <2>1. PICK b \in BOOLEAN : service' = [on |-> b, hosts |-> << >>]
      BY <1>1 DEF H!Listening, H!Silent
    <2>2. << >> \in Seq(HostEntries) /\ Near(<< >>) = {}
      BY DEF Near
    <2> QED
      BY <2>1, <2>2
  <1> QED
    BY <1>1, <1>3, <1>4, HandlerKeeps

\* The devices of the account are read again, or forgotten.
LEMMA DevicesKeep ==
    ASSUME Settled, HostsInv, H!RefreshHosts \/ H!ClearCachedHosts
    PROVE  HostsInv'
  <1>1. /\ activeHost = 0 /\ UNCHANGED <<lan, service, activeHost>>
        /\ service' \in [on : BOOLEAN, hosts : Seq(HostEntries)]
        /\ Near(service'.hosts) \subseteq lan \cup Near(service.hosts)
    BY DEF H!RefreshHosts, H!ClearCachedHosts, HostsInv
  <1>2. Loose(H!WithoutPsn(H!World))
    BY WithoutPsnKeeps DEF HostsInv, Tidy
  <1>3. \E w : Loose(w) /\ H!Becomes(H!Update(w))
    <2>1. CASE H!RefreshHosts
      <3>1. PICK present \in SUBSET Devices :
               H!Becomes(H!Update(H!AddDevices(H!WithoutPsn(H!World), present)))
        BY <2>1 DEF H!RefreshHosts
      <3>2. Loose(H!AddDevices(H!WithoutPsn(H!World), present))
        BY <1>2, AddDevicesKeep
      <3> QED
        BY <3>1, <3>2
    <2>2. CASE H!ClearCachedHosts
      <3>1. H!Becomes(H!Update(H!WithoutPsn(H!World)))
        BY <2>2 DEF H!ClearCachedHosts
      <3> QED
        BY <1>2, <3>1
    <2> QED
      BY <2>1, <2>2
  <1>4. PICK w : Loose(w) /\ H!Becomes(H!Update(w))
    BY <1>3
  <1> DEFINE v == H!Update(w)
  <1>5. Tidy(v) /\ H!Becomes(v)
    <2>1. H!Becomes(v)
      BY <1>4
    <2> HIDE DEF v
    <2> QED
      BY <1>4, <2>1, UpdateKeeps DEF v
  <1> HIDE DEF v
  <1>6. Stays(H!World, v, activeHost)
    BY <1>1, NoneIsSafe
  <1> QED
    BY <1>1, <1>5, <1>6, HandlerKeeps

\* Time passes while nothing pings.
LEMMA TimeKeeps ==
    ASSUME HostsInv, H!TimePasses
    PROVE  HostsInv'
  <1> DEFINE v == [H!World EXCEPT !.heap = [o \in H!Objects |-> IF H!Of("DISCOVERED", @[o])
                                               THEN [@[o] EXCEPT !.age = Grace] ELSE @[o]]]
  <1>1. /\ H!Becomes(v) /\ UNCHANGED <<lan, service, activeHost>>
        /\ service' \in [on : BOOLEAN, hosts : Seq(HostEntries)]
        /\ Near(service'.hosts) \subseteq lan \cup Near(service.hosts)
    BY DEF H!TimePasses, HostsInv
  <1>2. Tidy(H!World) /\ Loose(H!World)
    BY DEF HostsInv, Tidy
  <1>3. Akin(H!World, v)
    <2> HIDE DEF H!World
    <2> QED
      BY <1>2, LateIsAkin
  <1> HIDE DEF v
  <1>4. Tidy(v) /\ Stays(H!World, v, activeHost)
    BY <1>2, <1>3, AkinKeeps DEF Tidy
  <1> QED
    BY <1>1, <1>4, HandlerKeeps

\* The table stays as it is.
LEMMA TableStays ==
    ASSUME HostsInv, UNCHANGED <<table, heap>>
    PROVE  /\ Tidy(H!World)'
           /\ activeHost' = activeHost /\ activeHost # 0 => Safe(H!World, activeHost)'
  <1>1. H!World' = H!World
    BY DEF H!World
  <1>2. Tidy(H!World)'
    BY <1>1 DEF HostsInv, Tidy, Loose, Sole, Packed, Worlds, H!Used, H!Objects
  <1>3. activeHost' = activeHost /\ activeHost # 0 => Safe(H!World, activeHost)'
    BY <1>1 DEF HostsInv, Safe, H!Used, H!Objects
  <1> QED
    BY <1>2, <1>3

\* The user connects: a console that was found has no device with a card of its own.
LEMMA ConnectKeeps ==
    ASSUME HostsInv, Roaming = FALSE, H!Connect
    PROVE  HostsInv'
  <1>1. PICK s \in H!Used(H!World) :
           /\ \/ H!At(H!World, s).source # "psn"
              \/ H!At(H!World, s).mac \notin lan \cup H!ToSet(H!Names(service.hosts))
           /\ activeHost' = table[s]
    BY DEF H!Connect
  <1>2. UNCHANGED <<lan, service, table, heap>>
    BY DEF H!Connect
  <1>3. Loose(H!World) /\ Sole(H!World) /\ service.hosts \in Seq(HostEntries)
    BY DEF HostsInv, Tidy
  <1>4. H!World.table = table /\ H!World.heap = heap
    BY DEF H!World
  <1> DEFINE a == table[s]
  <1>5. a \in H!Objects /\ heap[a].source # "none"
    BY <1>1, <1>3, <1>4, UsedSlots DEF Loose
  <1>6. ASSUME heap[a].source = "psn", NEW t \in H!Used(H!World), heap[table[t]].source = "lan"
        PROVE  heap[table[t]].mac # heap[a].mac
    <2>1. heap[table[t]].mac = heap[table[s]].mac => s = t
      BY <1>1, <1>3, <1>4, <1>6 DEF Sole
    <2> QED
      BY <1>6, <2>1
  <1>7. Safe(H!World, a)
    BY <1>4, <1>5, <1>6 DEF Safe
  <1>8. heap[a].source = "psn" => heap[a].mac \notin lan \cup Near(service.hosts)
    BY <1>1, <1>3, <1>4, NamesOf DEF H!At
  <1>9. H!World' = H!World /\ Tidy(H!World)'
    BY <1>2, TableStays DEF H!World
  <1>10. Safe(H!World, activeHost)'
    BY <1>1, <1>7, <1>9 DEF Safe, H!Used, H!Objects
  <1> QED
    BY <1>1, <1>2, <1>8, <1>9, <1>10 DEF HostsInv

\* Every step keeps the invariant.
LEMMA HostsStep ==
    ASSUME Settled, Roaming = FALSE, HostsInv, H!Next \/ UNCHANGED hostVars
    PROVE  HostsInv'
  <1>1. CASE H!StartDiscovery \/ H!StopDiscovery
    BY <1>1, DiscoveryKeeps
  <1>2. CASE H!Ping
    BY <1>2, PingKeeps
  <1>3. CASE H!RefreshHosts \/ H!ClearCachedHosts
    BY <1>3, DevicesKeep
  <1>4. CASE H!Connect
    BY <1>4, ConnectKeeps
  <1>5. CASE H!TimePasses
    BY <1>5, TimeKeeps
  <1>6. CASE H!Disconnect
    <2>1. UNCHANGED <<lan, service, table, heap>> /\ activeHost' = 0
      BY <1>6 DEF H!Disconnect
    <2> QED
      BY <2>1, TableStays DEF HostsInv
  <1>7. CASE \E c \in Consoles : H!HostReceived(c) \/ H!Joins(c) \/ H!Leaves(c)
    <2> PICK c \in Consoles : H!HostReceived(c) \/ H!Joins(c) \/ H!Leaves(c)
      BY <1>7
    <2>1. CASE H!HostReceived(c)
      BY <2>1, HostReceivedKeeps
    <2>2. CASE H!Joins(c)
      <3>1. /\ c \in Home /\ lan' = lan \cup {c} /\ activeHost = 0 /\ activeHost' = 0
            /\ UNCHANGED <<service, table, heap>>
        BY <2>2 DEF H!Joins
      <3> QED
        BY <3>1, TableStays DEF HostsInv
    <2>3. CASE H!Leaves(c)
      <3>1. lan' = lan \ {c} /\ UNCHANGED <<service, table, heap, activeHost>>
        BY <2>3 DEF H!Leaves
      <3> QED
        BY <3>1, TableStays DEF HostsInv
    <2> QED
      BY <2>1, <2>2, <2>3
  <1>8. CASE UNCHANGED hostVars
    <2>1. UNCHANGED <<lan, service, table, heap, activeHost>>
      BY <1>8 DEF hostVars
    <2> QED
      BY <2>1, TableStays DEF HostsInv
  <1> QED
    BY <1>1, <1>2, <1>3, <1>4, <1>5, <1>6, <1>7, <1>8 DEF H!Next

\* It holds at the start, when there are only manual hosts.
LEMMA HostsStart ==
    ASSUME Settled, H!Init
    PROVE  HostsInv
  <1> DEFINE w == H!Blank
             v == H!Update(w)
  <1>1. /\ lan = {} /\ activeHost = 0 /\ service = H!Silent
        /\ table = v.table /\ heap = v.heap
    BY DEF H!Init
  <1>2. /\ w.table = [s \in 1 .. Slots |-> 0] /\ w = [table |-> w.table, heap |-> w.heap]
        /\ w.heap = [o \in H!Objects |-> IF o \in H!Config THEN H!ManualHost(o) ELSE H!Free]
    BY DEF H!Blank
  <1> HIDE DEF w
  <1>3. ASSUME NEW o \in H!Objects
        PROVE  Kind(o, w.heap[o]) /\ w.heap[o].source \notin {"lan", "psn"}
    <2>1. CASE o \in H!Config
      <3> DEFINE h == H!ManualHost(o)
      <3>1. h.mac \in Manual /\ h.mac \in Nat
        BY <2>1, ManualMac, HostConstants
      <3>2. /\ h.type = {"MANUALLY_ADDED", "REGISTERED"} /\ h.source = "manual"
            /\ h.remote = 0 /\ h.age = 0
            /\ h = [mac |-> h.mac, type |-> h.type, source |-> h.source, remote |-> h.remote,
                    age |-> h.age]
        BY DEF H!ManualHost
      <3>3. w.heap[o] = h
        BY <1>2, <2>1
      <3> HIDE DEF h
      <3>4. h \in HostRec /\ h # H!Free
        BY <3>1, <3>2 DEF HostRec, H!Types, H!Free
      <3> QED
        BY <2>1, <3>1, <3>2, <3>3, <3>4 DEF Kind
    <2>2. CASE o \notin H!Config
      <3>1. w.heap[o] = H!Free
        BY <1>2, <2>2
      <3> QED
        BY <2>2, <3>1 DEF Kind, HostRec, H!Types, H!Free
    <2> QED
      BY <2>1, <2>2
  <1>4. H!Used(w) = {}
    BY <1>2 DEF H!Used
  <1>5. w \in Worlds
    <2>1. w.table \in [1 .. Slots -> {0} \cup H!Objects]
      BY <1>2
    <2>2. w.heap \in [H!Objects -> HostRec]
      <3>1. \A o \in H!Objects : w.heap[o] \in HostRec
        BY <1>3 DEF Kind
      <3> QED
        BY <1>2, <3>1
    <2> QED
      BY <1>2, <2>1, <2>2 DEF Worlds
  <1>6. Loose(w)
    BY <1>3, <1>4, <1>5 DEF Loose
  <1>7. Tidy(v)
    <2> HIDE DEF v
    <2> QED
      BY <1>6, UpdateKeeps DEF v
  <1> HIDE DEF v
  <1>8. H!World = v
    BY <1>1, <1>7 DEF H!World, Tidy, Loose, Worlds
  <1>9. service \in [on : BOOLEAN, hosts : Seq(HostEntries)]
    BY <1>1 DEF H!Silent
  <1> QED
    BY <1>1, <1>7, <1>8, <1>9 DEF HostsInv

\* What the invariant promises.
LEMMA HostsPromise ==
    ASSUME HostsInv
    PROVE  H!TableIsSound /\ H!OneCard /\ H!ActiveLives /\ H!SameConsole
  <1> DEFINE w == H!World
  <1>1. /\ Loose(w) /\ Sole(w) /\ Packed(w) /\ w.table = table /\ w.heap = heap
        /\ activeHost # 0 => Safe(w, activeHost)
    BY DEF HostsInv, Tidy, H!World
  <1> HIDE DEF w
  <1>2. \A s \in H!Used(w) : /\ s \in 1 .. Slots /\ Kind(table[s], heap[table[s]])
                             /\ table[s] \in H!Objects /\ heap[table[s]].source # "none"
    BY <1>1, UsedSlots DEF Loose
  <1>3. \A s \in H!Used(w) : H!At(w, s) = heap[table[s]]
    BY <1>1 DEF H!At
  <1>4. H!TableIsSound
    <2>1. ASSUME NEW s \in H!Used(w)
          PROVE  /\ H!At(w, s) # H!Free
                 /\ \A t \in 1 .. (s - 1) : table[t] \notin {0, table[s]}
      <3>1. H!At(w, s) # H!Free
        BY <1>2, <1>3 DEF Kind
      <3>2. ASSUME NEW t \in 1 .. (s - 1)
            PROVE  table[t] \notin {0, table[s]}
        <4>1. t \in 1 .. Slots /\ t < s /\ t # s
          BY <1>2, HostConstants
        <4>2. t \in H!Used(w)
          BY <1>1, <4>1 DEF Packed
        <4>3. table[t] # table[s]
          BY <1>1, <4>1, <4>2 DEF Loose
        <4> QED
          BY <1>2, <4>2, <4>3, HostConstants
      <3> QED
        BY <3>1, <3>2
    <2>2. ASSUME NEW o \in H!Objects \ H!Config, heap[o] # H!Free
          PROVE  \E s \in 1 .. Slots : table[s] = o
      <3>1. Kind(o, heap[o])
        BY <1>1 DEF Loose
      <3>2. heap[o].source \in {"lan", "psn"}
        BY <2>2, <3>1 DEF Kind, HostRec
      <3>3. \E s \in H!Used(w) : table[s] = o
        BY <1>1, <3>2 DEF Loose
      <3> QED
        BY <1>2, <3>3
    <2> QED
      BY <2>1, <2>2 DEF H!TableIsSound, w
  <1>5. H!OneCard
    <2>1. ASSUME NEW s \in H!Used(w), NEW t \in H!Used(w),
                 H!Of("DISCOVERED", H!At(w, s)), H!At(w, s).mac = H!At(w, t).mac
          PROVE  s = t
      <3>1. heap[table[s]].source = "lan" /\ heap[table[s]].mac = heap[table[t]].mac
        BY <1>2, <1>3, <2>1 DEF H!Of, Kind
      <3> QED
        BY <1>1, <3>1 DEF Sole
    <2> QED
      BY <2>1 DEF H!OneCard, w
  <1>6. H!ActiveLives
    BY <1>1 DEF H!ActiveLives, Safe, H!Free
  <1>7. H!SameConsole
    <2>1. \A s \in H!Used(w) : H!At(w, s).remote \in {0, H!At(w, s).mac}
      BY <1>2, <1>3 DEF Kind
    <2> QED
      BY <2>1 DEF H!SameConsole, w
  <1> QED
    BY <1>4, <1>5, <1>6, <1>7

\* The table of the consoles refers to living objects, each once and without a gap, and no
\* object but a manual host is lost; a console that was found has one card, a device is shown
\* with its own console, and the host of a connection is not freed: however the reports of
\* the discovery, the devices of the account, the time and the connections follow one
\* another, on any number of consoles and slots (discovery.c, 19-266; host_storage.c,
\* 149-276; psn_remote.c, 57-204).  No console with a manual host joins the network, every
\* device of the account is registered, and none joins while it is used.
THEOREM HostsAreAlwaysSound ==
    ASSUME Home \cap Manual = {}, Devices \subseteq Registered, Roaming = FALSE
    PROVE  Spec => []HostsSound
  <1>1. Settled /\ Roaming = FALSE
    BY DEF Settled
  <1>2. Init => HostsInv
    BY <1>1, HostsStart DEF Init
  <1>3. HostsInv /\ [Next]_vars => HostsInv'
    BY <1>1, BenchStep, HostsStep
  <1>4. HostsInv => HostsSound
    BY HostsPromise DEF HostsSound
  <1> QED
    BY <1>2, <1>3, <1>4, PTL DEF Spec
=============================================================================
