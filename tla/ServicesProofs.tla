--------------------------- MODULE ServicesProofs ---------------------------
(***************************************************************************)
(* What the command line's services promise.  First Telemetry, for any     *)
(* processes, roles, environments, keys, number of engine events and queue *)
(* size; then one invocation of a command (Command, as MCServices composes *)
(* it), for any set of the commands the command line has.                  *)
(***************************************************************************)
EXTENDS MCServices, Integers, WellFoundedInduction, TLAPS

Events  == {"engine", "command"}
Records == [enabled : BOOLEAN, current : BOOLEAN, id : Processes \cup {"none", "installed"}]

FilesType ==
  /\ stored \in Records
  /\ retired \subseteq Processes \cup {"installed"}
  /\ seen \in [Processes -> Records]
  /\ pc \in [Processes -> {"start", "read", "write", "after", "capture", "flush", "drain", "closed", "exited"}]
  /\ \A p \in Processes : pc[p] \in {"read", "write", "after"} => Role[p] # "work"
  /\ consent \in [Processes -> [enabled : BOOLEAN, id : Processes \cup {"none", "installed", OneOff}]]

DeliveryType ==
  /\ pending \in [Processes -> Seq(Events)]
  /\ queue \in [Processes -> Seq(Events \cup {Stop})]
  /\ open \in [Processes -> Int]
  /\ worker \in [Processes -> {"absent", "waiting", "taken", "sending", "ended"}]
  /\ hand \in [Processes -> Events \cup {Stop, "none"}]
  /\ stopped \in [Processes -> BOOLEAN]
  /\ late \in [Processes -> BOOLEAN]
  /\ attempted \in [Processes -> Nat]
  /\ dropped \in [Processes -> Nat]
  /\ flushed \in [Processes -> {"unknown", "yes", "no"}]
  /\ overdue \in [Processes -> Nat]

TypeInv == FilesType /\ DeliveryType

LEMMA TypesAtFirst == Init => TypeInv
<1> SUFFICES ASSUME Init PROVE TypeInv
  OBVIOUS
<1>1. stored \in Records /\ NoFile \in Records
  <2>1. NoFile \in Records
    BY DEF Records, NoFile
  <2>2. \A e, c \in BOOLEAN : Record(e, c, "installed") \in Records
    BY DEF Records, Record
  <2> QED
    BY <2>1, <2>2 DEF Init
<1>2. FilesType
  <2>1. retired \subseteq Processes \cup {"installed"}
    BY DEF Init, Record, NoFile
  <2> QED
    BY <1>1, <2>1 DEF Init, FilesType, Off
<1>3. DeliveryType
  <2>1. <<>> \in Seq(Events) /\ <<>> \in Seq(Events \cup {Stop})
    OBVIOUS
  <2> QED
    BY <2>1 DEF Init, DeliveryType
<1> QED
  BY <1>2, <1>3 DEF TypeInv

LEMMA ResolvedType ==
  ASSUME FilesType, NEW p \in Processes
  PROVE  Resolved(p) \in [enabled : BOOLEAN, id : Processes \cup {"none", "installed", OneOff}]
BY DEF FilesType, Resolved, Off, On, Records

LEMMA WrittenType ==
  ASSUME FilesType, NEW p \in Processes, Role[p] \in {"enable", "disable", "reset"}
  PROVE  Written(p) \in Records
<1>1. CASE Role[p] = "enable"
  BY <1>1 DEF Written, Enabled, Record, Records
<1>2. CASE Role[p] = "disable"
  BY <1>2 DEF Written, Disabled, Record, Records, FilesType, NoFile
<1>3. CASE Role[p] = "reset"
  BY <1>3 DEF Written, Reset, Record, Records, FilesType, NoFile
<1> QED
  BY <1>1, <1>2, <1>3

LEMMA EngineEventsType ==
  /\ [i \in 1..EngineEvents |-> "engine"] \o <<"command">> \in Seq(Events)
  /\ Len([i \in 1..EngineEvents |-> "engine"] \o <<"command">>) = EngineEvents + 1
<1> DEFINE e == [i \in 1..EngineEvents |-> "engine"]
<1>1. e \in Seq(Events) /\ Len(e) = EngineEvents
  BY TelemetryAssumption DEF Events
<1>2. <<"command">> \in Seq(Events) /\ Len(<<"command">>) = 1
  BY DEF Events
<1> HIDE DEF e
<1>3. e \o <<"command">> \in Seq(Events) /\ Len(e \o <<"command">>) = EngineEvents + 1
  BY <1>1, <1>2
<1> QED
  BY <1>3 DEF e

LEMMA RuntimeType ==
  ASSUME TypeInv, NEW p \in Processes, NEW c, NEW events \in Seq(Events), StartRuntime(p, c, events)
  PROVE  /\ DeliveryType'
         /\ pc' \in [Processes -> {"start", "read", "write", "after", "capture", "flush", "drain", "closed", "exited"}]
         /\ \A q \in Processes : pc'[q] \in {"read", "write", "after"} => Role[q] # "work"
BY DEF StartRuntime, Goto, TypeInv, FilesType, DeliveryType

(* Delivery leaves the files and the consent alone.                        *)
LEMMA FilesTypeKept ==
  ASSUME FilesType, UNCHANGED <<files, consent>>, NEW p \in Processes,
         NEW l \in {"flush", "drain", "closed", "exited"}, pc' = pc \/ Goto(p, l)
  PROVE  FilesType'
BY DEF FilesType, files, Goto

LEMMA TypesKept == TypeInv /\ [Next]_vars => TypeInv'
<1> SUFFICES ASSUME TypeInv, [Next]_vars PROVE TypeInv'
  OBVIOUS
<1> USE DEF files
<1>1. ASSUME NEW p \in Processes, Command(p) PROVE TypeInv'
  BY <1>1, ResolvedType, EngineEventsType, RuntimeType DEF Command, TypeInv, FilesType
<1>2. ASSUME NEW p \in Processes, Before(p) PROVE TypeInv'
  BY <1>2, ResolvedType DEF Before, TypeInv, FilesType, DeliveryType, delivery, Goto
<1>3. ASSUME NEW p \in Processes, Read(p) PROVE TypeInv'
  BY <1>3 DEF Read, TypeInv, FilesType, DeliveryType, delivery, Goto
<1>4. ASSUME NEW p \in Processes, Write(p) PROVE TypeInv'
  <2>1. Role[p] \in {"enable", "disable", "reset"}
    BY <1>4, TelemetryAssumption DEF Write, TypeInv, FilesType
  <2>2. Written(p) \in Records /\ {stored.id, seen[p].id} \ {"none"} \subseteq Processes \cup {"installed"}
    BY <2>1, WrittenType DEF TypeInv, FilesType, Records
  <2>3. stored' \in Records /\ retired' \subseteq Processes \cup {"installed"}
    BY <1>4, <2>2 DEF Write, TypeInv, FilesType
  <2>4. FilesType'
    BY <1>4, <2>1, <2>3 DEF Write, TypeInv, FilesType, Goto
  <2>5. DeliveryType'
    BY <1>4 DEF Write, TypeInv, DeliveryType, delivery
  <2> QED
    BY <2>4, <2>5 DEF TypeInv
<1>5. ASSUME NEW p \in Processes, After(p) PROVE TypeInv'
  <2>1. <<"command">> \in Seq(Events)
    BY DEF Events
  <2>2. CASE StartRuntime(p, Resolved(p), <<"command">>)
    BY <1>5, <2>1, <2>2, ResolvedType, RuntimeType DEF After, TypeInv, FilesType
  <2>3. CASE Goto(p, "exited") /\ UNCHANGED delivery
    BY <1>5, <2>3, ResolvedType DEF After, TypeInv, FilesType, DeliveryType, delivery, Goto
  <2> QED
    BY <1>5, <2>2, <2>3 DEF After
<1>6. ASSUME NEW p \in Processes, Capture(p) PROVE TypeInv'
  <2>1. Head(pending[p]) \in Events /\ Tail(pending[p]) \in Seq(Events)
    BY <1>6 DEF Capture, TypeInv, DeliveryType
  <2>2. Append(queue[p], Head(pending[p])) \in Seq(Events \cup {Stop})
    BY <2>1 DEF TypeInv, DeliveryType
  <2>3. open' \in [Processes -> Int] /\ dropped' \in [Processes -> Nat]
    <3>1. CASE open' = [open EXCEPT ![p] = @ + 1] /\ dropped' = dropped
      BY <3>1 DEF TypeInv, DeliveryType
    <3>2. CASE open' = open /\ dropped' = [dropped EXCEPT ![p] = @ + 1]
      BY <3>2 DEF TypeInv, DeliveryType
    <3> QED
      BY <1>6, <3>1, <3>2 DEF Capture
  <2>4. pending' \in [Processes -> Seq(Events)]
    BY <1>6, <2>1 DEF Capture, TypeInv, DeliveryType
  <2>5. queue' \in [Processes -> Seq(Events \cup {Stop})]
    <3>1. CASE Len(queue[p]) < QueueSize
      BY <1>6, <2>2, <3>1 DEF Capture, TypeInv, DeliveryType
    <3>2. CASE ~(Len(queue[p]) < QueueSize)
      BY <1>6, <3>2 DEF Capture, TypeInv, DeliveryType
    <3> QED
      BY <3>1, <3>2
  <2> QED
    BY <1>6, <2>3, <2>4, <2>5, FilesTypeKept DEF Capture, TypeInv, DeliveryType
<1>7. ASSUME NEW p \in Processes, BeginClose(p) \/ TimeUp(p) PROVE TypeInv'
  <2>1. FilesType'
    BY <1>7, FilesTypeKept DEF BeginClose, TimeUp, TypeInv
  <2>2. DeliveryType'
    BY <1>7 DEF BeginClose, TimeUp, TypeInv, DeliveryType, delivery
  <2> QED
    BY <2>1, <2>2 DEF TypeInv
<1>8. ASSUME NEW p \in Processes, FlushEnds(p) PROVE TypeInv'
  BY <1>8 DEF FlushEnds, TypeInv, FilesType, DeliveryType, Goto
<1>9. ASSUME NEW p \in Processes, Drain(p) PROVE TypeInv'
  <2>1. <<Stop>> \in Seq(Events \cup {Stop})
    OBVIOUS
  <2>2. queue[p] # <<>> => Tail(queue[p]) \in Seq(Events \cup {Stop})
    BY DEF TypeInv, DeliveryType
  <2>3. FilesType'
    BY <1>9, FilesTypeKept DEF Drain, TypeInv
  <2>4. open' \in [Processes -> Int]
    BY <1>9 DEF Drain, TypeInv, DeliveryType
  <2>5. queue' \in [Processes -> Seq(Events \cup {Stop})]
    BY <1>9, <2>1, <2>2 DEF Drain, TypeInv, DeliveryType
  <2> QED
    BY <1>9, <2>3, <2>4, <2>5 DEF Drain, TypeInv, DeliveryType
<1>10. ASSUME NEW p \in Processes, Exit(p) PROVE TypeInv'
  BY <1>10 DEF Exit, TypeInv, FilesType, DeliveryType, Goto
<1>11. ASSUME NEW p \in Processes, Take(p) PROVE TypeInv'
  BY <1>11 DEF Take, TypeInv, FilesType, DeliveryType
<1>12. ASSUME NEW p \in Processes, Look(p) PROVE TypeInv'
  <2>1. FilesType'
    BY <1>12, FilesTypeKept DEF Look, TypeInv
  <2>2. open' \in [Processes -> Int]
    BY <1>12 DEF Look, TypeInv, DeliveryType
  <2>3. worker' \in [Processes -> {"absent", "waiting", "taken", "sending", "ended"}]
    BY <1>12 DEF Look, TypeInv, DeliveryType
  <2> QED
    BY <1>12, <2>1, <2>2, <2>3 DEF Look, TypeInv, DeliveryType
<1>13. ASSUME NEW p \in Processes, Send(p) PROVE TypeInv'
  <2>1. overdue' \in [Processes -> Nat]
    BY <1>13 DEF Send, TypeInv, DeliveryType
  <2>2. open' \in [Processes -> Int] /\ attempted' \in [Processes -> Nat]
    BY <1>13 DEF Send, TypeInv, DeliveryType
  <2>3. FilesType'
    BY <1>13, FilesTypeKept DEF Send, TypeInv
  <2> QED
    BY <1>13, <2>1, <2>2, <2>3 DEF Send, TypeInv, DeliveryType
<1>14. CASE UNCHANGED vars
  BY <1>14 DEF vars, delivery, TypeInv, FilesType, DeliveryType
<1> QED
  BY <1>1, <1>2, <1>3, <1>4, <1>5, <1>6, <1>7, <1>8, <1>9, <1>10, <1>11, <1>12, <1>13, <1>14
  DEF Next, Steps, Sender

THEOREM TelemetryTyped == Spec => []TypeInv
BY TypesAtFirst, TypesKept, PTL DEF Spec

------------------------------------------------------------------------------
(* Ids.  One in use has not been retired, and one that a process may still *)
(* mint is nowhere yet.                                                    *)
Minting(p) == Role[p] \in {"enable", "reset"} /\ pc[p] \in {"start", "read", "write"}

IdInv ==
  /\ Active(stored) => stored.id \notin retired
  /\ \A p \in Processes :
       Minting(p) => p \notin retired /\ stored.id # p /\ \A q \in Processes : seen[q].id # p

LEMMA IdsAtFirst == Init => IdInv
<1> SUFFICES ASSUME Init PROVE IdInv
  OBVIOUS
<1>1. stored.id \in {"none", "installed"} /\ retired \subseteq {"installed"}
  BY DEF Init, Record, NoFile
<1>2. Active(stored) => retired = {}
  BY DEF Init, Active
<1>3. \A q \in Processes : seen[q].id = "none"
  BY DEF Init, NoFile
<1> QED
  BY <1>1, <1>2, <1>3, TelemetryAssumption DEF IdInv

(* Other steps than a write leave the file and what is retired alone.      *)
LEMMA IdsUnwritten ==
  ASSUME TypeInv, IdInv, UNCHANGED <<stored, retired>>,
         \A q \in Processes : seen'[q].id \in {seen[q].id, stored.id},
         \A q \in Processes : Minting(q)' => Minting(q)
  PROVE  IdInv'
BY DEF IdInv, Active

LEMMA IdsKept == TypeInv /\ IdInv /\ [Next]_vars => IdInv'
<1> SUFFICES ASSUME TypeInv, IdInv, [Next]_vars PROVE IdInv'
  OBVIOUS
<1>1. ASSUME NEW p \in Processes, Write(p) PROVE IdInv'
  <2>1. CASE UNCHANGED stored /\ UNCHANGED retired
    BY <1>1, <2>1, IdsUnwritten DEF Write, Goto, Minting, TypeInv, FilesType
  <2>2. CASE stored' = Written(p) /\ Role[p] = "disable" /\ retired' = retired \cup ({stored.id, seen[p].id} \ {"none"})
    <3>1. ~stored'.enabled /\ stored'.id = seen[p].id
      BY <2>2 DEF Written, Disabled, Record
    <3>2. \A q \in Processes : Minting(q)' => q # p /\ Minting(q)
      BY <1>1, <2>2 DEF Write, Goto, Minting, TypeInv, FilesType
    <3> QED
      BY <1>1, <2>2, <3>1, <3>2 DEF Write, IdInv, Active
  <2>3. CASE stored' = Written(p) /\ Role[p] = "enable" /\ retired' = retired
    BY <1>1, <2>3 DEF Write, Goto, Minting, TypeInv, FilesType, IdInv, Written, Enabled, Record, Active
  <2>4. CASE stored' = Written(p) /\ Role[p] = "reset" /\ retired' = retired \cup ({stored.id, seen[p].id} \ {"none"})
    <3>1. stored'.id \in {p, "none"}
      BY <2>4 DEF Written, Reset, Record
    <3>2. Minting(p) /\ p \notin retired'
      BY <1>1, <2>4 DEF Write, Minting, IdInv
    <3>3. \A q \in Processes : Minting(q)' => q # p /\ Minting(q)
      BY <1>1, <2>4 DEF Write, Goto, Minting, TypeInv, FilesType
    <3>4. "none" \notin Processes
      BY TelemetryAssumption
    <3> QED
      BY <1>1, <2>4, <3>1, <3>2, <3>3, <3>4 DEF Write, IdInv, Active
  <2>5. Role[p] \in {"enable", "disable", "reset"}
    BY <1>1, TelemetryAssumption DEF Write, TypeInv, FilesType
  <2> QED
    BY <1>1, <2>1, <2>2, <2>3, <2>4, <2>5 DEF Write
<1>2. ASSUME NEW p \in Processes, Read(p) PROVE IdInv'
  BY <1>2, IdsUnwritten DEF Read, Goto, Minting, TypeInv, FilesType
<1>3. ASSUME NEW p \in Processes, Command(p) \/ Before(p) \/ After(p) PROVE IdInv'
  BY <1>3, IdsUnwritten DEF Command, Before, After, StartRuntime, Goto, Minting, TypeInv, FilesType, files
<1>4. ASSUME NEW p \in Processes, BeginClose(p) \/ FlushEnds(p) \/ Drain(p) \/ Exit(p) PROVE IdInv'
  BY <1>4, IdsUnwritten DEF BeginClose, FlushEnds, Drain, Exit, Goto, Minting, TypeInv, FilesType, files
<1>5. ASSUME NEW p \in Processes, Capture(p) \/ TimeUp(p) \/ Sender(p) PROVE IdInv'
  BY <1>5, IdsUnwritten DEF Capture, TimeUp, Sender, Take, Look, Send, Minting, files
<1>6. CASE UNCHANGED vars
  BY <1>6, IdsUnwritten DEF vars, files, Minting
<1> QED
  BY <1>1, <1>2, <1>3, <1>4, <1>5, <1>6 DEF Next, Steps

(* A consent that is resolved carries an id in use, none at all, or one of *)
(* its own.                                                                *)
LEMMA ResolvedInUse ==
  ASSUME TypeInv, IdInv, NEW p \in Processes
  PROVE  Resolved(p).id \notin retired
<1>1. "none" \notin retired /\ OneOff \notin retired
  BY TelemetryAssumption DEF TypeInv, FilesType, OneOff
<1> QED
  BY <1>1 DEF Resolved, Off, On, IdInv

(* An id that a disable or a reset took out of use is never taken up again *)
(* by a command that resolves its consent later (telemetry/consent.py).    *)
THEOREM RetiredForGood == Spec => RetiredIdsStayRetired
<1>1. TypeInv /\ IdInv /\ [Next]_vars =>
        [\A p \in Processes : consent'[p] # consent[p] => consent'[p].id \notin retired]_vars
  <2> SUFFICES ASSUME TypeInv, IdInv, Next, NEW p \in Processes, consent'[p] # consent[p]
               PROVE  consent'[p].id \notin retired
    OBVIOUS
  <2>1. \/ consent' = consent
        \/ \E q \in Processes : consent' = [consent EXCEPT ![q] = Resolved(q)]
    BY DEF Next, Steps, Sender, Command, Before, Read, Write, After, Capture, BeginClose, TimeUp,
           FlushEnds, Drain, Exit, Take, Look, Send
  <2>2. consent'[p] = Resolved(p)
    BY <2>1 DEF TypeInv, FilesType
  <2> QED
    BY <2>2, ResolvedInUse
<1> QED
  BY <1>1, TypesAtFirst, TypesKept, IdsAtFirst, IdsKept, PTL DEF Spec, RetiredIdsStayRetired

------------------------------------------------------------------------------
(* Delivery.  Until close() stops the adapter every event is pending,      *)
(* queued, in hand, attempted or dropped, and unfinished_tasks counts those*)
(* in the queue and in hand.                                               *)
InHand(p)   == IF worker[p] \in {"taken", "sending"} THEN 1 ELSE 0
Sending(p)  == IF worker[p] = "sending" THEN 1 ELSE 0
Offered(p)  == IF Role[p] = "work" THEN EngineEvents + 1 ELSE 1

Untouched(p) ==
  /\ queue[p] = <<>> /\ open[p] = 0 /\ worker[p] = "absent" /\ ~stopped[p]
  /\ attempted[p] = 0 /\ dropped[p] = 0 /\ flushed[p] = "unknown" /\ overdue[p] = 0

Delivering(p) ==
  /\ ~stopped[p] /\ flushed[p] = "unknown" /\ overdue[p] = 0
  /\ queue[p] \in Seq(Events)
  /\ worker[p] = "taken" => hand[p] \in Events
  /\ open[p] = Len(queue[p]) + InHand(p)
  /\ Len(pending[p]) + open[p] + attempted[p] + dropped[p] = Offered(p)

Closing(p) ==
  /\ stopped[p]
  /\ overdue[p] + Sending(p) <= 1
  /\ flushed[p] = "yes" => worker[p] # "sending" /\ attempted[p] + dropped[p] = Offered(p)

DeliveryInv(p) ==
  /\ pc[p] \in {"start", "read", "write", "after", "exited"} => Untouched(p)
  /\ pc[p] \in {"capture", "flush"} => Delivering(p)
  /\ pc[p] = "flush" => pending[p] = <<>>
  /\ pc[p] \in {"drain", "closed"} => Closing(p)

AllDelivery == \A p \in Processes : DeliveryInv(p)

LEMMA DeliveryAtFirst == Init => AllDelivery
<1> SUFFICES ASSUME Init, NEW p \in Processes PROVE DeliveryInv(p)
  BY DEF AllDelivery
<1>1. pc[p] = "start"
  BY DEF Init
<1>2. Untouched(p)
  BY DEF Init, Untouched
<1> QED
  BY <1>1, <1>2 DEF DeliveryInv

(* A process that does not move keeps its invariant.                       *)
Still(p) ==
  /\ pc'[p] = pc[p] /\ pending'[p] = pending[p] /\ queue'[p] = queue[p] /\ open'[p] = open[p]
  /\ worker'[p] = worker[p] /\ hand'[p] = hand[p] /\ stopped'[p] = stopped[p]
  /\ attempted'[p] = attempted[p] /\ dropped'[p] = dropped[p] /\ flushed'[p] = flushed[p]
  /\ overdue'[p] = overdue[p]

LEMMA StillDelivers ==
  ASSUME NEW p \in Processes, DeliveryInv(p), Still(p)
  PROVE  DeliveryInv(p)'
BY DEF DeliveryInv, Still, Untouched, Delivering, Closing, InHand, Sending, Offered

LEMMA OthersStill ==
  ASSUME TypeInv, NEW p \in Processes, Steps(p) \/ Sender(p), NEW q \in Processes \ {p}
  PROVE  Still(q)
<1> USE DEF TypeInv, FilesType, DeliveryType, Still, delivery
<1>1. CASE Command(p)
  BY <1>1 DEF Command, StartRuntime, Goto
<1>2. CASE After(p)
  BY <1>2 DEF After, StartRuntime, Goto
<1>3. CASE Before(p) \/ Read(p) \/ Write(p) \/ BeginClose(p) \/ TimeUp(p)
  BY <1>3 DEF Before, Read, Write, BeginClose, TimeUp, Goto
<1>4. CASE Capture(p)
  BY <1>4 DEF Capture
<1>5. CASE FlushEnds(p)
  BY <1>5 DEF FlushEnds, Goto
<1>6. CASE Drain(p)
  BY <1>6 DEF Drain, Goto
<1>7. CASE Exit(p)
  BY <1>7 DEF Exit, Goto
<1>8. CASE Take(p)
  BY <1>8 DEF Take
<1>9. CASE Look(p)
  BY <1>9 DEF Look
<1>10. CASE Send(p)
  BY <1>10 DEF Send
<1> QED
  BY <1>1, <1>2, <1>3, <1>4, <1>5, <1>6, <1>7, <1>8, <1>9, <1>10 DEF Steps, Sender

LEMMA RuntimeDelivers ==
  ASSUME TypeInv, NEW p \in Processes, Untouched(p), NEW c, NEW events \in Seq(Events),
         Len(events) = Offered(p), StartRuntime(p, c, events)
  PROVE  DeliveryInv(p)'
<1>1. CASE worker'[p] = "waiting" /\ pending'[p] = events /\ pc'[p] = "capture"
  <2>1. /\ queue'[p] = <<>> /\ open'[p] = 0 /\ attempted'[p] = 0 /\ dropped'[p] = 0
        /\ ~stopped'[p] /\ flushed'[p] = "unknown" /\ overdue'[p] = 0
    BY DEF StartRuntime, Untouched
  <2>2. InHand(p)' = 0 /\ Offered(p)' = Offered(p) /\ Len(pending'[p]) = Offered(p)
    BY <1>1 DEF InHand, Offered
  <2>3. Len(queue'[p]) = 0 /\ queue'[p] \in Seq(Events) /\ Offered(p) \in Int
    BY <2>1, TelemetryAssumption DEF Offered
  <2>4. Delivering(p)'
    BY <1>1, <2>1, <2>2, <2>3 DEF Delivering
  <2> QED
    BY <1>1, <2>4 DEF DeliveryInv
<1>2. CASE worker'[p] = "absent" /\ pc'[p] = "exited"
  BY <1>2 DEF StartRuntime, Untouched, DeliveryInv
<1> QED
  BY <1>1, <1>2 DEF StartRuntime, Goto, TypeInv, FilesType, DeliveryType

LEMMA MoverDelivers ==
  ASSUME TypeInv, NEW p \in Processes, DeliveryInv(p), Steps(p) \/ Sender(p)
  PROVE  DeliveryInv(p)'
<1> USE DEF TypeInv, FilesType, DeliveryType
<1>1. CASE Command(p)
  BY <1>1, EngineEventsType, RuntimeDelivers DEF Command, DeliveryInv, Offered
<1>2. CASE After(p)
  <2>1. Untouched(p) /\ <<"command">> \in Seq(Events) /\ Len(<<"command">>) = Offered(p)
    BY <1>2 DEF After, DeliveryInv, Offered, Events
  <2>2. CASE StartRuntime(p, Resolved(p), <<"command">>)
    BY <2>1, <2>2, RuntimeDelivers
  <2>3. CASE Goto(p, "exited") /\ UNCHANGED delivery
    BY <2>1, <2>3 DEF Goto, delivery, DeliveryInv, Untouched
  <2> QED
    BY <1>2, <2>2, <2>3 DEF After
<1>3. CASE Before(p) \/ Read(p) \/ Write(p)
  BY <1>3 DEF Before, Read, Write, Goto, delivery, DeliveryInv, Untouched
<1>4. CASE BeginClose(p) \/ TimeUp(p)
  BY <1>4 DEF BeginClose, TimeUp, Goto, delivery, DeliveryInv, Delivering, InHand, Offered
<1>5. CASE Capture(p)
  <2>1. /\ Head(pending[p]) \in Events /\ Len(Tail(pending[p])) = Len(pending[p]) - 1
    BY <1>5 DEF Capture
  <2>2. Delivering(p) /\ pc[p] = "capture" /\ pc' = pc
    BY <1>5 DEF Capture, DeliveryInv
  <2> DEFINE unmoved == /\ stopped' = stopped /\ flushed' = flushed /\ overdue' = overdue /\ hand' = hand
                        /\ worker' = worker /\ attempted' = attempted /\ InHand(p)' = InHand(p)
                        /\ pending'[p] = Tail(pending[p])
  <2>5. unmoved
    BY <1>5 DEF Capture, InHand
  <2>6. InHand(p) \in Int /\ Offered(p)' = Offered(p)
    BY DEF InHand, Offered
  <2>3. CASE Len(queue[p]) < QueueSize
    <3>1. /\ Append(queue[p], Head(pending[p])) \in Seq(Events)
          /\ Len(Append(queue[p], Head(pending[p]))) = Len(queue[p]) + 1
      BY <2>1, <2>2 DEF Delivering
    <3>2. /\ queue'[p] = Append(queue[p], Head(pending[p]))
          /\ open'[p] = open[p] + 1 /\ dropped' = dropped
      BY <1>5, <2>3 DEF Capture
    <3>3. open'[p] = Len(queue'[p]) + InHand(p)'
      BY <2>2, <2>5, <2>6, <3>1, <3>2 DEF Delivering
    <3>4. Len(pending'[p]) + open'[p] + attempted'[p] + dropped'[p] = Offered(p)'
      BY <2>1, <2>2, <2>5, <2>6, <3>2 DEF Delivering
    <3>5. Delivering(p)'
      BY <2>2, <2>5, <3>1, <3>2, <3>3, <3>4 DEF Delivering
    <3> QED
      BY <2>2, <3>5 DEF DeliveryInv
  <2>4. CASE ~(Len(queue[p]) < QueueSize)
    <3>1. queue' = queue /\ open' = open /\ dropped'[p] = dropped[p] + 1
      BY <1>5, <2>4 DEF Capture
    <3>2. Len(pending'[p]) + open'[p] + attempted'[p] + dropped'[p] = Offered(p)'
      <4>1. Len(pending'[p]) = Len(pending[p]) - 1
        BY <2>1, <2>5
      <4>2. /\ Len(pending[p]) \in Int /\ open[p] \in Int /\ attempted[p] \in Int /\ dropped[p] \in Int
            /\ Len(pending[p]) + open[p] + attempted[p] + dropped[p] = Offered(p)
        BY <2>2 DEF Delivering
      <4>3. attempted'[p] = attempted[p] /\ open'[p] = open[p] /\ dropped'[p] = dropped[p] + 1
        BY <2>5, <3>1
      <4> HIDE DEF TypeInv, DeliveryType, FilesType
      <4> QED
        BY <2>6, <4>1, <4>2, <4>3
    <3>3. Delivering(p)'
      BY <2>2, <2>5, <3>1, <3>2 DEF Delivering
    <3> QED
      BY <2>2, <3>3 DEF DeliveryInv
  <2> QED
    BY <2>3, <2>4
<1>6. CASE FlushEnds(p)
  <2>1. Delivering(p) /\ pending[p] = <<>> /\ pc'[p] = "drain"
    BY <1>6 DEF FlushEnds, Goto, DeliveryInv
  <2>2. AllDone(p) => InHand(p) = 0 /\ attempted[p] + dropped[p] = Offered(p)
    BY <2>1 DEF Delivering, AllDone, InHand
  <2>3. Closing(p)'
    BY <1>6, <2>1, <2>2 DEF FlushEnds, Closing, Delivering, Sending, InHand, Offered
  <2> QED
    BY <2>1, <2>3 DEF DeliveryInv
<1>7. CASE Drain(p)
  <2>1. Closing(p) /\ pc'[p] \in {"drain", "closed"}
    BY <1>7 DEF Drain, Goto, DeliveryInv
  <2>2. Closing(p)'
    BY <1>7, <2>1 DEF Drain, Closing, Sending, Offered
  <2> QED
    BY <2>1, <2>2 DEF DeliveryInv
<1>8. CASE Exit(p)
  BY <1>8 DEF Exit, Goto, DeliveryInv, Untouched
<1>9. CASE Take(p)
  <2>1. pc' = pc /\ ~Untouched(p)
    BY <1>9 DEF Take, Untouched
  <2>2. Closing(p) => Closing(p)'
    BY <1>9 DEF Take, Closing, Sending, Offered
  <2>3. Delivering(p) => Delivering(p)'
    BY <1>9 DEF Take, Delivering, InHand, Offered
  <2> QED
    BY <1>9, <2>1, <2>2, <2>3 DEF Take, DeliveryInv
<1>10. CASE Look(p)
  <2>1. pc' = pc /\ ~Untouched(p)
    BY <1>10 DEF Look, Untouched
  <2>2. Closing(p) => Closing(p)'
    BY <1>10 DEF Look, Leaves, Closing, Sending, Offered
  <2>3. Delivering(p) => Delivering(p)'
    <3> SUFFICES ASSUME Delivering(p) PROVE Delivering(p)'
      OBVIOUS
    <3>1. ~Leaves(p)
      BY <1>10 DEF Look, Leaves, Delivering, Events, Stop
    <3>2. worker'[p] = "sending" /\ open' = open /\ InHand(p) = 1 /\ InHand(p)' = 1
      BY <1>10, <3>1 DEF Look, InHand
    <3> QED
      BY <1>10, <3>2 DEF Look, Delivering, Offered
  <2> QED
    BY <1>10, <2>1, <2>2, <2>3 DEF Look, DeliveryInv
<1>11. CASE Send(p)
  <2>1. pc' = pc /\ ~Untouched(p)
    BY <1>11 DEF Send, Untouched
  <2>2. Closing(p) => Closing(p)'
    BY <1>11 DEF Send, Closing, Sending, Offered
  <2>3. Delivering(p) => Delivering(p)'
    BY <1>11 DEF Send, Delivering, InHand, Offered
  <2> QED
    BY <1>11, <2>1, <2>2, <2>3 DEF Send, DeliveryInv
<1> QED
  BY <1>1, <1>2, <1>3, <1>4, <1>5, <1>6, <1>7, <1>8, <1>9, <1>10, <1>11 DEF Steps, Sender

LEMMA DeliveryKept == TypeInv /\ AllDelivery /\ [Next]_vars => AllDelivery'
<1> SUFFICES ASSUME TypeInv, AllDelivery, [Next]_vars, NEW q \in Processes PROVE DeliveryInv(q)'
  BY DEF AllDelivery
<1>1. DeliveryInv(q)
  BY DEF AllDelivery
<1>2. CASE UNCHANGED vars
  BY <1>1, <1>2, StillDelivers DEF vars, delivery, Still
<1>3. ASSUME NEW p \in Processes, Steps(p) \/ Sender(p) PROVE DeliveryInv(q)'
  BY <1>1, <1>3, MoverDelivers, OthersStill, StillDelivers
<1> QED
  BY <1>2, <1>3 DEF Next

(* Closing says what happened, and nothing is sent behind its back: once   *)
(* the adapter has stopped at most the request in flight still arrives,    *)
(* and "flushed" means that each event the queue took was attempted        *)
(* (telemetry/posthog.py).                                                 *)
THEOREM DeliveryStaysHonest == Spec => []DeliveryIsHonest
<1>1. TypeInv /\ AllDelivery => DeliveryIsHonest
  <2> SUFFICES ASSUME TypeInv, AllDelivery, NEW p \in Processes
               PROVE  overdue[p] <= 1 /\ (flushed[p] = "yes" => attempted[p] + dropped[p] = Offered(p))
    BY DEF DeliveryIsHonest, OnlyInFlightAfterStop, FlushedMeansAttempted, Offered
  <2>1. Untouched(p) \/ Delivering(p) \/ Closing(p)
    BY DEF AllDelivery, DeliveryInv, TypeInv, FilesType
  <2> QED
    BY <2>1 DEF Untouched, Delivering, Closing, Sending, TypeInv, DeliveryType
<1> QED
  BY <1>1, TypesAtFirst, TypesKept, DeliveryAtFirst, DeliveryKept, PTL DEF Spec

------------------------------------------------------------------------------
(* The order of a command's steps.                                          *)
LEMMA LeastExists ==
  ASSUME NEW S \in SUBSET Nat, S # {}
  PROVE  \E x \in S : \A y \in S : x <= y
<1> DEFINE Less == {pair \in Nat \X Nat : pair[1] < pair[2]}
<1>1. IsWellFoundedOn(Less, Nat)
  BY NatLessThanWellFounded, Zenon DEF OpToRel
<1>2. IsWellFoundedOn(Less, S)
  BY <1>1 DEF IsWellFoundedOn
<1>3. \A x, y \in S : <<y, x>> \notin Less => x <= y
  OBVIOUS
<1> HIDE DEF Less
<1>4. PICK x \in S : \A y \in S : <<y, x>> \notin Less
  BY <1>2, WFMin
<1> QED
  BY <1>3, <1>4

LEMMA MinIs ==
  ASSUME NEW S \in SUBSET Nat, NEW m \in S, \A y \in S : m <= y
  PROVE  Cmd!Min(S) = m
<1> DEFINE Least(x) == \A y \in S : x <= y
<1>1. \A x \in S : Least(x) <=> x = m
  BY SMT
<1>2. Cmd!Min(S) = CHOOSE x \in S : Least(x)
  BY DEF Cmd!Min
<1> HIDE DEF Least
<1> QED
  BY <1>1, <1>2, Zenon

LEMMA MinIn ==
  ASSUME NEW S \in SUBSET Nat, S # {}
  PROVE  Cmd!Min(S) \in S
BY LeastExists, MinIs

(* Every command is one of the tables. *)
Table(c) == Cmd!Steps[c]
Nth(c, i) == Cmd!Steps[c][i].name
HasStep(c, n) == \E i \in DOMAIN Table(c) : Nth(c, i) = n

LEMMA Tables ==
  ASSUME NEW c \in DOMAIN Cmd!Steps
  PROVE  /\ DOMAIN Table(c) \in SUBSET Nat
         /\ 1 \in DOMAIN Table(c)
         /\ c \in {"init", "debug", "profile", "generate", "report", "baseline", "diff", "run", "changes", "monitor", "redact"}
         /\ \A i, j \in DOMAIN Table(c) : Nth(c, i) = Nth(c, j) => i = j
         /\ \A i \in DOMAIN Table(c) : i + 1 \notin DOMAIN Table(c) => \A j \in DOMAIN Table(c) : j <= i
<1>1. DOMAIN Cmd!Steps = {"init", "debug", "profile", "generate", "report", "baseline", "diff", "run", "changes", "monitor", "redact"}
  BY DEF Cmd!Steps
<1>2. CASE c = "init"
  BY <1>2 DEF Table, Nth, Cmd!Steps, Cmd!InitSteps, Cmd!Step
<1>3. CASE c = "debug"
  BY <1>3 DEF Table, Nth, Cmd!Steps, Cmd!DebugSteps, Cmd!Step
<1>4. CASE c = "profile"
  BY <1>4 DEF Table, Nth, Cmd!Steps, Cmd!ProfileSteps, Cmd!Step
<1>5. CASE c = "generate"
  BY <1>5 DEF Table, Nth, Cmd!Steps, Cmd!GenerateSteps, Cmd!Step
<1>6. CASE c = "report"
  BY <1>6 DEF Table, Nth, Cmd!Steps, Cmd!ReportSteps, Cmd!Step
<1>7. CASE c = "baseline"
  BY <1>7 DEF Table, Nth, Cmd!Steps, Cmd!BaselineSteps, Cmd!Step
<1>8. CASE c = "diff"
  BY <1>8 DEF Table, Nth, Cmd!Steps, Cmd!DiffSteps, Cmd!Step
<1>9. CASE c = "run"
  BY <1>9 DEF Table, Nth, Cmd!Steps, Cmd!RunSteps, Cmd!Step
<1>10. CASE c = "changes"
  BY <1>10 DEF Table, Nth, Cmd!Steps, Cmd!ChangesSteps, Cmd!Step
<1>11. CASE c = "monitor"
  BY <1>11 DEF Table, Nth, Cmd!Steps, Cmd!MonitorSteps, Cmd!Step
<1>12. CASE c = "redact"
  BY <1>12 DEF Table, Nth, Cmd!Steps, Cmd!RedactSteps, Cmd!Step
<1> QED
  BY <1>1, <1>2, <1>3, <1>4, <1>5, <1>6, <1>7, <1>8, <1>9, <1>10, <1>11, <1>12

(* Where the command is, and what comes after.                              *)
LEMMA PlaceIs ==
  ASSUME command \in DOMAIN Cmd!Steps, NEW i \in DOMAIN Table(command), Nth(command, i) = next
  PROVE  Cmd!Place = i
BY Tables DEF Cmd!Place, Table, Nth

LEMMA FollowingIsLater ==
  ASSUME command \in DOMAIN Cmd!Steps
  PROVE  /\ Cmd!Following \in SUBSET DOMAIN Table(command)
         /\ Cmd!Following # {} => HasStep(command, Cmd!Steps[command][Cmd!Min(Cmd!Following)].name)
<1>1. Cmd!Following \in SUBSET DOMAIN Table(command)
  BY DEF Cmd!Following, Table
<1>2. DOMAIN Table(command) \in SUBSET Nat
  BY Tables
<1> QED
  BY <1>1, <1>2, MinIn DEF HasStep, Nth

LEMMA NextInOrder ==
  ASSUME command \in DOMAIN Cmd!Steps, NEW i \in DOMAIN Table(command), Nth(command, i) = next,
         \A j \in DOMAIN Table(command) : j > i => Cmd!Asked(Cmd!Steps[command][j])
  PROVE  /\ i + 1 \in DOMAIN Table(command) =>
              Cmd!Following # {} /\ Cmd!Steps[command][Cmd!Min(Cmd!Following)].name = Nth(command, i + 1)
         /\ i + 1 \notin DOMAIN Table(command) => Cmd!Following = {}
<1>1. DOMAIN Table(command) \in SUBSET Nat
  BY Tables
<1>2. Cmd!Following = {j \in DOMAIN Table(command) : j > i}
  BY PlaceIs DEF Cmd!Following, Table
<1>3. ASSUME i + 1 \in DOMAIN Table(command)
      PROVE  Cmd!Following # {} /\ Cmd!Min(Cmd!Following) = i + 1
  <2>1. Cmd!Following \in SUBSET Nat /\ i + 1 \in Cmd!Following /\ \A y \in Cmd!Following : i + 1 <= y
    BY <1>1, <1>2, <1>3
  <2> QED
    BY <2>1, MinIs
<1>4. i + 1 \notin DOMAIN Table(command) => Cmd!Following = {}
  BY <1>1, <1>2, Tables
<1> QED
  BY <1>3, <1>4 DEF Nth

------------------------------------------------------------------------------
(* What the runtime has recorded.                                           *)
Fields == {"not_requested", "written", "error"}
Stages == {"project_discovery", "config_load", "profile_load", "suite_load", "baseline_load", "document_load",
           "client_setup", "probe", "profile_collection", "baseline_write", "provider_request",
           "generation_validation", "artifact_write", "report_render", "report_open", "diff_compare", "engine"}
Runtimes ==
  [entered : BOOLEAN, outcome : {"success", "user_error", "unexpected_error", "engine_error"},
   stage : Stages \cup {"none"}, code : {"none", "safe"}, results : Fields, report : Fields, baseline : Fields,
   generated : Fields, written : BOOLEAN, probe : {"none", "success", "error"}, probed : BOOLEAN]

(* Nothing was written in vain, so far.                                     *)
Unharmed(r) == "error" \notin {r.results, r.report, r.baseline, r.generated}

(* What is recorded of the outcome, and of what a command wrote.            *)
Told(r) == (r.outcome = "success" <=> r.stage = "none") /\ (r.outcome = "success" <=> r.code = "none")
Probing(r) == r.probe # "none" <=> r.probed = TRUE
Filed(r) ==
  /\ "error" \in {r.results, r.report} => r.stage \in {"artifact_write", "report_render"}
  /\ r.baseline = "error" => r.stage = "baseline_write"
  /\ r.generated = "error" => r.stage = "artifact_write"
  /\ r.generated # "not_requested" => r.written = TRUE

Valid(r) == r \in Runtimes /\ Told(r) /\ Probing(r) /\ Filed(r)

LEMMA ValidatesWhenValid == ASSUME NEW r, Valid(r) PROVE Cmd!Validates(r)
<1>1. r.probed \in BOOLEAN /\ r.written \in BOOLEAN
  BY DEF Valid, Runtimes
<1> QED
  BY <1>1 DEF Valid, Told, Probing, Filed, Cmd!Validates

LEMMA FailSets ==
  ASSUME NEW r \in Runtimes, NEW o \in {"user_error", "unexpected_error", "engine_error"}, NEW s \in Stages
  PROVE  /\ Cmd!Fail(r, o, s) \in Runtimes
         /\ Cmd!Fail(r, o, s).outcome = o
         /\ Cmd!Fail(r, o, s).stage = s
         /\ Cmd!Fail(r, o, s).code = "safe"
         /\ Cmd!Fail(r, o, s).entered = r.entered
         /\ Cmd!Fail(r, o, s).results = r.results
         /\ Cmd!Fail(r, o, s).report = r.report
         /\ Cmd!Fail(r, o, s).baseline = r.baseline
         /\ Cmd!Fail(r, o, s).generated = r.generated
         /\ Cmd!Fail(r, o, s).written = r.written
         /\ Cmd!Fail(r, o, s).probe = r.probe
         /\ Cmd!Fail(r, o, s).probed = r.probed
BY DEF Runtimes, Cmd!Fail

LEMMA FailRecords ==
  ASSUME NEW r, Valid(r), Unharmed(r),
         NEW o \in {"user_error", "unexpected_error", "engine_error"}, NEW s \in Stages
  PROVE  /\ Valid(Cmd!Fail(r, o, s)) /\ Unharmed(Cmd!Fail(r, o, s)) /\ Cmd!Fail(r, o, s).outcome # "success"
         /\ Cmd!Fail(r, o, s).entered = r.entered
<1> DEFINE f == Cmd!Fail(r, o, s)
<1>1. /\ f \in Runtimes /\ f.outcome = o /\ f.stage = s /\ f.code = "safe" /\ f.entered = r.entered
      /\ f.results = r.results /\ f.report = r.report /\ f.baseline = r.baseline
      /\ f.generated = r.generated /\ f.written = r.written /\ f.probe = r.probe /\ f.probed = r.probed
  BY FailSets DEF Valid
<1> HIDE DEF f
<1>2. f.outcome # "success" /\ f.stage # "none" /\ f.code # "none"
  BY <1>1 DEF Stages
<1>3. Valid(f) /\ Unharmed(f)
  BY <1>1, <1>2 DEF Valid, Told, Probing, Filed, Unharmed
<1> QED
  BY <1>1, <1>2, <1>3 DEF f

LEMMA FailIfNoneRecords ==
  ASSUME NEW r, Valid(r), r.outcome # "success" \/ Unharmed(r),
         NEW o \in {"user_error", "unexpected_error", "engine_error"}, NEW s \in Stages
  PROVE  /\ Valid(Cmd!FailIfNone(r, o, s)) /\ Cmd!FailIfNone(r, o, s).outcome # "success"
         /\ Unharmed(r) => Unharmed(Cmd!FailIfNone(r, o, s))
         /\ Cmd!FailIfNone(r, o, s).entered = r.entered
BY FailRecords DEF Cmd!FailIfNone

(* A failure to write is recorded together with the stage it belongs to.    *)
LEMMA UnwrittenRecords ==
  ASSUME NEW r, Valid(r), Unharmed(r)
  PROVE  /\ \A s \in {"artifact_write", "report_render"} :
              Valid(Cmd!Fail(Cmd!Artifacts(r, "error"), "unexpected_error", s))
         /\ Valid(Cmd!Fail(Cmd!Baseline(r, "error"), "unexpected_error", "baseline_write"))
         /\ \A o \in {"user_error", "unexpected_error"} :
              Valid(Cmd!Fail(Cmd!Generated(r, "error"), o, "artifact_write"))
         /\ \A o \in {"user_error", "unexpected_error"} :
              Valid(Cmd!Fail([r EXCEPT !.report = "error"], o, "report_render"))
<1>1. r \in Runtimes
  BY DEF Valid
<1>2. ASSUME NEW s \in {"artifact_write", "report_render"}
      PROVE  Valid(Cmd!Fail(Cmd!Artifacts(r, "error"), "unexpected_error", s))
  <2> DEFINE x == Cmd!Artifacts(r, "error")
  <2>1. /\ x \in Runtimes /\ x.baseline = r.baseline /\ x.generated = r.generated /\ x.written = TRUE
        /\ x.probe = r.probe /\ x.probed = r.probed
    BY <1>1 DEF Runtimes, Fields, Cmd!Artifacts
  <2> DEFINE f == Cmd!Fail(x, "unexpected_error", s)
  <2> HIDE DEF x
  <2>2. /\ f \in Runtimes /\ f.outcome = "unexpected_error" /\ f.stage = s /\ f.code = "safe" /\ f.entered = x.entered
        /\ f.results = x.results /\ f.report = x.report /\ f.baseline = x.baseline
        /\ f.generated = x.generated /\ f.written = x.written /\ f.probe = x.probe /\ f.probed = x.probed
    BY <2>1, FailSets DEF Stages
  <2> HIDE DEF f
  <2>3. f.outcome # "success" /\ f.stage # "none" /\ f.code # "none"
    BY <2>2
  <2>4. Valid(f)
    BY <2>1, <2>2, <2>3 DEF Valid, Told, Probing, Filed, Unharmed
  <2> QED
    BY <2>4 DEF f, x
<1>3. Valid(Cmd!Fail(Cmd!Baseline(r, "error"), "unexpected_error", "baseline_write"))
  <2> DEFINE x == Cmd!Baseline(r, "error")
  <2>1. /\ x \in Runtimes /\ x.results = r.results /\ x.report = r.report /\ x.generated = r.generated
        /\ x.written = TRUE /\ x.probe = r.probe /\ x.probed = r.probed
    BY <1>1 DEF Runtimes, Fields, Cmd!Baseline
  <2> DEFINE f == Cmd!Fail(x, "unexpected_error", "baseline_write")
  <2> HIDE DEF x
  <2>2. /\ f \in Runtimes /\ f.outcome = "unexpected_error" /\ f.stage = "baseline_write" /\ f.code = "safe" /\ f.entered = x.entered
        /\ f.results = x.results /\ f.report = x.report /\ f.baseline = x.baseline
        /\ f.generated = x.generated /\ f.written = x.written /\ f.probe = x.probe /\ f.probed = x.probed
    BY <2>1, FailSets DEF Stages
  <2> HIDE DEF f
  <2>3. f.outcome # "success" /\ f.stage # "none" /\ f.code # "none"
    BY <2>2
  <2>4. Valid(f)
    BY <2>1, <2>2, <2>3 DEF Valid, Told, Probing, Filed, Unharmed
  <2> QED
    BY <2>4 DEF f, x
<1>4. ASSUME NEW o \in {"user_error", "unexpected_error"}
      PROVE  Valid(Cmd!Fail(Cmd!Generated(r, "error"), o, "artifact_write"))
  <2> DEFINE x == Cmd!Generated(r, "error")
  <2>1. /\ x \in Runtimes /\ x.results = r.results /\ x.report = r.report /\ x.baseline = r.baseline
        /\ x.written = TRUE /\ x.probe = r.probe /\ x.probed = r.probed
    BY <1>1 DEF Runtimes, Fields, Cmd!Generated
  <2> DEFINE f == Cmd!Fail(x, o, "artifact_write")
  <2> HIDE DEF x
  <2>2. /\ f \in Runtimes /\ f.outcome = o /\ f.stage = "artifact_write" /\ f.code = "safe" /\ f.entered = x.entered
        /\ f.results = x.results /\ f.report = x.report /\ f.baseline = x.baseline
        /\ f.generated = x.generated /\ f.written = x.written /\ f.probe = x.probe /\ f.probed = x.probed
    BY <2>1, FailSets DEF Stages
  <2> HIDE DEF f
  <2>3. f.outcome # "success" /\ f.stage # "none" /\ f.code # "none"
    BY <2>2
  <2>4. Valid(f)
    BY <2>1, <2>2, <2>3 DEF Valid, Told, Probing, Filed, Unharmed
  <2> QED
    BY <2>4 DEF f, x
<1>5. ASSUME NEW o \in {"user_error", "unexpected_error"}
      PROVE  Valid(Cmd!Fail([r EXCEPT !.report = "error"], o, "report_render"))
  <2> DEFINE x == [r EXCEPT !.report = "error"]
  <2>1. /\ x \in Runtimes /\ x.results = r.results /\ x.baseline = r.baseline /\ x.generated = r.generated
        /\ x.written = r.written /\ x.probe = r.probe /\ x.probed = r.probed
    BY <1>1 DEF Runtimes, Fields
  <2> DEFINE f == Cmd!Fail(x, o, "report_render")
  <2> HIDE DEF x
  <2>2. /\ f \in Runtimes /\ f.outcome = o /\ f.stage = "report_render" /\ f.code = "safe" /\ f.entered = x.entered
        /\ f.results = x.results /\ f.report = x.report /\ f.baseline = x.baseline
        /\ f.generated = x.generated /\ f.written = x.written /\ f.probe = x.probe /\ f.probed = x.probed
    BY <2>1, FailSets DEF Stages
  <2> HIDE DEF f
  <2>3. f.outcome # "success" /\ f.stage # "none" /\ f.code # "none"
    BY <2>2
  <2>4. Valid(f)
    BY <2>1, <2>2, <2>3 DEF Valid, Told, Probing, Filed, Unharmed
  <2> QED
    BY <2>4 DEF f, x
<1> QED
  BY <1>2, <1>3, <1>4, <1>5

LEMMA StagesAreNamed ==
  ASSUME NEW code
  PROVE  Cmd!StageForError(code) \in Stages
<1> DEFINE stage == Cmd!StageForError(code)
<1>1. stage \in {"project_discovery", "profile_load", "suite_load", "probe", "report_render", "baseline_load",
                "document_load", "provider_request", "generation_validation", "artifact_write", "config_load"}
  BY Zenon DEF Cmd!StageForError
<1> HIDE DEF stage
<1>2. stage \in Stages
  BY <1>1 DEF Stages
<1> QED
  BY <1>2 DEF stage

(* Steps that succeed record nothing bad.                                   *)
LEMMA DoneRecords ==
  ASSUME Valid(rt), Unharmed(rt), NEW s
  PROVE  Valid(Cmd!Done(s)) /\ Unharmed(Cmd!Done(s)) /\ Cmd!Done(s).outcome = rt.outcome /\ Cmd!Done(s).entered = rt.entered
<1> DEFINE d == Cmd!Done(s)
           Good(x) == x \in Runtimes /\ x.outcome = rt.outcome /\ x.stage = rt.stage /\ x.code = rt.code /\ x.entered = rt.entered
                        /\ Probing(x) /\ Unharmed(x) /\ (x.generated # "not_requested" => x.written = TRUE)
<1>1. d \in {rt, Cmd!Probed(rt, "success"), Cmd!Baseline(rt, "written"), Cmd!Generated(rt, "written"),
             [rt EXCEPT !.report = "written"]}
  BY Zenon DEF Cmd!Done
<1>2. rt \in Runtimes /\ Probing(rt) /\ Unharmed(rt) /\ (rt.generated # "not_requested" => rt.written = TRUE)
  BY DEF Valid, Filed
<1>3. Good(rt)
  BY <1>2
<1>4. Good(Cmd!Probed(rt, "success"))
  BY <1>2 DEF Runtimes, Probing, Unharmed, Cmd!Probed
<1>5. Good(Cmd!Baseline(rt, "written"))
  BY <1>2 DEF Runtimes, Fields, Probing, Unharmed, Cmd!Baseline
<1>6. Good(Cmd!Generated(rt, "written"))
  BY <1>2 DEF Runtimes, Fields, Probing, Unharmed, Cmd!Generated
<1>7. Good([rt EXCEPT !.report = "written"])
  BY <1>2 DEF Runtimes, Fields, Probing, Unharmed
<1>8. Good(d)
  <2> HIDE DEF Good, d
  <2> QED
    BY <1>1, <1>3, <1>4, <1>5, <1>6, <1>7
<1> HIDE DEF d
<1>9. Valid(d)
  BY <1>8 DEF Valid, Told, Filed, Unharmed
<1> QED
  BY <1>8, <1>9 DEF d

------------------------------------------------------------------------------
(* What the handlers record of an exception.                                *)
LEMMA CurrentIs ==
  ASSUME command \in DOMAIN Cmd!Steps, HasStep(command, next), NEW e \in Cmd!Current.raises
  PROVE  \E i \in DOMAIN Table(command) : Nth(command, i) = next /\ e \in Cmd!Steps[command][i].raises
<1>1. Cmd!Range(Cmd!Steps[command]) = {Cmd!Steps[command][i] : i \in DOMAIN Table(command)}
  BY DEF Cmd!Range, Table
<1>2. \E step \in Cmd!Range(Cmd!Steps[command]) : step.name = next
  BY <1>1 DEF HasStep, Nth
<1>3. Cmd!Current \in Cmd!Range(Cmd!Steps[command]) /\ Cmd!Current.name = next
  BY <1>2 DEF Cmd!Current
<1> QED
  BY <1>1, <1>3 DEF Nth

(* A command that goes on has lost nothing; one that ends, or lets the      *)
(* exception go on, has recorded it together with its stage.                *)
Handled(h) ==
  /\ Valid(h.rt) /\ h.rt.entered = rt.entered
  /\ h.how \in {"exit", "raise", "continue"}
  /\ h.how = "continue" => Unharmed(h.rt) /\ h.rt.outcome = "success"
  /\ h.how = "raise" => Unharmed(h.rt) \/ h.rt.outcome # "success"

(* The one exit of a recording command that records nothing.                *)
Spared(h) == command = "generate" /\ next = "dependencies" /\ h.code = 2

Blamed(h) == h.how = "exit" => h.rt.outcome # "success" \/ Spared(h)

LEMMA HowHandled ==
  /\ \A r, code : Cmd!Ends(r, code).rt = r /\ Cmd!Ends(r, code).how = "exit"
                    /\ Cmd!Ends(r, code).code = code
  /\ \A r : Cmd!Raises(r).rt = r /\ Cmd!Raises(r).how = "raise"
  /\ \A r : Cmd!Continues(r).rt = r /\ Cmd!Continues(r).how = "continue"
BY DEF Cmd!Ends, Cmd!Raises, Cmd!Continues

LEMMA InitHandles ==
  ASSUME Valid(rt), Unharmed(rt), rt.outcome = "success", NEW s, NEW e
  PROVE  Handled(Cmd!HandleInit(s, e)) /\ Blamed(Cmd!HandleInit(s, e))
<1>1. Valid(Cmd!Probed(rt, "error")) /\ Unharmed(Cmd!Probed(rt, "error"))
      /\ Cmd!Probed(rt, "error").outcome = "success" /\ Cmd!Probed(rt, "error").entered = rt.entered
  <2> DEFINE x == Cmd!Probed(rt, "error")
  <2>1. /\ x \in Runtimes /\ x.outcome = rt.outcome /\ x.stage = rt.stage /\ x.code = rt.code /\ x.entered = rt.entered
        /\ x.results = rt.results /\ x.report = rt.report /\ x.baseline = rt.baseline /\ x.generated = rt.generated
        /\ x.written = rt.written /\ Probing(x)
    BY DEF Valid, Runtimes, Probing, Cmd!Probed
  <2> HIDE DEF x
  <2>2. Valid(x) /\ Unharmed(x)
    BY <2>1 DEF Valid, Told, Filed, Unharmed
  <2> QED
    BY <2>1, <2>2 DEF x
<1> DEFINE y == Cmd!FailIfNone(rt, "unexpected_error", "project_discovery")
<1>2. \/ Cmd!HandleInit(s, e) = Cmd!Continues(Cmd!Probed(rt, "error"))
      \/ Cmd!HandleInit(s, e) = Cmd!Ends(y, 2)
      \/ Cmd!HandleInit(s, e) = Cmd!Raises(rt)
  BY DEF Cmd!HandleInit
<1>3. Valid(y) /\ y.outcome # "success" /\ y.entered = rt.entered
  <2>1. "project_discovery" \in Stages
    BY DEF Stages
  <2> QED
    BY <2>1, FailIfNoneRecords
<1> HIDE DEF y
<1> QED
  BY <1>1, <1>2, <1>3, HowHandled DEF Handled, Blamed

LEMMA DebugHandles ==
  ASSUME Valid(rt), Unharmed(rt), rt.outcome = "success", NEW s, NEW e
  PROVE  Handled(Cmd!HandleDebug(s, e))
<1> DEFINE x == Cmd!Probed(rt, "error")
<1>1. Valid(x) /\ Unharmed(x) /\ x.entered = rt.entered
  <2>1. /\ x \in Runtimes /\ x.outcome = rt.outcome /\ x.stage = rt.stage /\ x.code = rt.code /\ x.entered = rt.entered
        /\ x.results = rt.results /\ x.report = rt.report /\ x.baseline = rt.baseline /\ x.generated = rt.generated
        /\ x.written = rt.written /\ Probing(x)
    BY DEF Valid, Runtimes, Probing, Cmd!Probed
  <2> HIDE DEF x
  <2> QED
    BY <2>1 DEF Valid, Told, Filed, Unharmed
<1>2. Cmd!StageForError(e.code) \in Stages
  BY StagesAreNamed
<1>3. \A r : Valid(r) /\ Unharmed(r) /\ r.entered = rt.entered =>
        /\ Valid(Cmd!Fail(r, "user_error", Cmd!StageForError(e.code)))
        /\ Cmd!Fail(r, "user_error", Cmd!StageForError(e.code)).entered = rt.entered
  BY <1>2, FailRecords
<1>4. \/ Cmd!HandleDebug(s, e) = Cmd!Ends(rt, 1)
      \/ Cmd!HandleDebug(s, e) = Cmd!Ends(Cmd!Fail(rt, "user_error", Cmd!StageForError(e.code)), 1)
      \/ Cmd!HandleDebug(s, e) = Cmd!Ends(Cmd!Fail(x, "user_error", Cmd!StageForError(e.code)), 1)
  BY DEF Cmd!HandleDebug
<1> HIDE DEF x
<1> QED
  BY <1>1, <1>3, <1>4, HowHandled DEF Handled

LEMMA ProfileHandles ==
  ASSUME Valid(rt), Unharmed(rt), rt.outcome = "success", command = "profile", HasStep(command, next),
         NEW e \in Cmd!Current.raises
  PROVE  Handled(Cmd!HandleProfile(next, e)) /\ Blamed(Cmd!HandleProfile(next, e))
<1>1. next \in {"root", "profiles", "connect", "collect", "save"}
  <2>1. PICK i \in DOMAIN Cmd!ProfileSteps : Cmd!ProfileSteps[i].name = next /\ e \in Cmd!ProfileSteps[i].raises
    <3>1. command \in DOMAIN Cmd!Steps /\ Cmd!Steps["profile"] = Cmd!ProfileSteps
      BY DEF Cmd!Steps
    <3> QED
      BY <3>1, CurrentIs DEF Table, Nth
  <2> QED
    BY <2>1 DEF Cmd!ProfileSteps, Cmd!Step
<1>2. CASE next = "save"
  <2>1. \/ Cmd!HandleProfile(next, e) = Cmd!Ends(Cmd!Fail(Cmd!Baseline(rt, "error"), "unexpected_error", "baseline_write"), 1)
        \/ Cmd!HandleProfile(next, e) = Cmd!Raises(rt)
    BY <1>2, Zenon DEF Cmd!HandleProfile
  <2>2. Cmd!Fail(Cmd!Baseline(rt, "error"), "unexpected_error", "baseline_write").outcome = "unexpected_error"
        /\ Cmd!Fail(Cmd!Baseline(rt, "error"), "unexpected_error", "baseline_write").entered = rt.entered
    BY DEF Valid, Runtimes, Cmd!Fail, Cmd!Baseline
  <2> DEFINE x == Cmd!Fail(Cmd!Baseline(rt, "error"), "unexpected_error", "baseline_write")
  <2>3. Valid(x) /\ x.outcome # "success" /\ x.entered = rt.entered
    BY <2>2, UnwrittenRecords
  <2>4. Cmd!HandleProfile(next, e) = Cmd!Ends(x, 1) \/ Cmd!HandleProfile(next, e) = Cmd!Raises(rt)
    BY <2>1
  <2> HIDE DEF x
  <2> QED
    BY <2>3, <2>4, HowHandled DEF Handled, Blamed
<1>3. CASE next # "save"
  <2>1. \/ Cmd!HandleProfile(next, e) =
              Cmd!Ends(Cmd!Fail(rt, "user_error",
                                IF next = "collect" THEN "profile_collection" ELSE Cmd!StageForError(e.code)), 1)
        \/ Cmd!HandleProfile(next, e) = Cmd!Ends(Cmd!FailIfNone(rt, "unexpected_error", Cmd!UnexpectedStage(next)), 1)
    BY <1>3, Zenon DEF Cmd!HandleProfile
  <2>2. (IF next = "collect" THEN "profile_collection" ELSE Cmd!StageForError(e.code)) \in Stages
    BY StagesAreNamed DEF Stages
  <2>3. Cmd!UnexpectedStage(next) \in {"project_discovery", "profile_load", "client_setup", "profile_collection"}
    BY <1>1, <1>3, Zenon DEF Cmd!UnexpectedStage
  <2>4. Cmd!UnexpectedStage(next) \in Stages
    BY <2>3 DEF Stages
  <2> DEFINE given == IF next = "collect" THEN "profile_collection" ELSE Cmd!StageForError(e.code)
             x == Cmd!Fail(rt, "user_error", given)
             y == Cmd!FailIfNone(rt, "unexpected_error", Cmd!UnexpectedStage(next))
  <2>5. Valid(x) /\ x.outcome # "success" /\ x.entered = rt.entered
    <3> HIDE DEF given
    <3> QED
      BY <2>2, FailRecords DEF given
  <2>6. Valid(y) /\ y.outcome # "success" /\ y.entered = rt.entered
    BY <2>4, FailIfNoneRecords
  <2>7. Cmd!HandleProfile(next, e) = Cmd!Ends(x, 1) \/ Cmd!HandleProfile(next, e) = Cmd!Ends(y, 1)
    BY <2>1
  <2> HIDE DEF x, y
  <2> QED
    BY <2>5, <2>6, <2>7, HowHandled DEF Handled, Blamed
<1> QED
  BY <1>2, <1>3

LEMMA GenerateHandles ==
  ASSUME Valid(rt), Unharmed(rt), rt.outcome = "success", command = "generate", HasStep(command, next),
         NEW e \in Cmd!Current.raises
  PROVE  Handled(Cmd!HandleGenerate(next, e)) /\ Blamed(Cmd!HandleGenerate(next, e))
<1>1. /\ next \in {"dependencies", "root", "config_load", "baseline_load", "document_load",
                   "provider_request", "generation_validation", "artifact_write"}
      /\ e.kind \in {"missing", "graph", "other"}
      /\ e.kind = "missing" => next = "dependencies"
      /\ next = "dependencies" => e.kind # "graph"
      /\ next = "artifact_write" /\ e.kind = "graph" => e.code = <<"generate", "write_">>
  <2>1. PICK i \in DOMAIN Cmd!GenerateSteps : Cmd!GenerateSteps[i].name = next /\ e \in Cmd!GenerateSteps[i].raises
    <3>1. command \in DOMAIN Cmd!Steps /\ Cmd!Steps["generate"] = Cmd!GenerateSteps
      BY DEF Cmd!Steps
    <3> QED
      BY <3>1, CurrentIs DEF Table, Nth
  <2>2. next \in {"dependencies", "root", "config_load", "baseline_load", "document_load",
                  "provider_request", "generation_validation", "artifact_write"}
    BY <2>1 DEF Cmd!GenerateSteps, Cmd!Step
  <2>3. /\ next = "artifact_write" => e \in {Cmd!G("generate", "write_"), Cmd!Other}
        /\ next = "dependencies" => e \in {Cmd!Raised("missing"), Cmd!Other}
        /\ next # "dependencies" =>
             \/ e = Cmd!Other
             \/ \E family, group : e = Cmd!G(family, group)
    BY <2>1 DEF Cmd!GenerateSteps, Cmd!Step, Cmd!NoProject
  <2>4. /\ Cmd!G("generate", "write_").code = <<"generate", "write_">>
        /\ Cmd!Other.kind = "other" /\ Cmd!Raised("missing").kind = "missing"
        /\ \A family, group : Cmd!G(family, group).kind = "graph"
    BY DEF Cmd!G, Cmd!Other, Cmd!Raised
  <2> QED
    BY <2>2, <2>3, <2>4
<1> DEFINE stage == IF next = "root" THEN "project_discovery" ELSE next
<1>2. (next # "dependencies" => stage \in Stages) /\ Cmd!StageForError(e.code) \in Stages
  BY <1>1, StagesAreNamed DEF Stages
<1>3. CASE next = "artifact_write"
  <2> DEFINE x == Cmd!Fail(Cmd!Generated(rt, "error"), "user_error", "artifact_write")
             y == Cmd!Fail(Cmd!Generated(rt, "error"), "unexpected_error", "artifact_write")
  <2>1. e.kind = "graph" => Cmd!StageForError(e.code) = "artifact_write"
    <3>1. Cmd!StageForError(<<"generate", "write_">>) = "artifact_write"
      BY DEF Cmd!StageForError
    <3> QED
      BY <1>1, <1>3, <3>1
  <2>2. Cmd!HandleGenerate(next, e) = Cmd!Ends(x, 1) \/ Cmd!HandleGenerate(next, e) = Cmd!Raises(y)
    BY <1>1, <1>3, <2>1 DEF Cmd!HandleGenerate
  <2>3. x.outcome = "user_error" /\ y.outcome = "unexpected_error" /\ x.entered = rt.entered /\ y.entered = rt.entered
    BY DEF Valid, Runtimes, Cmd!Fail, Cmd!Generated
  <2>4. Valid(x) /\ Valid(y)
    BY UnwrittenRecords
  <2> HIDE DEF x, y
  <2> QED
    BY <2>2, <2>3, <2>4, HowHandled DEF Handled, Blamed
<1>4. CASE next = "dependencies"
  <2>1. \/ Cmd!HandleGenerate(next, e) = Cmd!Ends(rt, 2)
        \/ Cmd!HandleGenerate(next, e) = Cmd!Raises(rt)
    BY <1>1, <1>4 DEF Cmd!HandleGenerate
  <2> QED
    BY <1>4, <2>1, HowHandled DEF Handled, Blamed, Spared
<1>5. CASE next \notin {"artifact_write", "dependencies"}
  <2> DEFINE x == Cmd!Fail(rt, "user_error", Cmd!StageForError(e.code))
             y == Cmd!Fail(rt, "unexpected_error", stage)
  <2>1. Cmd!HandleGenerate(next, e) = Cmd!Ends(x, 1) \/ Cmd!HandleGenerate(next, e) = Cmd!Raises(y)
    BY <1>1, <1>5 DEF Cmd!HandleGenerate
  <2> HIDE DEF stage
  <2>2. /\ Valid(x) /\ x.outcome # "success" /\ x.entered = rt.entered
        /\ Valid(y) /\ y.outcome # "success" /\ y.entered = rt.entered
    BY <1>2, <1>5, FailRecords
  <2> HIDE DEF x, y
  <2> QED
    BY <2>1, <2>2, HowHandled DEF Handled, Blamed
<1> QED
  BY <1>3, <1>4, <1>5

LEMMA ReportHandles ==
  ASSUME Valid(rt), Unharmed(rt), rt.outcome = "success", NEW s, NEW e
  PROVE  Handled(Cmd!HandleReport(s, e)) /\ Blamed(Cmd!HandleReport(s, e))
<1> DEFINE unrendered == "failures" \in options /\ rt.report # "written"
           r == IF unrendered THEN [rt EXCEPT !.report = "error"] ELSE rt
           a == Cmd!Fail(rt, "user_error", "config_load")
           b == Cmd!Fail(rt, "user_error", Cmd!StageForError(e.code))
           c == Cmd!Fail(r, "user_error", "report_render")
           d == Cmd!Fail(rt, "user_error", "report_open")
           f == Cmd!Fail(r, "unexpected_error", "report_render")
<1>1. \/ Cmd!HandleReport(s, e) = Cmd!Ends(a, 2)
      \/ Cmd!HandleReport(s, e) = Cmd!Ends(b, 1)
      \/ Cmd!HandleReport(s, e) =
           Cmd!Ends(Cmd!Fail(r, "user_error", IF unrendered \/ "open" \notin options THEN "report_render" ELSE "report_open"), 1)
      \/ Cmd!HandleReport(s, e) = Cmd!Ends(f, 1)
      \/ Cmd!HandleReport(s, e) = Cmd!Raises(rt)
  BY Zenon DEF Cmd!HandleReport
<1>2. \/ Cmd!Fail(r, "user_error", IF unrendered \/ "open" \notin options THEN "report_render" ELSE "report_open") = c
      \/ Cmd!Fail(r, "user_error", IF unrendered \/ "open" \notin options THEN "report_render" ELSE "report_open") = d
  <2>1. CASE unrendered
    BY <2>1
  <2>2. CASE ~unrendered
    BY <2>2
  <2> QED
    BY <2>1, <2>2
<1>3. Valid(a) /\ a.outcome # "success" /\ a.entered = rt.entered
  BY FailRecords DEF Stages
<1>4. Valid(b) /\ b.outcome # "success" /\ b.entered = rt.entered
  BY FailRecords, StagesAreNamed
<1>5. Valid(d) /\ d.outcome # "success" /\ d.entered = rt.entered
  BY FailRecords DEF Stages
<1>6. Valid(c) /\ Valid(f)
  <2>1. CASE unrendered
    BY <2>1, UnwrittenRecords
  <2>2. CASE ~unrendered
    BY <2>2, FailRecords DEF Stages
  <2> QED
    BY <2>1, <2>2
<1>7. c.outcome = "user_error" /\ f.outcome = "unexpected_error" /\ c.entered = rt.entered /\ f.entered = rt.entered
  <2>1. CASE unrendered
    BY <2>1 DEF Valid, Runtimes, Cmd!Fail
  <2>2. CASE ~unrendered
    BY <2>2 DEF Valid, Runtimes, Cmd!Fail
  <2> QED
    BY <2>1, <2>2
<1> HIDE DEF unrendered, r, a, b, c, d, f
<1> QED
  BY <1>1, <1>2, <1>3, <1>4, <1>5, <1>6, <1>7, HowHandled DEF Handled, Blamed

LEMMA BaselineHandles ==
  ASSUME Valid(rt), Unharmed(rt), rt.outcome = "success", NEW s, NEW e
  PROVE  Handled(Cmd!HandleBaseline(s, e)) /\ Blamed(Cmd!HandleBaseline(s, e))
<1> DEFINE a == Cmd!Fail(rt, "user_error", "baseline_load")
<1>1. Cmd!HandleBaseline(s, e) = Cmd!Ends(a, 1) \/ Cmd!HandleBaseline(s, e) = Cmd!Raises(rt)
  BY DEF Cmd!HandleBaseline
<1>2. Valid(a) /\ a.outcome # "success" /\ a.entered = rt.entered
  BY FailRecords DEF Stages
<1> HIDE DEF a
<1> QED
  BY <1>1, <1>2, HowHandled DEF Handled, Blamed

LEMMA DiffHandles ==
  ASSUME Valid(rt), Unharmed(rt), rt.outcome = "success", NEW s, NEW e
  PROVE  Handled(Cmd!HandleDiff(s, e)) /\ Blamed(Cmd!HandleDiff(s, e))
<1> DEFINE a == Cmd!Fail(rt, "user_error", "baseline_load")
           b == Cmd!Fail(rt, "user_error", "diff_compare")
           c == Cmd!Fail(rt, "unexpected_error", "diff_compare")
<1>1. \/ Cmd!HandleDiff(s, e) = Cmd!Ends(a, 2)
      \/ Cmd!HandleDiff(s, e) = Cmd!Ends(b, 2)
      \/ Cmd!HandleDiff(s, e) = Cmd!Raises(c)
      \/ Cmd!HandleDiff(s, e) = Cmd!Raises(rt)
  BY Zenon DEF Cmd!HandleDiff
<1>2. /\ Valid(a) /\ a.outcome # "success" /\ a.entered = rt.entered
      /\ Valid(b) /\ b.outcome # "success" /\ b.entered = rt.entered
      /\ Valid(c) /\ c.outcome # "success" /\ c.entered = rt.entered
  BY FailRecords DEF Stages
<1> HIDE DEF a, b, c
<1> QED
  BY <1>1, <1>2, HowHandled DEF Handled, Blamed

LEMMA OtherHandles ==
  ASSUME Valid(rt), Unharmed(rt), NEW e
  PROVE  Handled(Cmd!HandleOther(e)) /\ Unharmed(Cmd!HandleOther(e).rt)
<1>1. \/ \E code : Cmd!HandleOther(e) = Cmd!Ends(rt, code)
      \/ Cmd!HandleOther(e) = Cmd!Raises(rt)
  BY DEF Cmd!HandleOther
<1> QED
  BY <1>1, HowHandled DEF Handled

LEMMA InstrumentedAre ==
  Cmd!Instrumented = {"init", "debug", "profile", "generate", "report", "baseline", "diff", "run"}
BY DEF Cmd!Instrumented, Cmd!Steps

LEMMA HandlerRecords ==
  ASSUME Valid(rt), Unharmed(rt), rt.outcome = "success", command \in DOMAIN Cmd!Steps, command # "run",
         HasStep(command, next), NEW e \in Cmd!Current.raises
  PROVE  /\ Handled(Cmd!Handle(next, e))
         /\ command \in Cmd!Instrumented \ {"debug"} => Blamed(Cmd!Handle(next, e))
         /\ command \notin Cmd!Instrumented => Unharmed(Cmd!Handle(next, e).rt)
<1> DEFINE h == Cmd!Handle(next, e)
<1>1. command = "init" => h = Cmd!HandleInit(next, e)
  BY DEF Cmd!Handle
<1>2. command = "debug" => h = Cmd!HandleDebug(next, e)
  BY DEF Cmd!Handle
<1>3. command = "profile" => h = Cmd!HandleProfile(next, e)
  BY DEF Cmd!Handle
<1>4. command = "generate" => h = Cmd!HandleGenerate(next, e)
  BY DEF Cmd!Handle
<1>5. command = "report" => h = Cmd!HandleReport(next, e)
  BY DEF Cmd!Handle
<1>6. command = "baseline" => h = Cmd!HandleBaseline(next, e)
  BY DEF Cmd!Handle
<1>7. command = "diff" => h = Cmd!HandleDiff(next, e)
  BY DEF Cmd!Handle
<1>8. command \in {"changes", "monitor", "redact"} => h = Cmd!HandleOther(e)
  BY DEF Cmd!Handle
<1>9. command \in {"init", "debug", "profile", "generate", "report", "baseline", "diff", "changes", "monitor", "redact"}
  BY Tables
<1> HIDE DEF h
<1> QED
  BY <1>1, <1>2, <1>3, <1>4, <1>5, <1>6, <1>7, <1>8, <1>9, InitHandles, DebugHandles, ProfileHandles,
     GenerateHandles, ReportHandles, BaselineHandles, DiffHandles, OtherHandles, InstrumentedAre DEF h

------------------------------------------------------------------------------
(* One command, at each of its stages.                                      *)
CommandType ==
  /\ command \in DOMAIN Cmd!Steps /\ HasStep(command, next)
  /\ phase \in {"parse", "run", "finish", "unwind", "done"}
  /\ failed \in BOOLEAN /\ consented \in BOOLEAN /\ rt.entered \in BOOLEAN
  /\ writes \in Nat /\ reported \in Nat

Unrecorded ==
  command = "generate" /\ next = "dependencies" /\ rt.entered /\ exit = 2

(* What the runtime knows, and when it knows of a failure.                  *)
RecordInv ==
  /\ Valid(rt)
  /\ phase \in {"parse", "run"} \/ ~rt.entered => Unharmed(rt)
  /\ phase = "parse" => rt.outcome = "success" /\ ~failed /\ ~rt.entered
  /\ phase = "run" => (rt.entered <=> command \in Cmd!Instrumented)
  /\ phase = "run" /\ command # "run" => rt.outcome = "success" /\ ~failed
  /\ phase = "run" /\ command = "run" =>
       /\ rt.outcome # "success" \/ results.status = "failed" => failed
       /\ failed => rt.outcome # "success" \/ (results.status = "failed" /\ next \in {"close", "write"})
  /\ phase = "parse" => results.status # "failed"
  /\ phase = "unwind" =>
       IF rt.entered THEN rt.outcome # "success" /\ failed ELSE command \notin Cmd!Instrumented
  /\ phase = "finish" /\ command \in Cmd!Instrumented \ {"debug"} /\ ~Unrecorded =>
       IF rt.entered THEN rt.outcome = "success" <=> ~failed ELSE failed /\ exit # 0
  /\ phase = "done" /\ command \in Cmd!Instrumented \ {"debug"} /\ ~Unrecorded =>
       (rt.outcome = "success" <=> ~failed)

(* A connection is open between the steps that need it.                     *)
Connected ==
  /\ phase = "run"
  /\ \/ command = "profile" /\ next \in {"collect", "close"}
     \/ command = "monitor" /\ next \in {"serve", "close"}
     \/ command = "run" /\ next \in {"verify", "engine", "close"}

ClientInv ==
  /\ client = "open" => Connected
  /\ writes <= 1
  /\ writes > 0 => command = "run" /\ (phase = "run" => next = "print") /\ phase # "parse"
  /\ phase # "done" => reported = 0
  /\ phase = "done" /\ consented => reported = 1

CommandInv == CommandType /\ RecordInv /\ ClientInv

LEMMA CommandStarts == Cmd!Init => CommandInv
<1> SUFFICES ASSUME Cmd!Init PROVE CommandInv
  OBVIOUS
<1>1. command \in DOMAIN Cmd!Steps
  BY ServicesAssumption DEF Cmd!Init
<1>2. HasStep(command, next)
  BY <1>1, Tables DEF Cmd!Init, HasStep, Nth, Table
<1>3. Valid(rt) /\ Unharmed(rt) /\ rt.outcome = "success" /\ rt.entered = FALSE
  BY DEF Cmd!Init, Cmd!Fresh, Valid, Runtimes, Fields, Stages, Told, Probing, Filed, Unharmed
<1>4. results.status = "none"
  BY DEF Cmd!Init, Cmd!NoResults
<1>5. CommandType
  BY <1>1, <1>2, <1>3 DEF Cmd!Init, CommandType
<1>6. RecordInv
  BY <1>3, <1>4 DEF Cmd!Init, RecordInv
<1>7. ClientInv
  BY DEF Cmd!Init, ClientInv
<1> QED
  BY <1>5, <1>6, <1>7 DEF CommandInv

(* Where a step that succeeds leads to.                                     *)
LEMMA GoesOn ==
  ASSUME CommandType, Cmd!GoOn
  PROVE  \/ phase' = "finish" /\ next' = next
         \/ HasStep(command, next') /\ UNCHANGED <<phase, exit>>
BY FollowingIsLater DEF Cmd!GoOn, CommandType

LEMMA GoesToNext ==
  ASSUME CommandType, Cmd!GoOn, command # "report", NEW i \in DOMAIN Table(command), Nth(command, i) = next
  PROVE  /\ i + 1 \in DOMAIN Table(command) => next' = Nth(command, i + 1) /\ UNCHANGED phase
         /\ i + 1 \notin DOMAIN Table(command) => phase' = "finish" /\ next' = next
<1>1. \A j \in DOMAIN Table(command) : Nth(command, j) # "render"
  <2>1. CASE command = "init"
    BY <2>1 DEF Table, Nth, Cmd!Steps, Cmd!InitSteps, Cmd!Step
  <2>2. CASE command = "debug"
    BY <2>2 DEF Table, Nth, Cmd!Steps, Cmd!DebugSteps, Cmd!Step
  <2>3. CASE command = "profile"
    BY <2>3 DEF Table, Nth, Cmd!Steps, Cmd!ProfileSteps, Cmd!Step
  <2>4. CASE command = "generate"
    BY <2>4 DEF Table, Nth, Cmd!Steps, Cmd!GenerateSteps, Cmd!Step
  <2>5. CASE command = "baseline"
    BY <2>5 DEF Table, Nth, Cmd!Steps, Cmd!BaselineSteps, Cmd!Step
  <2>6. CASE command = "diff"
    BY <2>6 DEF Table, Nth, Cmd!Steps, Cmd!DiffSteps, Cmd!Step
  <2>7. CASE command = "run"
    BY <2>7 DEF Table, Nth, Cmd!Steps, Cmd!RunSteps, Cmd!Step
  <2>8. CASE command = "changes"
    BY <2>8 DEF Table, Nth, Cmd!Steps, Cmd!ChangesSteps, Cmd!Step
  <2>9. CASE command = "monitor"
    BY <2>9 DEF Table, Nth, Cmd!Steps, Cmd!MonitorSteps, Cmd!Step
  <2>10. CASE command = "redact"
    BY <2>10 DEF Table, Nth, Cmd!Steps, Cmd!RedactSteps, Cmd!Step
  <2> QED
    BY Tables, <2>1, <2>2, <2>3, <2>4, <2>5, <2>6, <2>7, <2>8, <2>9, <2>10 DEF CommandType
<1>2. \A j \in DOMAIN Table(command) : Cmd!Asked(Cmd!Steps[command][j])
  BY <1>1 DEF Cmd!Asked, Nth
<1> QED
  BY <1>2, NextInOrder DEF Cmd!GoOn, CommandType

LEMMA OrderOfSteps ==
  ASSUME CommandType, Cmd!GoOn
  PROVE  /\ command = "profile" /\ next = "connect" => next' = "collect" /\ UNCHANGED phase
         /\ command = "profile" /\ next = "collect" => next' = "close" /\ UNCHANGED phase
         /\ command = "monitor" /\ next = "connect" => next' = "serve" /\ UNCHANGED phase
         /\ command = "monitor" /\ next = "serve" => next' = "close" /\ UNCHANGED phase
         /\ command = "run" /\ next = "connect" => next' = "verify" /\ UNCHANGED phase
         /\ command = "run" /\ next = "verify" => next' = "engine" /\ UNCHANGED phase
         /\ command = "run" /\ next = "print" => phase' = "finish" /\ next' = next
<1>1. ASSUME command = "profile"
      PROVE  /\ DOMAIN Table(command) = 1..7 /\ Nth(command, 3) = "connect" /\ Nth(command, 4) = "collect"
             /\ Nth(command, 5) = "close"
  BY <1>1 DEF Table, Nth, Cmd!Steps, Cmd!ProfileSteps, Cmd!Step
<1>2. ASSUME command = "monitor"
      PROVE  /\ DOMAIN Table(command) = 1..5 /\ Nth(command, 3) = "connect" /\ Nth(command, 4) = "serve"
             /\ Nth(command, 5) = "close"
  BY <1>2 DEF Table, Nth, Cmd!Steps, Cmd!MonitorSteps, Cmd!Step
<1>3. ASSUME command = "run"
      PROVE  /\ DOMAIN Table(command) = 1..11 /\ Nth(command, 6) = "connect" /\ Nth(command, 7) = "verify"
             /\ Nth(command, 8) = "engine" /\ Nth(command, 11) = "print"
  BY <1>3 DEF Table, Nth, Cmd!Steps, Cmd!RunSteps, Cmd!Step
<1>4. ASSUME command # "report", NEW i \in DOMAIN Table(command), Nth(command, i) = next
      PROVE  /\ i + 1 \in DOMAIN Table(command) => next' = Nth(command, i + 1) /\ UNCHANGED phase
             /\ i + 1 \notin DOMAIN Table(command) => phase' = "finish" /\ next' = next
  BY <1>4, GoesToNext
<1> QED
  BY <1>1, <1>2, <1>3, <1>4

LEMMA OnlyTheseConnect ==
  ASSUME NEW c \in DOMAIN Cmd!Steps, HasStep(c, "connect")
  PROVE  c \in {"profile", "monitor", "run"}
<1>1. c # "init"
  BY DEF HasStep, Table, Nth, Cmd!Steps, Cmd!InitSteps, Cmd!Step
<1>2. c # "debug"
  BY DEF HasStep, Table, Nth, Cmd!Steps, Cmd!DebugSteps, Cmd!Step
<1>3. c # "generate"
  BY DEF HasStep, Table, Nth, Cmd!Steps, Cmd!GenerateSteps, Cmd!Step
<1>4. c # "report"
  BY DEF HasStep, Table, Nth, Cmd!Steps, Cmd!ReportSteps, Cmd!Step
<1>5. c # "baseline"
  BY DEF HasStep, Table, Nth, Cmd!Steps, Cmd!BaselineSteps, Cmd!Step
<1>6. c # "diff"
  BY DEF HasStep, Table, Nth, Cmd!Steps, Cmd!DiffSteps, Cmd!Step
<1>7. c # "changes"
  BY DEF HasStep, Table, Nth, Cmd!Steps, Cmd!ChangesSteps, Cmd!Step
<1>8. c # "redact"
  BY DEF HasStep, Table, Nth, Cmd!Steps, Cmd!RedactSteps, Cmd!Step
<1> QED
  BY Tables, <1>1, <1>2, <1>3, <1>4, <1>5, <1>6, <1>7, <1>8

(* Action by action.                                                        *)
LEMMA ParseKeeps == ASSUME CommandInv, Cmd!Parse PROVE CommandInv'
<1>1. CASE phase' = "run" /\ rt' = [rt EXCEPT !.entered = command \in Cmd!Instrumented] /\ UNCHANGED <<exit, failed>>
  <2>1. /\ rt' \in Runtimes /\ (rt'.entered <=> command \in Cmd!Instrumented)
        /\ rt'.outcome = rt.outcome /\ rt'.stage = rt.stage /\ rt'.code = rt.code
        /\ rt'.results = rt.results /\ rt'.report = rt.report /\ rt'.baseline = rt.baseline
        /\ rt'.generated = rt.generated /\ rt'.written = rt.written /\ rt'.probe = rt.probe /\ rt'.probed = rt.probed
    <3>1. rt \in Runtimes
      BY DEF CommandInv, RecordInv, Valid
    <3>2. ASSUME NEW b \in BOOLEAN, b = (command \in Cmd!Instrumented)
          PROVE  /\ [rt EXCEPT !.entered = b] \in Runtimes /\ [rt EXCEPT !.entered = b].entered = b
                 /\ \A f \in {"outcome", "stage", "code", "results", "report", "baseline", "generated",
                             "written", "probe", "probed"} : [rt EXCEPT !.entered = b][f] = rt[f]
      BY <3>1 DEF Runtimes
    <3>3. (command \in Cmd!Instrumented) \in BOOLEAN
      OBVIOUS
    <3> QED
      BY <1>1, <3>2, <3>3
  <2>2. Valid(rt')
    BY <2>1 DEF CommandInv, RecordInv, Valid, Told, Probing, Filed
  <2>3. Unharmed(rt')
    BY <2>1 DEF Cmd!Parse, CommandInv, RecordInv, Unharmed
  <2>4. CommandType'
    BY <1>1, <2>1 DEF Cmd!Parse, Cmd!given, CommandInv, CommandType, Runtimes
  <2>5. RecordInv'
    BY <1>1, <2>1, <2>2, <2>3 DEF Cmd!Parse, Cmd!given, CommandInv, RecordInv
  <2>6. ClientInv'
    BY <1>1 DEF Cmd!Parse, Cmd!given, CommandInv, ClientInv, Connected
  <2> QED
    BY <2>4, <2>5, <2>6 DEF CommandInv
<1>2. CASE phase' = "finish" /\ exit' = 2 /\ failed' = TRUE /\ UNCHANGED rt
  <2>1. CommandType' /\ RecordInv' /\ ClientInv'
    BY <1>2 DEF Cmd!Parse, Cmd!given, CommandInv, CommandType, RecordInv, ClientInv, Connected
  <2> QED
    BY <2>1 DEF CommandInv
<1> QED
  BY <1>1, <1>2 DEF Cmd!Parse

LEMMA ProceedKeeps == ASSUME CommandInv, Cmd!Proceed PROVE CommandInv'
<1>1. /\ phase = "run" /\ rt' = Cmd!Done(next) /\ Cmd!GoOn
      /\ UNCHANGED <<command, options, consented, results, writes, failed, reported>>
      /\ ~(command = "run" /\ next \in {"engine", "close", "write"})
  BY DEF Cmd!Proceed, Cmd!given
<1>2. CommandType /\ Valid(rt) /\ Unharmed(rt)
  BY <1>1 DEF CommandInv, RecordInv
<1>3. Valid(rt') /\ Unharmed(rt') /\ rt'.outcome = rt.outcome /\ rt'.entered = rt.entered
  BY <1>1, <1>2, DoneRecords
<1>4. \/ phase' = "finish" /\ next' = next
      \/ HasStep(command, next') /\ UNCHANGED <<phase, exit>>
  BY <1>1, <1>2, GoesOn
<1>5. CommandType'
  BY <1>1, <1>2, <1>3, <1>4 DEF CommandType
<1>6. RecordInv'
  BY <1>1, <1>3, <1>4, InstrumentedAre DEF CommandInv, RecordInv, CommandType
<1>7. client' = IF next = "connect" THEN "open" ELSE IF next = "close" THEN "closed" ELSE client
  BY DEF Cmd!Proceed
<1>8. ClientInv'
  <2>1. next = "connect" => command \in {"profile", "monitor", "run"}
    BY <1>2, OnlyTheseConnect DEF CommandType
  <2>2. client' = "open" => Connected'
    BY <1>1, <1>2, <1>7, <2>1, OrderOfSteps DEF CommandInv, ClientInv, Connected
  <2>3. writes > 0 => phase' = "finish"
    BY <1>1, <1>2, OrderOfSteps DEF CommandInv, ClientInv
  <2> QED
    BY <1>1, <1>4, <2>2, <2>3 DEF CommandInv, ClientInv, CommandType
<1> QED
  BY <1>5, <1>6, <1>8 DEF CommandInv

LEMMA AbortKeeps == ASSUME CommandInv, Cmd!Abort PROVE CommandInv'
<1>1. PICK e \in Cmd!Current.raises :
        /\ failed' = (failed \/ Cmd!Handle(next, e).how # "continue")
        /\ rt' = IF Cmd!Handle(next, e).how = "raise" /\ rt.entered
                 THEN Cmd!FailIfNone(Cmd!Handle(next, e).rt, "unexpected_error", "project_discovery")
                 ELSE Cmd!Handle(next, e).rt
        /\ IF Cmd!Handle(next, e).how = "continue" THEN Cmd!GoOn
           ELSE /\ phase' = IF Cmd!Handle(next, e).how = "raise" THEN "unwind" ELSE "finish"
                /\ exit' = Cmd!Handle(next, e).code /\ UNCHANGED next
  BY DEF Cmd!Abort
<1> DEFINE h == Cmd!Handle(next, e)
<1>2. /\ phase = "run" /\ command # "run" /\ client' = (IF client = "open" THEN "closed" ELSE client)
      /\ UNCHANGED <<command, options, consented, results, writes, reported>>
  BY DEF Cmd!Abort, Cmd!given
<1>3. CommandType /\ Valid(rt) /\ Unharmed(rt) /\ rt.outcome = "success" /\ ~failed /\ (rt.entered <=> command \in Cmd!Instrumented)
  BY <1>2 DEF CommandInv, RecordInv
<1>4. /\ Handled(h)
      /\ command \in Cmd!Instrumented \ {"debug"} => Blamed(h)
      /\ command \notin Cmd!Instrumented => Unharmed(h.rt)
  BY <1>2, <1>3, HandlerRecords DEF CommandType
<1> HIDE DEF h
<1>5. /\ Valid(rt') /\ rt'.entered = rt.entered
      /\ command \notin Cmd!Instrumented => Unharmed(rt')
      /\ h.how = "continue" => Unharmed(rt') /\ rt'.outcome = "success"
      /\ h.how = "raise" /\ rt.entered => rt'.outcome # "success"
      /\ h.how = "exit" /\ command \in Cmd!Instrumented \ {"debug"} =>
           rt'.outcome # "success" \/ Spared(h)
  <2>1. CASE h.how = "raise" /\ rt.entered
    <3>1. rt' = Cmd!FailIfNone(h.rt, "unexpected_error", "project_discovery")
      BY <1>1, <2>1 DEF h
    <3>2. "project_discovery" \in Stages
      BY DEF Stages
    <3> QED
      BY <1>3, <1>4, <2>1, <3>1, <3>2, FailIfNoneRecords DEF Handled
  <2>2. CASE ~(h.how = "raise" /\ rt.entered)
    <3>1. rt' = h.rt
      BY <1>1, <2>2 DEF h
    <3> QED
      BY <1>3, <1>4, <2>2, <3>1 DEF Handled, Blamed
  <2> QED
    BY <2>1, <2>2
<1>6. IF h.how = "continue" THEN (\/ phase' = "finish" /\ next' = next
                                  \/ HasStep(command, next') /\ UNCHANGED <<phase, exit>>) /\ failed' = FALSE
      ELSE /\ next' = next /\ failed' = TRUE /\ exit' = h.code
           /\ \/ h.how = "raise" /\ phase' = "unwind"
              \/ h.how = "exit" /\ phase' = "finish"
  BY <1>1, <1>3, <1>4, GoesOn DEF h, Handled
<1>7. CommandType'
  BY <1>2, <1>3, <1>5, <1>6 DEF CommandType
<1>8. RecordInv'
  <2>1. CASE h.how = "continue"
    BY <1>2, <1>3, <1>5, <1>6, <2>1 DEF RecordInv
  <2>2. CASE h.how = "raise"
    BY <1>2, <1>3, <1>5, <1>6, <2>2 DEF RecordInv
  <2>3. CASE h.how = "exit"
    BY <1>2, <1>3, <1>5, <1>6, <2>3 DEF RecordInv, Spared, Unrecorded
  <2> QED
    BY <1>4, <2>1, <2>2, <2>3 DEF Handled
<1>9. ClientInv'
  BY <1>2, <1>3, <1>6 DEF CommandInv, ClientInv, CommandType
<1> QED
  BY <1>7, <1>8, <1>9 DEF CommandInv

LEMMA RunHasSteps == \A n \in {"close", "write", "print"} : HasStep("run", n)
<1>1. /\ 9 \in DOMAIN Table("run") /\ Nth("run", 9) = "close"
      /\ 10 \in DOMAIN Table("run") /\ Nth("run", 10) = "write"
      /\ 11 \in DOMAIN Table("run") /\ Nth("run", 11) = "print"
  BY DEF Table, Nth, Cmd!Steps, Cmd!RunSteps, Cmd!Step
<1> QED
  BY <1>1 DEF HasStep

(* What holds while a run goes through its steps.                           *)
LEMMA Running ==
  ASSUME CommandInv, phase = "run", command = "run"
  PROVE  /\ CommandType /\ Valid(rt) /\ Unharmed(rt) /\ rt.entered
         /\ rt.outcome # "success" \/ results.status = "failed" => failed
         /\ failed => rt.outcome # "success" \/ (results.status = "failed" /\ next \in {"close", "write"})
         /\ client = "open" => next \in {"verify", "engine", "close"}
         /\ writes <= 1 /\ (writes > 0 => next = "print") /\ reported = 0 /\ command \in Cmd!Instrumented \ {"debug"}
BY InstrumentedAre DEF CommandInv, RecordInv, ClientInv, Connected

LEMMA RunUnpreparedKeeps == ASSUME CommandInv, Cmd!RunUnprepared PROVE CommandInv'
<1>1. PICK e \in Cmd!Current.raises :
        /\ failed' = TRUE
        /\ rt' = IF e.kind = "graph" THEN Cmd!Fail(rt, "user_error", Cmd!StageForError(e.code))
                 ELSE Cmd!Fail(rt, "unexpected_error", "config_load")
        /\ \/ next' = "write" /\ UNCHANGED <<phase, exit>>
           \/ phase' = "finish" /\ exit' = 3 /\ UNCHANGED next
  BY DEF Cmd!RunUnprepared
<1>2. /\ phase = "run" /\ command = "run" /\ next \in {"selector", "root", "config"}
      /\ UNCHANGED <<command, options, consented, client, writes, reported>>
  BY DEF Cmd!RunUnprepared, Cmd!given
<1>3. Valid(rt') /\ Unharmed(rt') /\ rt'.outcome # "success" /\ rt'.entered = rt.entered
  <2>1. "config_load" \in Stages
    BY DEF Stages
  <2> QED
    BY <1>1, <1>2, <2>1, Running, FailRecords, StagesAreNamed
<1>4. CommandType'
  BY <1>1, <1>2, <1>3, Running, RunHasSteps DEF CommandType
<1>5. RecordInv'
  BY <1>1, <1>2, <1>3, Running DEF RecordInv
<1>6. ClientInv'
  BY <1>1, <1>2, Running DEF ClientInv
<1> QED
  BY <1>4, <1>5, <1>6 DEF CommandInv

LEMMA RunFailsKeeps == ASSUME CommandInv, Cmd!RunFails PROVE CommandInv'
<1>1. /\ phase = "run" /\ command = "run" /\ next \in {"profiles", "suites", "connect", "verify", "engine"}
      /\ failed' = TRUE /\ next' = "close" /\ results'.status = "failed"
      /\ UNCHANGED <<command, options, consented, phase, exit, rt, client, writes, reported>>
  BY DEF Cmd!RunFails, Cmd!given, Cmd!Document
<1>2. CommandType'
  BY <1>1, Running, RunHasSteps DEF CommandType
<1>3. RecordInv'
  BY <1>1, Running, InstrumentedAre DEF RecordInv
<1>4. ClientInv'
  BY <1>1, Running DEF ClientInv, Connected
<1> QED
  BY <1>2, <1>3, <1>4 DEF CommandInv

LEMMA RunReturnsKeeps == ASSUME CommandInv, Cmd!RunReturns PROVE CommandInv'
<1>1. /\ phase = "run" /\ command = "run" /\ next = "engine" /\ next' = "close"
      /\ \/ results'.status = "complete" /\ UNCHANGED failed
         \/ results'.status = "failed" /\ failed' = TRUE
      /\ UNCHANGED <<command, options, consented, phase, exit, rt, client, writes, reported>>
  BY DEF Cmd!RunReturns, Cmd!given, Cmd!Document
<1>2. CommandType'
  BY <1>1, Running, RunHasSteps DEF CommandType
<1>3. RecordInv'
  BY <1>1, Running, InstrumentedAre DEF RecordInv
<1>4. ClientInv'
  BY <1>1, Running DEF ClientInv, Connected
<1> QED
  BY <1>2, <1>3, <1>4 DEF CommandInv

LEMMA RunClosesKeeps == ASSUME CommandInv, Cmd!RunCloses PROVE CommandInv'
<1>1. /\ phase = "run" /\ command = "run" /\ next = "close" /\ next' = "write" /\ client' # "open"
      /\ UNCHANGED <<command, options, consented, phase, exit, rt, results, writes, failed, reported>>
  BY DEF Cmd!RunCloses, Cmd!given
<1>2. CommandType'
  BY <1>1, Running, RunHasSteps DEF CommandType
<1>3. RecordInv'
  BY <1>1, Running, InstrumentedAre DEF RecordInv
<1>4. ClientInv'
  BY <1>1, Running DEF ClientInv
<1> QED
  BY <1>2, <1>3, <1>4 DEF CommandInv

LEMMA RunPublishesKeeps == ASSUME CommandInv, Cmd!RunPublishes PROVE CommandInv'
<1>1. /\ phase = "run" /\ command = "run" /\ next = "write" /\ writes' = writes + 1
      /\ UNCHANGED <<command, options, consented, client, results, reported>>
  BY DEF Cmd!RunPublishes, Cmd!given
<1>2. client # "open" /\ writes = 0
  BY <1>1, Running DEF CommandType
<1>3. CASE /\ rt' = Cmd!Artifacts(Cmd!Classified(rt), "written") /\ next' = "print"
           /\ UNCHANGED <<phase, exit, failed>>
  <2> DEFINE r == Cmd!Classified(rt)
  <2>1. /\ Valid(r) /\ Unharmed(r) /\ r.entered = rt.entered
        /\ IF results.status = "failed" THEN r.outcome # "success" ELSE r.outcome = rt.outcome
    <3>1. CASE results.status # "failed"
      BY <1>1, <3>1, Running DEF Cmd!Classified
    <3>2. CASE results.status = "failed"
      <4>1. "engine" \in Stages /\ Cmd!StageForError(results.code) \in Stages
        BY StagesAreNamed DEF Stages
      <4> QED
        BY <1>1, <3>2, <4>1, Running, FailIfNoneRecords DEF Cmd!Classified
    <3> QED
      BY <3>1, <3>2
  <2> HIDE DEF r
  <2>2. /\ rt' \in Runtimes /\ rt'.outcome = r.outcome /\ rt'.stage = r.stage /\ rt'.code = r.code
        /\ rt'.entered = r.entered /\ rt'.results = "written" /\ rt'.report = "written" /\ rt'.baseline = r.baseline
        /\ rt'.generated = r.generated /\ rt'.written = TRUE /\ rt'.probe = r.probe /\ rt'.probed = r.probed
    <3>1. rt' = Cmd!Artifacts(r, "written") /\ r \in Runtimes
      BY <1>3, <2>1 DEF r, Valid
    <3> QED
      BY <3>1 DEF Runtimes, Fields, Cmd!Artifacts
  <2>3. Valid(rt') /\ Unharmed(rt')
    BY <2>1, <2>2 DEF Valid, Told, Probing, Filed, Unharmed
  <2>4. CommandType'
    BY <1>1, <1>2, <1>3, <2>1, <2>2, Running, RunHasSteps DEF CommandType
  <2>5. RecordInv'
    BY <1>1, <1>3, <2>1, <2>2, <2>3, Running DEF RecordInv
  <2>6. ClientInv'
    BY <1>1, <1>2, <1>3, Running DEF ClientInv
  <2> QED
    BY <2>4, <2>5, <2>6 DEF CommandInv
<1>4. ASSUME NEW e \in Cmd!Current.raises, rt' = Cmd!Unwritten(e), failed' = TRUE, phase' = "finish",
             exit' = 3, UNCHANGED next
      PROVE  CommandInv'
  <2>1. Cmd!ArtifactStage(e) \in {"artifact_write", "report_render"}
    BY DEF Cmd!ArtifactStage
  <2>2. Valid(rt')
    BY <1>1, <1>4, <2>1, Running, UnwrittenRecords DEF Cmd!Unwritten
  <2>3. rt'.outcome = "unexpected_error" /\ rt'.entered = rt.entered
    BY <1>1, <1>4, Running DEF Cmd!Unwritten, Valid, Runtimes, Cmd!Fail, Cmd!Artifacts
  <2>4. CommandType'
    BY <1>1, <1>2, <1>4, <2>3, Running DEF CommandType
  <2>5. RecordInv'
    BY <1>1, <1>4, <2>2, <2>3, Running DEF RecordInv
  <2>6. ClientInv'
    BY <1>1, <1>2, <1>4, Running DEF ClientInv
  <2> QED
    BY <2>4, <2>5, <2>6 DEF CommandInv
<1> QED
  BY <1>3, <1>4 DEF Cmd!RunPublishes

LEMMA RunUnprintedKeeps == ASSUME CommandInv, Cmd!RunUnprinted PROVE CommandInv'
<1>1. /\ phase = "run" /\ command = "run" /\ next = "print" /\ failed' = TRUE /\ phase' = "unwind"
      /\ rt' = Cmd!FailIfNone(rt, "unexpected_error", "project_discovery")
      /\ UNCHANGED <<command, options, consented, next, client, results, writes, reported>>
  BY DEF Cmd!RunUnprinted, Cmd!given
<1>2. Valid(rt') /\ Unharmed(rt') /\ rt'.outcome # "success" /\ rt'.entered = rt.entered
  <2>1. "project_discovery" \in Stages
    BY DEF Stages
  <2> QED
    BY <1>1, <2>1, Running, FailIfNoneRecords
<1>3. CommandType'
  BY <1>1, <1>2, Running DEF CommandType
<1>4. RecordInv'
  BY <1>1, <1>2, Running DEF RecordInv
<1>5. ClientInv'
  BY <1>1, Running DEF ClientInv
<1> QED
  BY <1>3, <1>4, <1>5 DEF CommandInv

LEMMA FinishKeeps == ASSUME CommandInv, Cmd!Finish PROVE CommandInv'
<1>1. /\ phase \in {"finish", "unwind"} /\ phase' = "done" /\ rt' = Cmd!AtBoundary
      /\ reported' = (IF consented /\ Cmd!Validates(Cmd!AtBoundary) THEN reported + 1 ELSE reported)
      /\ UNCHANGED <<command, options, consented, next, exit, client, results, writes, failed>>
  BY DEF Cmd!Finish, Cmd!given
<1>2. Valid(rt) /\ CommandType /\ RecordInv /\ (~rt.entered => Unharmed(rt))
  BY DEF CommandInv, RecordInv
<1>3. ASSUME Valid(rt'), rt'.entered = rt.entered, ~rt.entered => Unharmed(rt'),
             command \in Cmd!Instrumented \ {"debug"} /\ ~Unrecorded => (rt'.outcome = "success" <=> ~failed)
      PROVE  CommandInv'
  <2>1. Cmd!Validates(rt')
    BY <1>3, ValidatesWhenValid
  <2>2. CommandType' /\ RecordInv'
    BY <1>1, <1>2, <1>3 DEF RecordInv, CommandType, Unrecorded
  <2>3. ClientInv'
    BY <1>1, <1>2, <2>1 DEF CommandInv, ClientInv, CommandType, Connected
  <2> QED
    BY <2>2, <2>3 DEF CommandInv
<1>4. "config_load" \in Stages
  BY DEF Stages
<1>5. CASE phase = "unwind"
  <2>1. rt' = Cmd!FailIfNone(rt, "unexpected_error", "config_load")
    BY <1>1, <1>5 DEF Cmd!AtBoundary
  <2>2. rt.outcome # "success" \/ Unharmed(rt)
    BY <1>2, <1>5 DEF RecordInv
  <2>3. Valid(rt') /\ rt'.outcome # "success" /\ rt'.entered = rt.entered /\ (Unharmed(rt) => Unharmed(rt'))
    BY <1>2, <1>4, <2>1, <2>2, FailIfNoneRecords
  <2> QED
    BY <1>2, <1>3, <1>5, <2>3 DEF RecordInv
<1>6. CASE phase # "unwind" /\ ~rt.entered /\ exit # 0
  <2>1. rt' = Cmd!Fail(rt, "user_error", "config_load")
    BY <1>1, <1>6 DEF Cmd!AtBoundary
  <2>2. Valid(rt') /\ rt'.outcome # "success" /\ rt'.entered = rt.entered /\ Unharmed(rt')
    BY <1>2, <1>4, <1>6, <2>1, FailRecords
  <2> QED
    BY <1>1, <1>2, <1>3, <1>6, <2>2 DEF RecordInv
<1>7. CASE phase # "unwind" /\ (rt.entered \/ exit = 0)
  <2>1. rt' = rt
    BY <1>1, <1>7 DEF Cmd!AtBoundary
  <2> QED
    BY <1>1, <1>2, <1>3, <1>7, <2>1 DEF RecordInv
<1> QED
  BY <1>5, <1>6, <1>7

LEMMA CommandKept == CommandInv /\ [Cmd!Next]_Cmd!vars => CommandInv'
<1> SUFFICES ASSUME CommandInv, [Cmd!Next]_Cmd!vars PROVE CommandInv'
  OBVIOUS
<1>1. CASE UNCHANGED Cmd!vars
  BY <1>1 DEF Cmd!vars, Cmd!given, CommandInv, CommandType, RecordInv, Unrecorded, ClientInv, Connected
<1>2. CASE Cmd!Next
  BY <1>2, ParseKeeps, ProceedKeeps, AbortKeeps, RunUnpreparedKeeps, RunFailsKeeps, RunReturnsKeeps,
     RunClosesKeeps, RunPublishesKeeps, RunUnprintedKeeps, FinishKeeps DEF Cmd!Next, Cmd!Run
<1> QED
  BY <1>1, <1>2

------------------------------------------------------------------------------
(* MCServices explores a command or the processes; what is idle stays so.   *)
ServicesInv == explored = "command" => CommandInv

LEMMA ServicesKeepCommands == ServicesSpec => []ServicesInv
<1>1. ServicesInit => ServicesInv
  BY CommandStarts DEF ServicesInit, ServicesInv
<1>2. ASSUME ServicesInv, [ServicesNext]_<<vars, invocation, explored>> PROVE ServicesInv'
  <2>1. CASE explored = "command" /\ Cmd!Next /\ UNCHANGED <<vars, explored>>
    BY <1>2, <2>1, CommandKept DEF ServicesInv
  <2>2. CASE explored = "telemetry" /\ Next /\ UNCHANGED <<invocation, explored>>
    BY <2>2 DEF ServicesInv
  <2>3. CASE UNCHANGED <<vars, invocation, explored>>
    <3>1. UNCHANGED Cmd!vars /\ UNCHANGED explored
      BY <2>3 DEF invocation, Cmd!vars, Cmd!given
    <3> QED
      BY <1>2, <3>1, CommandKept DEF ServicesInv
  <2> QED
    BY <1>2, <2>1, <2>2, <2>3 DEF ServicesNext
<1> QED
  BY <1>1, <1>2, PTL DEF ServicesSpec

(* MCServices: every command that ends has published at most once, closed   *)
(* its connection and reported itself once: whatever its handlers recorded, *)
(* the event's validator accepts it (cli.py:158-233, 1677-1981,             *)
(* application/run.py:142-180, telemetry/policy.py:145-192).                *)
THEOREM CommandsStayInOrder == ServicesSpec => []CommandsEndInOrder
<1>1. ServicesInv => CommandsEndInOrder
  BY DEF ServicesInv, CommandInv, ClientInv, CommandType, Connected, CommandsEndInOrder, Cmd!CommandsEndInOrder,
     Cmd!EveryCommandReports, Cmd!PublishesOnceOffline
<1> QED
  BY <1>1, ServicesKeepCommands, PTL

(* MCServices: the event of a command that records its own failures says    *)
(* success exactly when no stage that was asked for failed, but where       *)
(* generate exits for want of its optional packages (cli.py:158-233, 56-67, *)
(* docs/specifications/spec-10-telemetry-events.md:325-337).                *)
THEOREM RecordedOutcomesAreTrue == ServicesSpec => []RecordedOutcomeIsOperational
<1>1. ServicesInv => RecordedOutcomeIsOperational
  <2> SUFFICES ASSUME CommandInv, command \in Cmd!Instrumented \ {"debug"}, phase = "done", ~Unrecorded
               PROVE  (rt.outcome = "success") = ~failed
    BY DEF ServicesInv, RecordedOutcomeIsOperational, Cmd!RecordedOutcomeIsOperational, Cmd!OutcomeIsOperational,
           Cmd!LacksPackages, Unrecorded
  <2> QED
    BY DEF CommandInv, RecordInv, CommandType
<1> QED
  BY <1>1, ServicesKeepCommands, PTL
=============================================================================
