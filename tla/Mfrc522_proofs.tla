---------------------------- MODULE Mfrc522_proofs ----------------------------
(***************************************************************************)
(* Proofs about Mfrc522, for any set of cards - also several with the same *)
(* uid -, any number of tries, any bytes in an uninitialised length and    *)
(* any number of resets: no counter leaves its range, and what a turn      *)
(* shows is about one card.                                                *)
(***************************************************************************)
EXTENDS Mfrc522, FiniteSetTheorems, SequenceTheorems, TLAPS

(* Types *)

Commands == (Exported \cup {"DATA"}) \ {"CLEAR"}
Engines == {"python", "rfid_transceive", "card_command"}
TriesOf(cmd) == IF Engine(cmd) = "rfid_transceive" THEN TransceiveTries ELSE CommandTries
LastStep == IF prog = "client" THEN DumpLength + 2 ELSE Len(Script[prog])

Selected == {"active", "auth", "writing"}

CallType == [cmd : Commands, engine : Engines, blk : Blocks, tries : Int,
             waits : 0 .. FifoAttempts]
ChipType == [fifo : Frames \cup {None}, irq : SUBSET {"rx", "idle", "timer"},
             err : BOOLEAN, crypto : BOOLEAN, framing : {0, 7}]
CardType == [at : {"off", "idle", "halt", "ready"} \cup Selected, base : {"idle", "halt"}]
AirType  == [from : SUBSET Cards, frame : Frames]
OutType  == [uid : Ids \cup {None, Garbled, Lucky}, sak : Ids \cup {None, Garbled},
             block : (Cards \X Blocks) \cup {None, Own, Garbled}]

Types ==
  /\ prog \in Programs /\ step \in 0 .. LastStep
  /\ call # None => /\ step > 0 /\ call \in CallType
                    /\ call.engine = Engine(call.cmd)
                    /\ call.tries \in -1 .. TriesOf(call.cmd)
  /\ chip \in ChipType
  /\ card \in [Cards -> CardType]
  /\ air # None => air \in AirType
  /\ seen \subseteq Cards /\ resets \in 0 .. MaxResets
  /\ out \in OutType /\ fresh \in BOOLEAN

(* What the cards are in. *)

NoneReady == \A c \in Cards : card[c].at # "ready"
NoneSelected == \A c \in Cards : card[c].at \notin Selected

(* A card that is awake was there when the last request was sent.            *)
Awake == \A c \in Cards : card[c].at \in {"ready"} \cup Selected => c \in seen

(* A selected card is the one whose uid the program has, until it is reset.  *)
Chosen == step > 0 => \A c \in Cards : card[c].at \in Selected => Shown[c] = out.uid

(* Once there is a SAK or a block, no card answers an anticollision.         *)
Settled == out.sak # None \/ out.block \notin {None, Own} => NoneReady

(* A command sends the cards that it is not for back to sleep.               *)
Exclusive ==
  call # None => IF call.cmd \in Requests \cup {"ANTICOLL"} THEN NoneSelected ELSE NoneReady

(* A card whose data the buffers may take.                                   *)
Meant(c) ==
  /\ call.cmd = "ANTICOLL" => out.sak = None /\ out.block \in {None, Own}
  /\ call.cmd \in {"SELECT", "READ"} => Shown[c] = out.uid

(* An answer, on its way or in the FIFO, is one to the command under way,    *)
(* from such a card, perhaps spoiled; two at once are an error.              *)
Fits(frame) ==
  /\ frame.kind = call.cmd
  /\ \E c \in seen :
       /\ Meant(c)
       /\ \/ frame.val = Answer(c, call.cmd, call.blk).val
          \/ frame.val \in SpoiledTo(call.cmd) \cup {Mixed}

Flight ==
  call # None =>
    /\ air # None => Fits(air.frame)
    /\ chip.fifo # None => Fits(chip.fifo) /\ (chip.err \/ chip.fifo.val # Mixed)

(* SAK and block are about the card whose uid the program has, new or old.   *)
OneCard ==
  \/ out.sak = None /\ out.block \in {None, Own}
  \/ \E c \in seen : /\ out.uid = Shown[c] /\ out.sak \in {None, Garbled, Shown[c]}
                     /\ out.block \in {None, Own, Garbled} \cup ({c} \X Blocks)

(* A uid that was read in this turn is that of a card which was there, or    *)
(* spoiled.                                                                  *)
UidOfTurn ==
  fresh => out.uid \in {None, Garbled, Lucky} \cup {Shown[c] : c \in seen}

(* rfid_get_uid has no uid until it has tested its check byte.               *)
UidTested ==
  prog = "get_uid" =>
    /\ step = 2 \/ call # None => ~ fresh
    /\ call # None /\ step = 1 => call.cmd = "REQA"
    /\ fresh => out.uid # Garbled

UidInv == UidOfTurn /\ UidTested
DriverInv == Types /\ Awake /\ Chosen /\ Settled /\ Exclusive /\ Flight /\ OneCard /\ UidInv
-----------------------------------------------------------------------------
(* The cards *)

(* What a command does to a card: only one that takes it is awake after it,  *)
(* ready after a request or an anticollision, selected after the others.     *)
LEMMA AfterCases ==
  ASSUME Types, NEW c \in Cards, NEW cmd \in Commands, NEW uid, NEW framing
  PROVE  LET a == After(c, cmd, uid, framing)
         IN /\ a \in CardType
            /\ a.at \in {"ready"} \cup Selected => Takes(c, cmd, uid, framing)
            /\ a.at = "ready" => cmd \in Requests \cup {"ANTICOLL"}
            /\ a.at \in Selected =>
                  /\ cmd \notin Requests \cup {"ANTICOLL"}
                  /\ card[c].at \in Selected \/ Shown[c] = uid
<1>1. card[c] \in CardType
  BY DEF Types
<1>2. CASE ~ Takes(c, cmd, uid, framing)
  BY <1>1, <1>2 DEF After, CardType, Selected
<1>3. CASE Takes(c, cmd, uid, framing)
  <2>1. After(c, cmd, uid, framing)
          = [at |-> Goes[cmd],
             base |-> IF cmd = "HALT" \/ card[c].at = "halt" THEN "halt" ELSE card[c].base]
    BY <1>3 DEF After
  <2>2. /\ cmd \in Requests \cup {"ANTICOLL"} => Goes[cmd] = "ready"
        /\ cmd \in {"SELECT", "AUTH", "READ", "WRITE", "DATA"} => Goes[cmd] \in Selected
        /\ cmd = "HALT" => Goes[cmd] = "halt"
    BY DEF Goes, Requests, Selected
  <2>3. cmd \in Requests \cup {"ANTICOLL", "HALT", "SELECT", "AUTH", "READ", "WRITE", "DATA"}
    BY DEF Commands, Exported
  <2>4. cmd \in {"SELECT", "AUTH", "READ", "WRITE", "DATA"} =>
          card[c].at \in Selected \/ Shown[c] = uid
    BY <1>3 DEF Takes, Selected, Requests
  <2>5. card[c].base \in {"idle", "halt"}
    BY <1>1 DEF CardType
  <2> QED
    BY <1>3, <2>1, <2>2, <2>3, <2>4, <2>5 DEF CardType, Selected, Requests
<1> QED
  BY <1>2, <1>3

(* What the antenna hears of some cards is the answer of one, or a mixture.  *)
LEMMA HeardOne ==
  ASSUME NEW cards, cards # {}, NEW cmd, NEW blk
  PROVE  \E v : /\ Heard(cards, cmd, blk) = [from |-> cards, frame |-> [kind |-> cmd, val |-> v]]
                /\ v = Mixed \/ \E c \in cards : v = Answer(c, cmd, blk).val
<1> DEFINE said == {Answer(c, cmd, blk) : c \in cards}
           one  == CHOOSE a \in said : TRUE
<1>1. one \in said
  <2>1. \E a : a \in said
    OBVIOUS
  <2> HIDE DEF said
  <2> QED
    BY <2>1
<1>2. \E c \in cards : one.val = Answer(c, cmd, blk).val
  BY <1>1
<1>3. PICK v : v = IF Cardinality(said) = 1 THEN one.val ELSE Mixed
  OBVIOUS
<1>4. Heard(cards, cmd, blk) = [from |-> cards, frame |-> [kind |-> cmd, val |-> v]]
  BY <1>3 DEF Heard
<1> HIDE DEF one, said
<1> QED
  BY <1>2, <1>3, <1>4

(* The data of an answer has its type. *)
LEMMA AnswerType ==
  ASSUME NEW c \in Cards, NEW cmd \in Commands, NEW blk \in Blocks
  PROVE  Answer(c, cmd, blk).val \in Values
BY DriverAssumption DEF Answer, Values, Ids

(* The length of a dump. *)
LEMMA DumpLengths ==
  /\ Len(DumpSector) - 1 \in Nat
  /\ DumpLength \in Nat
  /\ Sectors # 0 => DumpLength > 0
<1>1. PICK n \in Nat : n = Cardinality(Blocks)
  BY DriverAssumption, FS_CardinalityType
<1>2. PICK keys : keys = <<"AUTH", "AUTH">>
  OBVIOUS
<1>3. PICK reads : reads = [b \in 1 .. n |-> "READ"]
  OBVIOUS
<1>4. Len(DumpSector) = 2 + n
  <2>1. keys \in Seq({"AUTH", "READ"}) /\ Len(keys) = 2
    BY <1>2
  <2>2. reads \in Seq({"AUTH", "READ"})
    BY <1>3
  <2>3. Len(reads) = n
    BY <1>3, <2>2, LenProperties
  <2>4. DumpSector = keys \o reads
    BY <1>1, <1>2, <1>3 DEF DumpSector
  <2>5. Len(keys \o reads) = Len(keys) + Len(reads)
    BY <2>1, <2>2, ConcatProperties, Zenon
  <2> QED
    BY <2>1, <2>3, <2>4, <2>5, Zenon
<1>5. \A m, k \in Nat : k * m \in Nat /\ (k # 0 /\ m # 0 => k * m > 0)
  OBVIOUS
<1>6. Sectors \in Nat /\ 2 + n \in Nat /\ 2 + n # 0
  BY DriverAssumption
<1> QED
  BY <1>4, <1>5, <1>6 DEF DumpLength

(* The lengths of the loops. *)
LEMMA Lengths ==
  ASSUME prog \in Programs
  PROVE  /\ LastStep \in Nat \ {0}
         /\ prog = "client" => /\ LastStep = DumpLength + 2 /\ DumpLength \in Nat
                               /\ Sectors # 0 => DumpLength > 0
         /\ prog # "client" => LastStep = Len(Script[prog])
<1>1. DumpLength \in Nat /\ (Sectors # 0 => DumpLength > 0)
  BY DumpLengths
<1>2. prog # "client" => Len(Script[prog]) \in Nat \ {0}
  <2>1. prog \in {"read_card", "get_uid", "test", "micropython", "client"}
    BY DriverAssumption
  <2> QED
    BY <2>1 DEF Script, ReadCardTurn, GetUidTurn, TestTurn, PythonTurn
<1> QED
  BY <1>1, <1>2 DEF LastStep
-----------------------------------------------------------------------------
(* The first state, and the steps that are not the driver's. *)

LEMMA InvInit == Init => DriverInv
<1> SUFFICES ASSUME Init PROVE DriverInv
  OBVIOUS
<1>1. /\ prog \in Programs /\ step = 0 /\ call = None /\ air = None /\ seen = {}
      /\ out = Blank /\ fresh = TRUE /\ resets = 0
      /\ \A c \in Cards : card[c].at = "off"
  BY DEF Init
<1>2. chip \in ChipType
  <2>1. PICK on \in BOOLEAN :
          chip = [fifo |-> None, irq |-> {}, err |-> FALSE, crypto |-> on, framing |-> 0]
    BY DEF Init, ResetChip
  <2> QED
    BY <2>1 DEF ChipType
<1>3. card \in [Cards -> CardType]
  BY DEF Init, CardType
<1>4. Types
  <2>1. 0 \in 0 .. LastStep
    BY <1>1, Lengths
  <2>2. resets \in 0 .. MaxResets /\ out \in OutType
    BY <1>1, DriverAssumption DEF Blank, OutType
  <2> QED
    BY <1>1, <1>2, <1>3, <2>1, <2>2 DEF Types
<1>5. Awake /\ Chosen /\ Settled /\ Exclusive /\ Flight
  BY <1>1 DEF Awake, Chosen, Settled, Exclusive, Flight, Selected, Blank
<1>6. OneCard /\ UidInv
  BY <1>1, DriverAssumption DEF Blank, OneCard, UidInv, UidOfTurn, UidTested
<1> QED
  BY <1>4, <1>5, <1>6 DEF DriverInv

(* A card that enters the field is idle. *)
LEMMA EnterStep == ASSUME DriverInv, NEW d \in Cards, Enter(d) PROVE DriverInv'
<1>1. /\ card' = [card EXCEPT ![d] = [at |-> "idle", base |-> "idle"]]
      /\ UNCHANGED <<prog, step, call, chip, air, seen, out, fresh, resets>>
  BY DEF Enter
<1>2. card' \in [Cards -> CardType]
  BY <1>1 DEF DriverInv, Types, CardType
<1>3. \A c \in Cards : card'[c].at \in {"idle", card[c].at}
  BY <1>1 DEF DriverInv, Types
<1>4. Types'
  BY <1>1, <1>2 DEF DriverInv, Types, LastStep, TriesOf, Engine
<1>5. Awake' /\ Chosen' /\ Settled' /\ Exclusive'
  BY <1>1, <1>3 DEF DriverInv, Awake, Chosen, Settled, Exclusive, NoneReady, NoneSelected, Selected
<1>6. Flight' /\ OneCard' /\ UidInv'
  BY <1>1 DEF DriverInv, Flight, Fits, Meant, OneCard, UidInv, UidOfTurn, UidTested
<1> QED
  BY <1>4, <1>5, <1>6 DEF DriverInv

(* A card that leaves takes its answer along. *)
LEMMA RemoveStep == ASSUME DriverInv, NEW d \in Cards, Remove(d) PROVE DriverInv'
<1>1. /\ card' = [card EXCEPT ![d].at = "off"]
      /\ air' = None \/ air' = air
      /\ UNCHANGED <<prog, step, call, chip, seen, out, fresh, resets>>
  BY DEF Remove
<1>2. card' \in [Cards -> CardType]
  BY <1>1 DEF DriverInv, Types, CardType
<1>3. \A c \in Cards : card'[c].at \in {"off", card[c].at}
  BY <1>1 DEF DriverInv, Types, CardType
<1>4. Types'
  BY <1>1, <1>2 DEF DriverInv, Types, LastStep, TriesOf, Engine
<1>5. Awake' /\ Chosen' /\ Settled' /\ Exclusive'
  BY <1>1, <1>3 DEF DriverInv, Awake, Chosen, Settled, Exclusive, NoneReady, NoneSelected, Selected
<1>6. Flight' /\ OneCard' /\ UidInv'
  BY <1>1 DEF DriverInv, Flight, Fits, Meant, OneCard, UidInv, UidOfTurn, UidTested
<1> QED
  BY <1>4, <1>5, <1>6 DEF DriverInv

(* An answer, whole or spoiled, reaches the chip: it is one to the command   *)
(* under way, and if two cards spoke the error is noticed.                   *)
LEMMA ArriveStep ==
  ASSUME DriverInv, Arrive \/ ArriveWrong \/ \E val \in Spoiled : ArriveUnnoticed(val)
  PROVE  DriverInv'
<1>1. /\ call # None /\ air # None /\ air' = None
      /\ UNCHANGED <<prog, step, call, card, seen, out, fresh, resets>>
  BY DEF Arrive, ArriveWrong, ArriveUnnoticed
<1>2. chip \in ChipType /\ air.frame \in Frames /\ Fits(air.frame) /\ call.cmd \in Commands
  BY <1>1 DEF DriverInv, Types, AirType, CallType, Flight
<1>3. /\ chip.fifo # None => Fits(chip.fifo) /\ (chip.err \/ chip.fifo.val # Mixed)
      /\ chip.fifo \in Frames \cup {None}
  BY <1>1, <1>2 DEF DriverInv, Flight, ChipType
<1>4. /\ chip' \in ChipType
      /\ chip'.fifo # None => Fits(chip'.fifo) /\ (chip'.err \/ chip'.fifo.val # Mixed)
  <2>1. CASE Arrive
    <3>1. air.frame.val # Mixed
      BY <2>1 DEF Arrive
    <3>2. \/ chip' = [chip EXCEPT !.irq = @ \cup {"idle"}, !.crypto = TRUE]
          \/ chip' = [chip EXCEPT !.fifo = air.frame, !.irq = @ \cup {"rx"}]
      BY <2>1 DEF Arrive
    <3> QED
      BY <1>2, <1>3, <3>1, <3>2 DEF ChipType
  <2>2. CASE ArriveWrong
    <3>1. \/ chip' = [chip EXCEPT !.err = TRUE]
          \/ chip' = [chip EXCEPT !.fifo = air.frame, !.irq = @ \cup {"rx"}, !.err = TRUE]
      BY <2>2 DEF ArriveWrong
    <3> QED
      BY <1>2, <1>3, <3>1 DEF ChipType
  <2>3. ASSUME NEW val \in Spoiled, ArriveUnnoticed(val)
        PROVE  /\ chip' \in ChipType
               /\ chip'.fifo # None => Fits(chip'.fifo) /\ (chip'.err \/ chip'.fifo.val # Mixed)
    <3> DEFINE frame == [kind |-> call.cmd, val |-> val]
    <3>1. /\ val \in SpoiledTo(call.cmd)
          /\ chip' = [chip EXCEPT !.fifo = frame, !.irq = @ \cup {"rx"}]
      BY <2>3 DEF ArriveUnnoticed
    <3>2. frame \in Frames
      BY <1>2 DEF Frames, Values, Commands
    <3>3. Fits(frame)
      BY <1>2, <3>1 DEF Fits
    <3>4. frame.val # Mixed
      <4>1. <<4, 0>> \in (0 .. 255) \X (0 .. 255) /\ <<255, 255>> \in (0 .. 255) \X (0 .. 255)
        OBVIOUS
      <4>2. Spoiled \subseteq {<<4, 0>>, <<255, 255>>, Garbled, Lucky}
        BY DEF Spoiled, SpoiledTo, Requests
      <4> QED
        BY <2>3, <4>1, <4>2, DriverAssumption
    <3> HIDE DEF frame
    <3> QED
      BY <1>2, <3>1, <3>2, <3>3, <3>4 DEF ChipType
  <2> QED
    BY <2>1, <2>2, <2>3
<1>5. Types'
  BY <1>1, <1>4 DEF DriverInv, Types, LastStep, TriesOf, Engine
<1>6. Awake' /\ Chosen' /\ Settled' /\ Exclusive' /\ OneCard' /\ UidInv'
  BY <1>1 DEF DriverInv, Awake, Chosen, Settled, Exclusive, NoneReady, NoneSelected, OneCard,
     UidInv, UidOfTurn, UidTested
<1>7. Flight'
  BY <1>1, <1>4 DEF Flight, Fits, Meant
<1> QED
  BY <1>5, <1>6, <1>7 DEF DriverInv

(* The chip's timer raises an interrupt and changes nothing else. *)
LEMMA TimerStep == ASSUME DriverInv, TimerIrq PROVE DriverInv'
<1>1. /\ chip' = [chip EXCEPT !.irq = {"timer"}]
      /\ UNCHANGED <<prog, step, call, card, air, seen, out, fresh, resets>>
  BY DEF TimerIrq
<1>2. chip' \in ChipType /\ chip'.fifo = chip.fifo /\ chip'.err = chip.err
  BY <1>1 DEF DriverInv, Types, ChipType
<1>3. Types'
  BY <1>1, <1>2 DEF DriverInv, Types, LastStep, TriesOf, Engine
<1>4. Awake' /\ Chosen' /\ Settled' /\ Exclusive' /\ OneCard' /\ UidInv'
  BY <1>1 DEF DriverInv, Awake, Chosen, Settled, Exclusive, NoneReady, NoneSelected, OneCard, UidInv, UidOfTurn, UidTested
<1>5. Flight'
  BY <1>1, <1>2 DEF DriverInv, Flight, Fits, Meant
<1> QED
  BY <1>3, <1>4, <1>5 DEF DriverInv

(* The board starts again, while the cards and the chip stay as they are. *)
LEMMA ResetStep == ASSUME DriverInv, BoardReset PROVE DriverInv'
<1>1. /\ resets < MaxResets /\ resets' = resets + 1
      /\ step' = 0 /\ call' = None /\ out' = Blank /\ fresh' = TRUE
      /\ UNCHANGED <<prog, chip, card, air, seen>>
  BY DEF BoardReset
<1>2. Types'
  <2>1. resets' \in 0 .. MaxResets /\ step' \in 0 .. LastStep'
    <3>1. MaxResets \in Nat
      BY DriverAssumption
    <3> QED
      BY <1>1, <3>1, Lengths DEF DriverInv, Types, LastStep
  <2>2. out' \in OutType
    BY <1>1 DEF Blank, OutType
  <2> QED
    BY <1>1, <2>1, <2>2 DEF DriverInv, Types
<1>3. Awake' /\ Chosen' /\ Settled' /\ Exclusive'
  BY <1>1 DEF DriverInv, Awake, Chosen, Settled, Exclusive, Blank
<1>4. Flight' /\ OneCard' /\ UidInv'
  BY <1>1, DriverAssumption DEF Blank, Flight, OneCard, UidInv, UidOfTurn, UidTested
<1> QED
  BY <1>2, <1>3, <1>4 DEF DriverInv
-----------------------------------------------------------------------------
(* The driver between two calls. *)

(* rfid_init puts every card that is there to sleep. *)
LEMMA InitStep == ASSUME DriverInv, RfidInit PROVE DriverInv'
<1>1. /\ step = 0 /\ step' = 1 /\ chip' = ResetChip /\ air' = None
      /\ card' = [c \in Cards |-> IF c \in Present
                                  THEN [at |-> "idle", base |-> "idle"] ELSE card[c]]
      /\ UNCHANGED <<prog, call, seen, out, fresh, resets>>
  BY DEF RfidInit
<1>2. card' \in [Cards -> CardType] /\ \A c \in Cards : card'[c].at \in {"off", "idle"}
  BY <1>1 DEF DriverInv, Types, CardType, Present
<1>3. Types'
  <2>1. chip' \in ChipType
    BY <1>1 DEF ResetChip, ChipType
  <2>2. step' \in 0 .. LastStep' /\ call = None
    BY <1>1, Lengths DEF DriverInv, Types, LastStep
  <2> QED
    BY <1>1, <1>2, <2>1, <2>2 DEF DriverInv, Types
<1>4. Awake' /\ Chosen' /\ Settled' /\ Exclusive'
  BY <1>1, <1>2 DEF Awake, Chosen, Settled, Exclusive, NoneReady, NoneSelected, Selected
<1>5. Flight' /\ OneCard' /\ UidInv'
  BY <1>1 DEF DriverInv, Types, Flight, OneCard, UidInv, UidOfTurn, UidTested
<1> QED
  BY <1>3, <1>4, <1>5 DEF DriverInv

(* A dump clears the caller's block. *)
LEMMA StartDumpStep == ASSUME DriverInv, StartDump PROVE DriverInv'
<1>1. /\ prog = "client" /\ step = 1 /\ call = None
      /\ step' = IF Sectors = 0 THEN 1 ELSE 3
      /\ out' = [out EXCEPT !.block = None]
      /\ UNCHANGED <<prog, call, chip, card, air, seen, fresh, resets>>
  BY DEF StartDump
<1>2. /\ out \in OutType /\ out' \in OutType
      /\ out'.uid = out.uid /\ out'.sak = out.sak /\ out'.block = None
  BY <1>1 DEF DriverInv, Types, OutType
<1>3. Types'
  <2>1. step' \in 0 .. LastStep'
    BY <1>1, Lengths DEF DriverInv, Types, LastStep
  <2> QED
    BY <1>1, <1>2, <2>1 DEF DriverInv, Types
<1>4. Awake' /\ Chosen' /\ Settled' /\ Exclusive' /\ Flight'
  BY <1>1, <1>2 DEF DriverInv, Awake, Chosen, Settled, Exclusive, NoneReady, NoneSelected, Flight
<1>5. OneCard' /\ UidInv'
  BY <1>1, <1>2 DEF DriverInv, OneCard, UidInv, UidOfTurn, UidTested
<1> QED
  BY <1>3, <1>4, <1>5 DEF DriverInv

(* rfid_clear_after_auth ends the turn. *)
LEMMA ClearStep == ASSUME DriverInv, ClearAfterAuth PROVE DriverInv'
<1>1. /\ step > 0 /\ call = None /\ step' = 1
      /\ chip' = [chip EXCEPT !.crypto = FALSE]
      /\ UNCHANGED <<prog, call, card, air, seen, out, fresh, resets>>
  BY DEF ClearAfterAuth
<1>2. Types'
  <2>1. chip' \in ChipType
    BY <1>1 DEF DriverInv, Types, ChipType
  <2>2. step' \in 0 .. LastStep'
    BY <1>1, Lengths DEF DriverInv, Types, LastStep
  <2> QED
    BY <1>1, <2>1, <2>2 DEF DriverInv, Types
<1>3. Awake' /\ Chosen' /\ Settled' /\ Exclusive' /\ Flight' /\ OneCard' /\ UidInv'
  BY <1>1 DEF DriverInv, Awake, Chosen, Settled, Exclusive, NoneReady, NoneSelected, Flight,
     OneCard, UidInv, UidOfTurn, UidTested
<1> QED
  BY <1>2, <1>3 DEF DriverInv
-----------------------------------------------------------------------------
(* A call *)

(* The cards that take a command were there at the last request, and are the *)
(* ones it is meant for.                                                     *)
LEMMA TakersSeen ==
  ASSUME DriverInv, step > 0, NEW c \in Cards, NEW cmd \in Commands, NEW framing,
         Takes(c, cmd, out.uid, framing)
  PROVE  /\ c \in IF cmd \in Requests THEN Present ELSE seen
         /\ cmd = "ANTICOLL" => out.sak = None /\ out.block \in {None, Own}
         /\ cmd \in {"SELECT", "READ"} => Shown[c] = out.uid
<1>1. card[c].at # "off" /\ (cmd \notin Requests => card[c].at \in {"ready"} \cup Selected)
  BY DEF Takes, Selected, Requests
<1>2. c \in IF cmd \in Requests THEN Present ELSE seen
  BY <1>1 DEF DriverInv, Awake, Present
<1>3. ASSUME cmd = "ANTICOLL" PROVE out.sak = None /\ out.block \in {None, Own}
  <2>1. card[c].at = "ready"
    BY <1>3 DEF Takes, Requests
  <2> QED
    BY <2>1 DEF DriverInv, Settled, NoneReady
<1>4. ASSUME cmd = "SELECT" PROVE Shown[c] = out.uid
  BY <1>4 DEF Takes, Requests
<1>5. ASSUME cmd = "READ" PROVE Shown[c] = out.uid
  <2>1. card[c].at = "auth"
    BY <1>5 DEF Takes, Requests
  <2> QED
    BY <2>1 DEF DriverInv, Chosen, Selected
<1> QED
  BY <1>2, <1>3, <1>4, <1>5

(* A command is sent, the cards react, and some of them are heard. *)
LEMMA CallStep ==
  ASSUME DriverInv, NEW cmd \in Exported \cup {"DATA"}, NEW blk \in Blocks, Call(cmd, blk)
  PROVE  DriverInv'
<1> DEFINE framing == FramingFor(cmd)
           takers  == {c \in Present : Takes(c, cmd, out.uid, framing)}
           request == cmd \in Requests
<1>1. /\ step > 0 /\ call = None /\ cmd \in Commands
      /\ \A c \in Cards : card'[c] = After(c, cmd, out.uid, framing)
      /\ card' = [c \in Cards |-> After(c, cmd, out.uid, framing)]
      /\ chip' = Prepared(cmd)
      /\ call' = Transfer(cmd, blk)
      /\ seen' = IF request THEN Present ELSE seen
      /\ cmd \in Calls
      /\ out' = Buffers(cmd) /\ fresh' = FreshAt(cmd)
      /\ UNCHANGED <<prog, step, resets>>
  BY DEF Call, MayCall, Commands
<1>15. /\ request => /\ out'.uid \in {None, out.uid} /\ out'.sak = None /\ out'.block = None
                     /\ fresh' => out'.uid = None
                     /\ prog = "get_uid" => ~ fresh'
       /\ ~ request => out' = out /\ fresh' = fresh
       /\ out' \in OutType /\ fresh' \in BOOLEAN
  BY <1>1 DEF Buffers, FreshAt, Clears, Blank, DriverInv, Types, OutType
<1>2. PICK heard \in SUBSET takers : air' = Heard(heard, cmd, blk)
  BY DEF Call
<1>3. /\ call'.cmd = cmd /\ call'.blk = blk
      /\ call'.engine = Engine(cmd) /\ call'.tries = TriesOf(cmd)
      /\ call' \in CallType /\ TriesOf(cmd) \in Nat
  BY <1>1, DriverAssumption DEF Transfer, CallType, Engines, Engine, TriesOf, Commands
<1>4. chip' \in ChipType /\ chip'.fifo = None /\ chip'.err = FALSE
  <2>1. chip \in ChipType /\ FramingFor(cmd) \in {0, 7}
    BY DEF DriverInv, Types, ChipType, FramingFor
  <2> QED
    BY <1>1, <2>1 DEF Prepared, ChipType
<1>5. ASSUME NEW c \in Cards
      PROVE  /\ card'[c] \in CardType
             /\ card'[c].at \in {"ready"} \cup Selected => Takes(c, cmd, out.uid, framing)
             /\ card'[c].at = "ready" => cmd \in Requests \cup {"ANTICOLL"}
             /\ card'[c].at \in Selected =>
                   /\ cmd \notin Requests \cup {"ANTICOLL"}
                   /\ card[c].at \in Selected \/ Shown[c] = out.uid
  BY <1>1, AfterCases DEF DriverInv
<1>6. \A c \in takers :
        /\ c \in seen'
        /\ cmd = "ANTICOLL" => out.sak = None /\ out.block \in {None, Own}
        /\ cmd \in {"SELECT", "READ"} => Shown[c] = out.uid
  BY <1>1, TakersSeen DEF Present
<1> HIDE DEF framing
<1>7. PICK v : air' # None =>
                 /\ air' = [from |-> heard, frame |-> [kind |-> cmd, val |-> v]]
                 /\ \E c \in takers : v \in {Mixed, Answer(c, cmd, blk).val}
  <2>1. CASE heard = {}
    BY <1>2, <2>1 DEF Heard
  <2>2. CASE heard # {}
    BY <1>2, <2>2, HeardOne
  <2> QED
    BY <2>1, <2>2
<1>8. Types'
  <2>1. air' # None => air' \in AirType
    <3>1. SUFFICES ASSUME air' # None PROVE air' \in AirType
      OBVIOUS
    <3>2. /\ air' = [from |-> heard, frame |-> [kind |-> cmd, val |-> v]]
          /\ \E c \in takers : v \in {Mixed, Answer(c, cmd, blk).val}
      BY <1>7, <3>1
    <3>3. v \in Values
      BY <1>1, <3>2, AnswerType DEF Values, Present
    <3> QED
      BY <3>2, <3>3 DEF AirType, Frames, Present
  <2>2. card' \in [Cards -> CardType]
    BY <1>1, <1>5
  <2>3. seen' \subseteq Cards /\ out' \in OutType
    BY <1>1, <1>15 DEF DriverInv, Types, Present
  <2>5. step' > 0 /\ step' \in 0 .. LastStep' /\ prog' \in Programs /\ resets' \in 0 .. MaxResets
    BY <1>1 DEF DriverInv, Types, LastStep
  <2>4. (call.engine = Engine(call.cmd))' /\ (call.tries \in -1 .. TriesOf(call.cmd))'
    <3>1. Engine(call.cmd)' = Engine(cmd) /\ TriesOf(call.cmd)' = TriesOf(cmd)
      BY <1>1, <1>3 DEF Engine, TriesOf
    <3> QED
      BY <1>3, <3>1
  <2> QED
    BY <1>3, <1>4, <1>15, <2>1, <2>2, <2>3, <2>4, <2>5 DEF Types
<1>9. Awake'
  <2>1. ASSUME NEW c \in Cards, card'[c].at \in {"ready"} \cup Selected PROVE c \in seen'
    <3>1. Takes(c, cmd, out.uid, framing)
      BY <1>5, <2>1
    <3>2. c \in takers
      BY <3>1 DEF Takes, Present, Requests
    <3> QED
      BY <1>6, <3>2
  <2> QED
    BY <2>1 DEF Awake
<1>10. Chosen'
  <2>1. ASSUME NEW c \in Cards, card'[c].at \in Selected PROVE Shown[c] = out'.uid
    <3>1. out' = out /\ (card[c].at \in Selected \/ Shown[c] = out.uid)
      BY <1>5, <1>15, <2>1
    <3> QED
      BY <1>1, <3>1 DEF DriverInv, Chosen
  <2> QED
    BY <2>1 DEF Chosen
<1>11. Settled'
  <2>1. SUFFICES ASSUME out'.sak # None \/ out'.block \notin {None, Own}, NEW c \in Cards
                 PROVE  card'[c].at # "ready"
    BY DEF Settled, NoneReady
  <2>2. ~ request /\ out' = out
    BY <1>15, <2>1
  <2>3. card'[c].at = "ready" => cmd = "ANTICOLL" /\ c \in takers
    BY <1>5, <2>2 DEF Takes, Present
  <2> QED
    BY <1>6, <2>1, <2>2, <2>3
<1>12. Exclusive'
  BY <1>3, <1>5 DEF Exclusive, NoneReady, NoneSelected
<1>13. Flight'
  <2>1. SUFFICES ASSUME air' # None PROVE Fits(air.frame)'
    BY <1>4 DEF Flight
  <2>2. /\ air' = [from |-> heard, frame |-> [kind |-> cmd, val |-> v]]
        /\ \E c \in takers : v \in {Mixed, Answer(c, cmd, blk).val}
    BY <1>7, <2>1
  <2>3. air'.frame.kind = cmd /\ air'.frame.val = v
    BY <2>2
  <2>4. cmd \in {"ANTICOLL", "SELECT", "READ"} => out' = out
    BY <1>15 DEF Requests
  <2>5. \E c \in seen' :
          /\ cmd = "ANTICOLL" => out'.sak = None /\ out'.block \in {None, Own}
          /\ cmd \in {"SELECT", "READ"} => Shown[c] = out'.uid
          /\ v = Answer(c, cmd, blk).val \/ v = Mixed
    BY <1>6, <1>7, <2>1, <2>4
  <2> QED
    BY <1>3, <2>3, <2>5 DEF Fits, Meant, Answer
<1>14. OneCard' /\ UidInv'
  <2>1. OneCard'
    BY <1>1, <1>15 DEF DriverInv, OneCard
  <2>2. UidOfTurn'
    BY <1>1, <1>15 DEF DriverInv, UidInv, UidOfTurn
  <2>3. ASSUME prog = "get_uid" PROVE step \in {1, 2} /\ cmd = Script["get_uid"][step]
    <3>1. step \in 0 .. Len(Script["get_uid"]) /\ cmd \in {Script["get_uid"][step]}
      BY <1>1, <2>3 DEF Calls, Dumping, DriverInv, Types, LastStep
    <3> QED
      BY <1>1, <3>1 DEF Script, GetUidTurn
  <2>4. UidTested'
    <3>1. CASE prog = "get_uid"
      <4>1. Script["get_uid"] = <<"REQA", "ANTICOLL">>
        BY DEF Script, GetUidTurn
      <4>2. step = 1 => cmd = "REQA" /\ request
        BY <2>3, <3>1, <4>1 DEF Requests
      <4>3. step = 2 => cmd = "ANTICOLL" /\ ~ request
        BY <2>3, <3>1, <4>1 DEF Requests
      <4> QED
        BY <1>1, <1>3, <1>15, <2>3, <3>1, <4>2, <4>3 DEF DriverInv, UidInv, UidTested
    <3> QED
      BY <1>1, <3>1 DEF UidTested
  <2> QED
    BY <2>1, <2>2, <2>4 DEF UidInv
<1> QED
  BY <1>8, <1>9, <1>10, <1>11, <1>12, <1>13, <1>14 DEF DriverInv
-----------------------------------------------------------------------------
(* The end of a call *)

(* What a call has received without an error is the answer of one card that  *)
(* was there at the last request, perhaps spoiled, or nothing.               *)
LEMMA ReceivedOne ==
  ASSUME DriverInv, call # None, NEW frame \in {chip.fifo, None}, ~ chip.err,
         Bytes(frame) > 0
  PROVE  \E c \in seen :
           /\ Meant(c)
           /\ frame.val \in {Answer(c, call.cmd, call.blk).val} \cup SpoiledTo(call.cmd)
<1>1. frame # None
  BY DEF Bytes
<1>2. Fits(frame) /\ frame.val # Mixed
  BY <1>1 DEF DriverInv, Flight
<1> QED
  BY <1>2 DEF Fits

(* What a call can leave in the buffers. *)
LEMMA FilledCases ==
  ASSUME DriverInv, call # None, NEW ok \in BOOLEAN, NEW frame \in {chip.fifo, None},
         ok => ~ chip.err, NEW filled, filled = Filled(ok, frame)
  PROVE  \/ filled = out
         \/ /\ call.cmd = "ANTICOLL" /\ out.sak = None /\ out.block \in {None, Own}
            /\ \E v \in {Garbled, Lucky} \cup {Shown[c] : c \in seen} :
                 filled = [out EXCEPT !.uid = v] /\ v = frame.val
         \/ /\ call.cmd = "SELECT"
            /\ \/ filled = [out EXCEPT !.sak = None]
               \/ \E c \in seen, v \in {Garbled, out.uid} :
                    Shown[c] = out.uid /\ filled = [out EXCEPT !.sak = v]
         \/ /\ call.cmd = "READ"
            /\ \/ \E b \in {out.block, None, Own} : filled = [out EXCEPT !.block = b]
               \/ \E c \in seen : \E v \in {Garbled, <<c, call.blk>>} :
                    Shown[c] = out.uid /\ filled = [out EXCEPT !.block = v]
<1>1. CASE call.cmd = "ANTICOLL"
  <2>1. CASE AnticollOk(ok, frame)
    <3>1. ok /\ Bytes(frame) > 0
      BY <2>1 DEF AnticollOk
    <3>2. PICK c \in seen : /\ Meant(c)
                            /\ \/ frame.val = Answer(c, call.cmd, call.blk).val
                               \/ frame.val \in SpoiledTo(call.cmd)
      BY <3>1, ReceivedOne
    <3>3. frame.val = Shown[c] \/ frame.val \in {Garbled, Lucky}
      BY <1>1, <3>2 DEF Answer, SpoiledTo, Requests
    <3> QED
      BY <1>1, <2>1, <3>2, <3>3 DEF Filled, Meant
  <2>2. CASE ~ AnticollOk(ok, frame)
    BY <1>1, <2>2 DEF Filled
  <2> QED
    BY <2>1, <2>2
<1>2. CASE call.cmd = "SELECT"
  <2>1. Filled(ok, frame) = [out EXCEPT !.sak = SakFrom(ok, frame)]
    BY <1>2 DEF Filled
  <2>2. CASE ok /\ Bytes(frame) > 0
    <3>1. PICK c \in seen : /\ Meant(c)
                            /\ \/ frame.val = Answer(c, call.cmd, call.blk).val
                               \/ frame.val \in SpoiledTo(call.cmd)
      BY <2>2, ReceivedOne
    <3>2. Shown[c] = out.uid /\ (frame.val = Shown[c] \/ frame.val = Garbled)
      BY <1>2, <3>1 DEF Answer, SpoiledTo, Meant, Requests
    <3> QED
      BY <1>2, <2>1, <2>2, <3>1, <3>2 DEF SakFrom
  <2>3. CASE ~ (ok /\ Bytes(frame) > 0)
    BY <1>2, <2>1, <2>3 DEF SakFrom
  <2> QED
    BY <2>2, <2>3
<1>3. CASE call.cmd = "READ"
  <2>1. Filled(ok, frame) = [out EXCEPT !.block = BlockFrom(ok, frame)]
    BY <1>3 DEF Filled
  <2>2. CASE ok /\ Bytes(frame) >= 16
    <3>1. Bytes(frame) > 0
      <4>1. Bytes(frame) \in Nat
        BY DEF Bytes
      <4> QED
        BY <2>2, <4>1
    <3>2. PICK c \in seen : /\ Meant(c)
                            /\ \/ frame.val = Answer(c, call.cmd, call.blk).val
                               \/ frame.val \in SpoiledTo(call.cmd)
      BY <2>2, <3>1, ReceivedOne
    <3>3. Shown[c] = out.uid /\ (frame.val = <<c, call.blk>> \/ frame.val = Garbled)
      BY <1>3, <3>2 DEF Answer, SpoiledTo, Meant, Requests
    <3> QED
      BY <1>3, <2>1, <2>2, <3>2, <3>3 DEF BlockFrom
  <2>3. CASE ~ (ok /\ Bytes(frame) >= 16)
    BY <1>3, <2>1, <2>3 DEF BlockFrom
  <2> QED
    BY <2>2, <2>3
<1>4. CASE call.cmd \notin {"ANTICOLL", "SELECT", "READ"}
  BY <1>4 DEF Filled
<1> QED
  BY <1>1, <1>2, <1>3, <1>4

(* A call returns to a step of the loop. *)
LEMMA NextStepBound ==
  ASSUME Types, call # None, NEW ok, NEW frame
  PROVE  NextStep(ok, frame) \in 1 .. LastStep
<1>1. step \in 1 .. LastStep /\ LastStep \in Nat \ {0}
  BY Lengths DEF Types
<1>2. CASE Dumping
  <2>1. LastStep = DumpLength + 2 /\ DumpLength \in Nat
    BY <1>2, Lengths DEF Dumping, Types
  <2>2. PICK ahead : /\ ahead \in {1, 2, Len(DumpSector) - 1}
                     /\ NextStep(ok, frame)
                          = IF step + ahead - 3 < DumpLength THEN step + ahead ELSE 1
    BY <1>2 DEF NextStep, DumpGoesTo
  <2>3. ahead \in Nat
    BY <2>2, DumpLengths
  <2> QED
    BY <1>1, <2>1, <2>2, <2>3
<1>3. CASE ~ Dumping /\ prog = "client"
  BY <1>3, Lengths DEF NextStep, WriteStep, Types
<1>4. CASE ~ Dumping /\ prog # "client"
  BY <1>1, <1>4, Lengths DEF NextStep, Types
<1> QED
  BY <1>2, <1>3, <1>4

(* However a call ends, what it leaves in the buffers is about the card that *)
(* the turn is about.                                                        *)
LEMMA ReturnStep ==
  ASSUME DriverInv, call # None, NEW ok \in BOOLEAN, NEW frame \in {chip.fifo, None},
         ok => ~ chip.err, Return(ok, frame),
         UNCHANGED <<prog, chip, card, air, seen, resets>>
  PROVE  DriverInv'
<1>1. /\ call' = None /\ out' = Filled(ok, frame) /\ fresh' = (fresh \/ UidRead(ok, frame))
      /\ step > 0 /\ step' \in 1 .. LastStep /\ LastStep \in Nat /\ LastStep' = LastStep
      /\ out \in OutType /\ call.blk \in Blocks
  BY NextStepBound, Lengths DEF Return, DriverInv, Types, CallType, LastStep
<1>2. seen \subseteq Cards
  BY DEF DriverInv, Types
<1>3. fresh \in BOOLEAN /\ fresh' \in BOOLEAN
  BY <1>1 DEF DriverInv, Types
<1>4. /\ out' \in OutType
      /\ \/ out' = out
         \/ /\ call.cmd = "ANTICOLL" /\ out.sak = None /\ out.block \in {None, Own}
            /\ out'.sak = None /\ out'.block = out.block /\ out'.uid = frame.val
            /\ out'.uid \in {Garbled, Lucky} \cup {Shown[c] : c \in seen}
         \/ /\ call.cmd = "SELECT" /\ out'.uid = out.uid /\ out'.block = out.block
            /\ \/ out'.sak = None
               \/ \E c \in seen : Shown[c] = out.uid /\ out'.sak \in {Garbled, Shown[c]}
         \/ /\ call.cmd = "READ" /\ out'.uid = out.uid /\ out'.sak = out.sak
            /\ \/ out'.block \in {out.block, None, Own}
               \/ \E c \in seen : Shown[c] = out.uid /\ out'.block \in {Garbled, <<c, call.blk>>}
  <2>1. CASE out' = out
    BY <1>1, <2>1
  <2>2. ASSUME call.cmd = "ANTICOLL", out.sak = None, out.block \in {None, Own},
               NEW v \in {Garbled, Lucky} \cup {Shown[c] : c \in seen},
               out' = [out EXCEPT !.uid = v], v = frame.val
        PROVE  /\ out' \in OutType /\ out'.sak = None /\ out'.block = out.block
               /\ out'.uid = frame.val
               /\ out'.uid \in {Garbled, Lucky} \cup {Shown[c] : c \in seen}
    BY <1>1, <1>2, <2>2 DEF OutType, Ids
  <2>3. ASSUME NEW v \in {None, Garbled} \cup {Shown[c] : c \in seen},
               out' = [out EXCEPT !.sak = v]
        PROVE  /\ out' \in OutType /\ out'.uid = out.uid /\ out'.block = out.block
               /\ out'.sak = v
    BY <1>1, <1>2, <2>3 DEF OutType, Ids
  <2>4. ASSUME NEW v \in {out.block, None, Own, Garbled} \cup (seen \X {call.blk}),
               out' = [out EXCEPT !.block = v]
        PROVE  /\ out' \in OutType /\ out'.uid = out.uid /\ out'.sak = out.sak
               /\ out'.block = v
    BY <1>1, <1>2, <2>4 DEF OutType
  <2>5. CASE \/ call.cmd = "SELECT" /\ out' = [out EXCEPT !.sak = None]
             \/ call.cmd = "SELECT" /\ \E c \in seen, v \in {Garbled, out.uid} :
                  Shown[c] = out.uid /\ out' = [out EXCEPT !.sak = v]
    <3>1. CASE out' = [out EXCEPT !.sak = None]
      BY <2>3, <2>5, <3>1
    <3>2. ASSUME NEW c \in seen, NEW v \in {Garbled, out.uid}, Shown[c] = out.uid,
                 out' = [out EXCEPT !.sak = v]
          PROVE  /\ out' \in OutType /\ out'.uid = out.uid /\ out'.block = out.block
                 /\ out'.sak \in {Garbled, Shown[c]}
      BY <2>3, <3>2
    <3> QED
      BY <2>5, <3>1, <3>2
  <2>6. CASE \/ call.cmd = "READ" /\ \E b \in {out.block, None, Own} : out' = [out EXCEPT !.block = b]
             \/ call.cmd = "READ" /\ \E c \in seen : \E v \in {Garbled, <<c, call.blk>>} :
                  Shown[c] = out.uid /\ out' = [out EXCEPT !.block = v]
    <3>1. ASSUME NEW b \in {out.block, None, Own}, out' = [out EXCEPT !.block = b]
          PROVE  /\ out' \in OutType /\ out'.uid = out.uid /\ out'.sak = out.sak
                 /\ out'.block \in {out.block, None, Own}
      BY <2>4, <3>1
    <3>2. ASSUME NEW c \in seen, NEW v \in {Garbled, <<c, call.blk>>}, Shown[c] = out.uid,
                 out' = [out EXCEPT !.block = v]
          PROVE  /\ out' \in OutType /\ out'.uid = out.uid /\ out'.sak = out.sak
                 /\ out'.block \in {Garbled, <<c, call.blk>>}
      BY <2>4, <3>2
    <3> QED
      BY <2>6, <3>1, <3>2
  <2>7. CASE /\ call.cmd = "ANTICOLL" /\ out.sak = None /\ out.block \in {None, Own}
             /\ \E v \in {Garbled, Lucky} \cup {Shown[c] : c \in seen} :
                  out' = [out EXCEPT !.uid = v] /\ v = frame.val
    BY <2>2, <2>7
  <2>8. \/ out' = out
        \/ /\ call.cmd = "ANTICOLL" /\ out.sak = None /\ out.block \in {None, Own}
           /\ \E v \in {Garbled, Lucky} \cup {Shown[c] : c \in seen} :
                out' = [out EXCEPT !.uid = v] /\ v = frame.val
        \/ call.cmd = "SELECT" /\ out' = [out EXCEPT !.sak = None]
        \/ call.cmd = "SELECT" /\ \E c \in seen, v \in {Garbled, out.uid} :
             Shown[c] = out.uid /\ out' = [out EXCEPT !.sak = v]
        \/ call.cmd = "READ" /\ \E b \in {out.block, None, Own} : out' = [out EXCEPT !.block = b]
        \/ call.cmd = "READ" /\ \E c \in seen : \E v \in {Garbled, <<c, call.blk>>} :
             Shown[c] = out.uid /\ out' = [out EXCEPT !.block = v]
    BY <1>1, FilledCases
  <2> QED
    BY <2>1, <2>5, <2>6, <2>7, <2>8, Zenon
<1>5. Types'
  <2>1. step' \in 0 .. LastStep'
    BY <1>1
  <2> QED
    BY <1>1, <1>3, <1>4, <2>1 DEF DriverInv, Types
<1>6. Awake' /\ Exclusive' /\ Flight'
  BY <1>1 DEF DriverInv, Awake, Exclusive, Flight
<1>7. Chosen'
  BY <1>1, <1>4 DEF DriverInv, Chosen, Exclusive, NoneSelected
<1>8. Settled'
  <2>1. CASE call.cmd \in {"SELECT", "READ"}
    BY <2>1 DEF DriverInv, Exclusive, Settled, NoneReady, Requests
  <2>2. CASE call.cmd \notin {"SELECT", "READ"}
    BY <1>4, <2>2 DEF DriverInv, Settled, NoneReady
  <2> QED
    BY <2>1, <2>2
<1>9. OneCard'
  <2>1. CASE out' = out
    BY <2>1 DEF DriverInv, OneCard
  <2>2. CASE call.cmd = "ANTICOLL" /\ out'.sak = None /\ out'.block \in {None, Own}
    BY <2>2 DEF OneCard
  <2>3. CASE /\ out'.uid = out.uid /\ out'.block = out.block
             /\ \/ out'.sak = None
                \/ \E c \in seen : Shown[c] = out.uid /\ out'.sak \in {Garbled, Shown[c]}
    BY <2>3 DEF DriverInv, OneCard
  <2>4. CASE /\ out'.uid = out.uid /\ out'.sak = out.sak
             /\ \/ out'.block \in {out.block, None, Own}
                \/ \E c \in seen : Shown[c] = out.uid /\ out'.block \in {Garbled, <<c, call.blk>>}
    BY <1>1, <2>4 DEF DriverInv, OneCard
  <2> QED
    BY <1>4, <2>1, <2>2, <2>3, <2>4
<1>10. UidOfTurn'
  <2>1. ASSUME UidRead(ok, frame)
        PROVE  out'.uid \in {Garbled, Lucky} \cup {Shown[c] : c \in seen}
    <3>1. call.cmd = "ANTICOLL" /\ ok /\ Bytes(frame) > 0
      BY <2>1 DEF UidRead, AnticollOk
    <3>2. out' = [out EXCEPT !.uid = frame.val]
      BY <1>1, <2>1 DEF UidRead, Filled
    <3>3. PICK c \in seen : \/ frame.val = Answer(c, call.cmd, call.blk).val
                            \/ frame.val \in SpoiledTo(call.cmd)
      BY <3>1, ReceivedOne
    <3>4. frame.val \in {Garbled, Lucky, Shown[c]}
      BY <3>1, <3>3 DEF Answer, SpoiledTo, Requests
    <3> QED
      BY <1>1, <3>2, <3>4 DEF OutType
  <2>2. CASE UidRead(ok, frame)
    BY <1>1, <2>1, <2>2 DEF UidOfTurn
  <2>3. CASE ~ UidRead(ok, frame)
    <3>1. UidRead(ok, frame) \in BOOLEAN
      BY DEF UidRead, AnticollOk, BccOk
    <3>2. fresh' => fresh
      BY <1>1, <1>3, <2>3, <3>1
    <3> QED
      BY <1>1, <1>4, <3>2 DEF DriverInv, UidInv, UidOfTurn
  <2> QED
    BY <2>2, <2>3
<1>11. UidTested'
  <2>1. SUFFICES ASSUME prog = "get_uid" PROVE UidTested'
    BY <1>1 DEF UidTested
  <2>2. /\ ~ fresh /\ Script["get_uid"] = <<"REQA", "ANTICOLL">> /\ step \in {1, 2}
        /\ step = 1 => call.cmd = "REQA"
    BY <1>1, <2>1 DEF DriverInv, UidInv, UidTested, Types, LastStep, Script, GetUidTurn
  <2>3. step' = 2 => step = 1
    BY <1>1, <2>1, <2>2 DEF Return, NextStep, Dumping
  <2>4. fresh' => call.cmd = "ANTICOLL" /\ Filled(ok, frame) = [out EXCEPT !.uid = frame.val]
                  /\ frame.val # Garbled
    BY <1>1, <2>1, <2>2 DEF UidRead, BccOk, Filled
  <2>5. fresh' => out'.uid # Garbled
    BY <1>1, <2>4 DEF OutType
  <2> QED
    BY <1>1, <2>2, <2>3, <2>4, <2>5 DEF UidTested
<1> QED
  BY <1>5, <1>6, <1>7, <1>8, <1>9, <1>10, <1>11 DEF DriverInv, UidInv

(* A poll that finds nothing only counts. *)
LEMMA CountStep ==
  ASSUME DriverInv, call # None,
         \/ \E t \in -1 .. TriesOf(call.cmd) : call' = [call EXCEPT !.tries = t]
         \/ \E n \in 0 .. FifoAttempts : call' = [call EXCEPT !.waits = n],
         UNCHANGED <<prog, step, chip, card, air, seen, out, fresh, resets>>
  PROVE  DriverInv'
<1>1. call \in CallType /\ call.tries \in -1 .. TriesOf(call.cmd) /\ TriesOf(call.cmd) \in Nat
  BY DriverAssumption DEF DriverInv, Types, TriesOf
<1>2. /\ call' \in CallType /\ call'.cmd = call.cmd /\ call'.blk = call.blk
      /\ call'.engine = call.engine /\ call'.tries \in -1 .. TriesOf(call.cmd)
  BY <1>1 DEF CallType
<1>3. Types'
  <2>1. Engine(call.cmd)' = Engine(call.cmd) /\ TriesOf(call.cmd)' = TriesOf(call.cmd)
    BY <1>2 DEF Engine, TriesOf
  <2> QED
    BY <1>2, <2>1 DEF DriverInv, Types, LastStep
<1>4. Awake' /\ Chosen' /\ Settled' /\ Exclusive' /\ OneCard' /\ UidInv'
  BY <1>2 DEF DriverInv, Awake, Chosen, Settled, Exclusive, NoneReady, NoneSelected,
     OneCard, UidInv, UidOfTurn, UidTested
<1>5. Flight'
  BY <1>2 DEF DriverInv, Flight, Fits, Meant, Answer
<1> QED
  BY <1>3, <1>4, <1>5 DEF DriverInv

(* card_command counts down or returns what the FIFO holds. *)
LEMMA PollCommandStep == ASSUME DriverInv, PollCommand PROVE DriverInv'
<1>1. /\ call # None /\ call.engine = "card_command"
      /\ UNCHANGED <<prog, chip, card, air, seen, resets>>
  BY DEF PollCommand
<1>2. call.tries \in -1 .. TriesOf(call.cmd) /\ TriesOf(call.cmd) \in Nat
  BY <1>1, DriverAssumption DEF DriverInv, Types, TriesOf
<1>3. CASE chip.irq \cap Waits = {} /\ call.tries - 1 > 0
  <2>1. call' = [call EXCEPT !.tries = call.tries - 1] /\ UNCHANGED <<out, fresh, step>>
    BY <1>3 DEF PollCommand
  <2>2. call.tries - 1 \in -1 .. TriesOf(call.cmd)
    BY <1>2, <1>3
  <2> QED
    BY <1>1, <2>1, <2>2, CountStep
<1>4. CASE ~ (chip.irq \cap Waits = {} /\ call.tries - 1 > 0)
  <2>1. Return(call.tries - 1 > 0 /\ ~ chip.err, chip.fifo)
    BY <1>4 DEF PollCommand
  <2>2. PICK ok \in BOOLEAN : ok = (call.tries - 1 > 0 /\ ~ chip.err)
    OBVIOUS
  <2>3. Return(ok, chip.fifo) /\ (ok => ~ chip.err)
    BY <2>1, <2>2
  <2> QED
    BY <1>1, <2>3, ReturnStep
<1> QED
  BY <1>3, <1>4

(* MFRC522.py does the same, and takes the timer for an answer. *)
LEMMA PollPythonStep == ASSUME DriverInv, PollPython PROVE DriverInv'
<1>1. /\ call # None /\ call.engine = "python"
      /\ UNCHANGED <<prog, chip, card, air, seen, resets>>
  BY DEF PollPython
<1>2. call.tries \in -1 .. TriesOf(call.cmd) /\ TriesOf(call.cmd) \in Nat
  BY <1>1, DriverAssumption DEF DriverInv, Types, TriesOf
<1>3. CASE chip.irq = {} /\ call.tries - 1 > 0
  <2>1. call' = [call EXCEPT !.tries = call.tries - 1] /\ UNCHANGED <<out, fresh, step>>
    BY <1>3 DEF PollPython
  <2>2. call.tries - 1 \in -1 .. TriesOf(call.cmd)
    BY <1>2, <1>3
  <2> QED
    BY <1>1, <2>1, <2>2, CountStep
<1>4. CASE ~ (chip.irq = {} /\ call.tries - 1 > 0)
  <2>1. Return(chip.irq # {} /\ ~ chip.err, chip.fifo)
    BY <1>4 DEF PollPython
  <2>2. PICK ok \in BOOLEAN : ok = (chip.irq # {} /\ ~ chip.err)
    OBVIOUS
  <2>3. Return(ok, chip.fifo) /\ (ok => ~ chip.err)
    BY <2>1, <2>2
  <2> QED
    BY <1>1, <2>3, ReturnStep
<1> QED
  BY <1>3, <1>4

(* rfid_transceive counts down, to -1 and no further. *)
LEMMA PollTransceiveStep == ASSUME DriverInv, PollTransceive PROVE DriverInv'
<1>1. /\ call # None /\ call.tries >= 0
      /\ UNCHANGED <<prog, chip, card, air, seen, resets>>
  BY DEF PollTransceive
<1>2. call.tries \in -1 .. TriesOf(call.cmd) /\ TriesOf(call.cmd) \in Nat
  BY <1>1, DriverAssumption DEF DriverInv, Types, TriesOf
<1>3. CASE Return(FALSE, None)
  BY <1>1, <1>3, ReturnStep
<1>4. CASE ~ Return(FALSE, None)
  <2>1. /\ \/ call' = [call EXCEPT !.tries = call.tries - 1]
           \/ call' = [call EXCEPT !.tries = -1]
        /\ UNCHANGED <<out, fresh, step>>
    BY <1>4 DEF PollTransceive
  <2>2. {call.tries - 1, -1} \subseteq -1 .. TriesOf(call.cmd)
    BY <1>1, <1>2
  <2> QED
    BY <1>1, <2>1, <2>2, CountStep
<1> QED
  BY <1>3, <1>4

(* The rest of rfid_transceive waits for the FIFO, a bounded number of times, *)
(* and returns what it holds, nothing, or an error.                           *)
LEMMA ReadFifoStep == ASSUME DriverInv, ReadFifo PROVE DriverInv'
<1>1. /\ call # None /\ UNCHANGED <<prog, chip, card, air, seen, resets>>
      /\ call.waits \in 0 .. FifoAttempts
  BY DEF ReadFifo, DriverInv, Types, CallType
<1>2. CASE chip.err
  <2>1. Return(FALSE, None)
    BY <1>2 DEF ReadFifo
  <2> QED
    BY <1>1, <2>1, ReturnStep
<1>3. CASE ~ chip.err /\ chip.fifo = None /\ call.waits > 0
  <2>1. call' = [call EXCEPT !.waits = call.waits - 1] /\ UNCHANGED <<out, fresh, step>>
    BY <1>3 DEF ReadFifo
  <2>2. call.waits - 1 \in 0 .. FifoAttempts
    BY <1>1, <1>3, DriverAssumption
  <2> QED
    BY <1>1, <2>1, <2>2, CountStep
<1>4. CASE ~ chip.err /\ ~ (chip.fifo = None /\ call.waits > 0)
  <2>1. PICK limit \in IF call.cmd = "SELECT" THEN {16} ELSE Limits : Return(TRUE, Clipped(limit))
    BY <1>4 DEF ReadFifo
  <2>2. PICK frame \in {chip.fifo, None} : frame = Clipped(limit)
    BY DEF Clipped
  <2>3. Return(TRUE, frame)
    BY <2>1, <2>2
  <2> QED
    BY <1>1, <1>4, <2>3, ReturnStep
<1> QED
  BY <1>2, <1>3, <1>4
-----------------------------------------------------------------------------
(* Every step keeps the invariant. *)
LEMMA InvStep == DriverInv /\ [Next]_vars => DriverInv'
<1> SUFFICES ASSUME DriverInv, [Next]_vars PROVE DriverInv'
  OBVIOUS
<1>1. CASE Driver
  <2>1. CASE RfidInit \/ StartDump \/ ClearAfterAuth
    BY <2>1, InitStep, StartDumpStep, ClearStep
  <2>2. CASE \E cmd \in Exported \cup {"DATA"}, blk \in Blocks : Call(cmd, blk)
    BY <2>2, CallStep
  <2>3. CASE PollCommand \/ PollPython \/ PollTransceive \/ ReadFifo
    BY <2>3, PollCommandStep, PollPythonStep, PollTransceiveStep, ReadFifoStep
  <2> QED
    BY <1>1, <2>1, <2>2, <2>3 DEF Driver
<1>2. CASE \/ Arrive \/ ArriveWrong \/ \E val \in Spoiled : ArriveUnnoticed(val)
           \/ TimerIrq \/ BoardReset
  BY <1>2, ArriveStep, TimerStep, ResetStep
<1>3. CASE \E c \in Cards : Enter(c) \/ Remove(c)
  BY <1>3, EnterStep, RemoveStep
<1>4. CASE UNCHANGED vars
  <2>1. Types'
    BY <1>4 DEF vars, DriverInv, Types, LastStep, TriesOf, Engine
  <2>2. Awake' /\ Chosen' /\ Settled' /\ Exclusive' /\ Flight' /\ OneCard' /\ UidInv'
    BY <1>4 DEF vars, DriverInv, Awake, Chosen, Settled, Exclusive, NoneReady, NoneSelected,
       Flight, Fits, Meant, OneCard, UidInv, UidOfTurn, UidTested
  <2> QED
    BY <2>1, <2>2 DEF DriverInv
<1> QED
  BY <1>1, <1>2, <1>3, <1>4 DEF Next

LEMMA InvAlways == Spec => []DriverInv
BY InvInit, InvStep, PTL DEF Spec

(* No counter of the driver leaves its range - in particular rfid_transceive *)
(* ends its loops at -1 and 0 (mfrc522.c) - and every program stays in its   *)
(* loop, for any numbers of tries and any cards.                             *)
THEOREM TypeCorrect == Spec => []TypeOK
<1>1. Types => TypeOK
  <2> SUFFICES ASSUME Types PROVE TypeOK
    OBVIOUS
  <2>1. /\ chip.fifo \in Frames \cup {None} /\ chip.irq \subseteq {"rx", "idle", "timer"}
        /\ chip.err \in BOOLEAN /\ chip.crypto \in BOOLEAN /\ chip.framing \in {0, 7}
    BY DEF Types, ChipType
  <2>2. \A c \in Cards : /\ card[c].base \in {"idle", "halt"}
                         /\ card[c].at \in {"off", "idle", "halt", "ready", "active",
                                            "auth", "writing"}
    BY DEF Types, CardType, Selected
  <2>3. air # None => air.from \subseteq Cards /\ air.frame \in Frames
    BY DEF Types, AirType
  <2>4. /\ out.uid \in Ids \cup {None, Garbled, Lucky} /\ out.sak \in Ids \cup {None, Garbled}
        /\ out.block \in (Cards \X Blocks) \cup {None, Own, Garbled} /\ fresh \in BOOLEAN
    BY DEF Types, OutType
  <2>5. call # None => /\ call.tries \in -1 .. (IF Engine(call.cmd) = "rfid_transceive"
                                              THEN TransceiveTries ELSE CommandTries)
                       /\ call.waits \in 0 .. FifoAttempts
    BY DEF Types, CallType, TriesOf
  <2>6. step \in 0 .. IF prog = "client" THEN DumpLength + 2 ELSE Len(Script[prog])
    BY DEF Types, LastStep
  <2> QED
    BY <2>1, <2>2, <2>3, <2>4, <2>5, <2>6 DEF Types, TypeOK
<1> QED
  BY <1>1, InvAlways, PTL DEF DriverInv

(* The uid, the SAK and the block that one turn of a program uses are about *)
(* one card, which was in the field when the turn began, however many cards  *)
(* there are, come and go, or answer at once, and whatever an uninitialised  *)
(* length holds; an answer spoiled without a flag leads to no other card,    *)
(* and rfid_get_uid returns none whose check byte is wrong (rfid_request to  *)
(* rfid_get_uid, mfrc522.c).                                                 *)
THEOREM OneCardCorrect == Spec => []OneCardPerTurn
<1>1. DriverInv => OneCardPerTurn
  <2> SUFFICES ASSUME DriverInv PROVE OneCardPerTurn
    OBVIOUS
  <2>1. Uid = None \/ (fresh /\ Uid = out.uid)
    BY DEF Uid
  <2>2. prog = "get_uid" => Uid # Garbled
    BY <2>1, DriverAssumption DEF DriverInv, UidInv, UidTested
  <2>3. CASE out.sak = None /\ out.block \in {None, Own}
    BY <2>1, <2>2, <2>3 DEF DriverInv, UidInv, UidOfTurn, OneCardPerTurn
  <2>4. CASE ~ (out.sak = None /\ out.block \in {None, Own})
    BY <2>1, <2>2, <2>4 DEF DriverInv, OneCard, OneCardPerTurn
  <2> QED
    BY <2>3, <2>4
<1> QED
  BY <1>1, InvAlways, PTL
=============================================================================
