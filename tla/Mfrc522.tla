------------------------------- MODULE Mfrc522 -------------------------------
(***************************************************************************)
(* The driver of the MFRC522 card reader (stormtomten/pico_reader/src/     *)
(* mfrc522.c, the same code as Rackhamn/mfrc522, and its MicroPython twin  *)
(* Gabbemannen00/pico_w/MFRC522.py), the chip, the cards in its field, and *)
(* the programs that call it in a loop.                                    *)
(*                                                                         *)
(* A transmission is one step (Call: it takes the registers' set-up with   *)
(* it), the arrival of an answer another, and so is every poll of the      *)
(* interrupt register: cards come, go and answer between any two polls.    *)
(* Commands and answers are records, never bytes; the number of bytes of   *)
(* an answer is kept because the code looks at it.                         *)
(***************************************************************************)
EXTENDS Integers, Sequences, FiniteSets

CONSTANTS Cards,
          Shown,           (* what a card sends in the anticollision: its uid, or   *)
                           (* the first part of a uid of more than four bytes       *)
          Double,          (* the cards with such a uid                             *)
          Atqa,            (* the two bytes with which a card answers a request     *)
          Blocks,          (* the blocks that are read and written                  *)
          Sectors,         (* 16: how many sectors are dumped                       *)
          Programs,        (* the programs that may run on the board                *)
          CommandTries, TransceiveTries, FifoAttempts,  (* 2000, 10000, 10          *)
          Limits,          (* what an uninitialised length may hold                 *)
          MaxResets,       (* bound: how often the board is reset                   *)
          Mixed,           (* two different answers at once                         *)
          Garbled, Lucky,  (* an answer spoiled on its way; with a check byte that  *)
                           (* fits by chance                                        *)
          Own, None        (* the command's own bytes; nothing                      *)

ASSUME DriverAssumption ==
  /\ IsFiniteSet(Cards) /\ Double \subseteq Cards
  /\ Atqa \in [Cards -> (0 .. 255) \X (0 .. 255)]
  /\ IsFiniteSet(Blocks) /\ Blocks \subseteq Nat /\ 1 \in Blocks
  /\ Programs \subseteq {"read_card", "get_uid", "test", "micropython", "client"}
  /\ Limits \subseteq 0 .. 255
  /\ {CommandTries, TransceiveTries, FifoAttempts} \subseteq Nat \ {0}
  /\ MaxResets \in Nat /\ Sectors \in Nat
  /\ DOMAIN Shown = Cards /\ None \notin Cards
  /\ \A c \in Cards : Shown[c] \notin {None, Mixed, Garbled, Lucky}
  /\ None \notin {Mixed, Garbled, Lucky, Own} /\ Mixed \notin {Garbled, Lucky}
  /\ Garbled \notin {Lucky, Own} /\ Mixed \notin (0 .. 255) \X (0 .. 255)

VARIABLES
  prog, step,  (* the program and where in its loop it is; 0 before rfid_init      *)
  call,        (* the transfer under way: its command, engine and counters         *)
  chip,        (* FIFO, interrupt and error registers, Crypto1 bit, bit framing    *)
  card,        (* each card's state, and the state it falls back to                *)
  air,         (* the answer on its way, with the cards it comes from              *)
  seen,        (* ghost: the cards in the field when the last request was sent     *)
  out,         (* the caller's buffers: uid, SAK, block                            *)
  fresh,       (* ghost: the uid was cleared or filled since that request          *)
  resets

vars == <<prog, step, call, chip, card, air, seen, out, fresh, resets>>

(* What each program calls in one turn of its loop.  A call that fails ends *)
(* the turn, but for SELECT and READ, whose results are only printed.       *)
ReadCardTurn == <<"WUPA", "ANTICOLL">>
GetUidTurn   == <<"REQA", "ANTICOLL">>
TestTurn     == <<"WUPA", "ANTICOLL", "SELECT", "AUTH", "READ", "CLEAR">>
PythonTurn   == <<"REQA", "ANTICOLL">>
Script == [read_card |-> ReadCardTurn, get_uid |-> GetUidTurn,
           test |-> TestTurn, micropython |-> PythonTurn]
Requests == {"REQA", "WUPA"}
Ids == {Shown[c] : c \in Cards}
(* Any other caller of the library: every exported function in any order.   *)
Exported == Requests \cup {"ANTICOLL", "SELECT", "AUTH", "READ", "WRITE", "HALT", "CLEAR"}
(* rfid_dump_classic_1k, which a client may call as well: each sector is    *)
(* authenticated with one key or the other, and its blocks are read.        *)
DumpSector == <<"AUTH", "AUTH">> \o [b \in 1 .. Cardinality(Blocks) |-> "READ"]
DumpLength == Sectors * Len(DumpSector)
(* A client's steps: 1 between two calls, 2 in rfid_write_block, then the   *)
(* steps of a dump.                                                         *)
Dumping == prog = "client" /\ step > 2
DumpStep == ((step - 3) % Len(DumpSector)) + 1
DumpedSector == (step - 3) \div Len(DumpSector)

Calls == IF Dumping THEN {DumpSector[DumpStep]}
         ELSE IF prog = "client"
         THEN IF step = 2 THEN {"DATA"} ELSE Exported
         ELSE {Script[prog][step]}

Blank == [uid |-> None, sak |-> None, block |-> None]
Present == {c \in Cards : card[c].at # "off"}
ResetChip == [fifo |-> None, irq |-> {}, err |-> FALSE, crypto |-> FALSE, framing |-> 0]

Init ==
  /\ prog \in Programs /\ step = 0
  /\ call = None
  /\ chip \in {ResetChip, [ResetChip EXCEPT !.crypto = TRUE]}
  /\ card = [c \in Cards |-> [at |-> "off", base |-> "idle"]]
  /\ air = None /\ seen = {} /\ out = Blank /\ fresh = TRUE /\ resets = 0

-----------------------------------------------------------------------------
(* The cards (ISO 14443-3, and MIFARE's authentication).                    *)

(* A dump passes the number of a sector where rfid_auth takes a block's:    *)
(* the numbers 0 to 3 are blocks of the first sector.                       *)
SectorOpen == Dumping => DumpedSector \div 4 = DumpedSector

(* A card takes a command only in the state it belongs to, with the right   *)
(* bit framing, and encrypted exactly if the card was authenticated.        *)
Takes(c, cmd, uid, framing) ==
  LET at == card[c].at IN
  /\ (framing = 7) <=> (cmd \in Requests)
  /\ chip.crypto <=> (at \in {"auth", "writing"})
  /\ \/ cmd \in Requests /\ at = "idle"
     \/ cmd = "WUPA" /\ at = "halt"
     \/ cmd = "ANTICOLL" /\ at = "ready"
     \/ cmd = "SELECT" /\ at = "ready" /\ uid = Shown[c]
     \/ cmd = "AUTH" /\ at \in {"active", "auth"} /\ c \notin Double /\ uid = Shown[c]
     \/ cmd \in {"READ", "WRITE"} /\ at = "auth" /\ SectorOpen
     \/ cmd = "DATA" /\ at = "writing"
     \/ cmd = "HALT" /\ at \in {"active", "auth"}

Goes == [REQA |-> "ready", WUPA |-> "ready", ANTICOLL |-> "ready", SELECT |-> "active",
         AUTH |-> "auth", READ |-> "auth", WRITE |-> "writing", DATA |-> "auth",
         HALT |-> "halt"]

(* Anything else sends a card that was awake back to sleep.                 *)
After(c, cmd, uid, framing) ==
  IF card[c].at \in {"off", "idle", "halt"} /\ ~Takes(c, cmd, uid, framing) THEN card[c]
  ELSE IF ~Takes(c, cmd, uid, framing) THEN [card[c] EXCEPT !.at = card[c].base]
  ELSE [at |-> Goes[cmd],
        base |-> IF cmd = "HALT" \/ card[c].at = "halt" THEN "halt" ELSE card[c].base]

Answer(c, cmd, blk) ==
  [kind |-> cmd,
   val  |-> CASE cmd \in Requests -> Atqa[c]
              [] cmd \in {"ANTICOLL", "SELECT", "AUTH"} -> Shown[c]
              [] OTHER -> <<c, blk>>]

Bytes(frame) ==
  IF frame = None THEN 0
  ELSE CASE frame.kind \in Requests -> 2
         [] frame.kind = "ANTICOLL" -> 5
         [] frame.kind = "SELECT" -> 3
         [] frame.kind = "READ" -> 18
         [] OTHER -> 1

(* The antenna hears some of the cards that answer; different answers mix.  *)
Heard(cards, cmd, blk) ==
  LET said == {Answer(c, cmd, blk) : c \in cards} IN
  IF cards = {} THEN None
  ELSE [from |-> cards,
        frame |-> [kind |-> cmd,
                   val |-> IF Cardinality(said) = 1
                           THEN (CHOOSE a \in said : TRUE).val ELSE Mixed]]

Enter(c) ==
  /\ card[c].at = "off"
  /\ card' = [card EXCEPT ![c] = [at |-> "idle", base |-> "idle"]]
  /\ UNCHANGED <<prog, step, call, chip, air, seen, out, fresh, resets>>

Remove(c) ==
  /\ card[c].at # "off"
  /\ card' = [card EXCEPT ![c].at = "off"]
  /\ air' = IF air # None /\ c \in air.from THEN None ELSE air
  /\ UNCHANGED <<prog, step, call, chip, seen, out, fresh, resets>>

-----------------------------------------------------------------------------
(* The driver.                                                              *)

\* A slip: rfid_init without reset(): the chip stays as it was left.
NoReset ==
  /\ step = 0
  /\ step' = 1
  /\ UNCHANGED <<prog, call, chip, card, air, seen, out, fresh, resets>>

(* rfid_init: reset() takes the field away for a moment.                    *)
RfidInit ==
  /\ step = 0
  /\ step' = 1
  /\ chip' = ResetChip
  /\ air' = None
  /\ card' = [c \in Cards |-> IF c \in Present
                              THEN [at |-> "idle", base |-> "idle"] ELSE card[c]]
  /\ UNCHANGED <<prog, call, seen, out, fresh, resets>>

Engine(cmd) ==
  IF prog = "micropython" THEN "python"
  ELSE IF cmd \in {"SELECT", "READ", "WRITE", "DATA"} THEN "rfid_transceive"
  ELSE "card_command"

(* BitFramingReg: written by rfid_request, rfid_anticoll and                *)
(* rfid_transceive; rfid_auth and rfid_halt take what is there.             *)
FramingFor(cmd) ==
  IF cmd \in Requests THEN 7
  ELSE IF cmd = "ANTICOLL" \/ Engine(cmd) = "rfid_transceive" THEN 0
  ELSE chip.framing

\* A slip: the turn starts with what the last one left in the buffers.
KeptBuffers(cmd) == out

(* read_card and test.c clear their buffers before a request.  The others   *)
(* do not: what they had of SAK and block they no longer use, but the old   *)
(* uid is there for a SELECT or an authentication until it is read anew.    *)
Clears(cmd) == cmd \in Requests /\ prog \in {"read_card", "test"}
Buffers(cmd) == IF cmd \notin Requests THEN out
                ELSE IF Clears(cmd) THEN Blank
                ELSE [Blank EXCEPT !.uid = out.uid]
FreshAt(cmd) == IF cmd \in Requests THEN Clears(cmd) ELSE fresh

(* The set-up before StartSend: interrupts cleared, FIFO flushed, the old   *)
(* command stopped.                                                         *)
Prepared(cmd) ==
  [chip EXCEPT !.fifo = None, !.irq = {}, !.err = FALSE, !.framing = FramingFor(cmd)]

Transfer(cmd, blk) ==
  LET long == Engine(cmd) = "rfid_transceive" IN
  [cmd |-> cmd, engine |-> Engine(cmd), blk |-> blk,
   tries |-> IF long THEN TransceiveTries ELSE CommandTries,
   waits |-> IF long THEN FifoAttempts ELSE 0]

StartDump ==
  /\ prog = "client" /\ step = 1 /\ call = None
  /\ step' = IF Sectors = 0 THEN 1 ELSE 3
  /\ out' = [out EXCEPT !.block = None]
  /\ UNCHANGED <<prog, call, chip, card, air, seen, fresh, resets>>

(* A dump reads the blocks of a sector in their order.                      *)
DumpedBlock == CHOOSE b \in Blocks : Cardinality({a \in Blocks : a < b}) = DumpStep - 3

(* rfid_write_block refuses a sector's trailer before it sends anything; a  *)
(* block's number matters to READ and WRITE only.                           *)
MayCall(cmd, blk) ==
  /\ step > 0 /\ call = None
  /\ cmd \in Calls \ {"CLEAR"}
  /\ cmd = "WRITE" => blk % 4 # 3
  /\ prog # "client" \/ cmd \notin {"READ", "WRITE"} => blk = 1
  /\ Dumping => blk = IF cmd = "READ" THEN DumpedBlock ELSE 1

(* The command is sent, and the cards that are there react.                 *)
Call(cmd, blk) ==
  LET framing == FramingFor(cmd)
      takers  == {c \in Present : Takes(c, cmd, out.uid, framing)}
      replies == IF cmd = "HALT" THEN {} ELSE takers
  IN
  /\ MayCall(cmd, blk)
  /\ \E heard \in SUBSET replies :
       /\ heard = {} => replies = {}
       /\ air' = Heard(heard, cmd, blk)
  /\ card' = [c \in Cards |-> After(c, cmd, out.uid, framing)]
  /\ chip' = Prepared(cmd)
  /\ call' = Transfer(cmd, blk)
  /\ seen' = IF cmd \in Requests THEN Present ELSE seen
  /\ out' = Buffers(cmd)
  /\ fresh' = FreshAt(cmd)
  /\ UNCHANGED <<prog, step, resets>>

(* An answer reaches the chip as it was sent.  An authentication ends with  *)
(* the Idle interrupt and turns Crypto1 on.                                 *)
Arrive ==
  /\ call # None /\ air # None /\ air.frame.val # Mixed
  /\ air' = None
  /\ chip' = IF call.cmd = "AUTH"
             THEN [chip EXCEPT !.irq = @ \cup {"idle"}, !.crypto = TRUE]
             ELSE [chip EXCEPT !.fifo = air.frame, !.irq = @ \cup {"rx"}]
  /\ UNCHANGED <<prog, step, call, card, seen, out, fresh, resets>>

(* A spoiled answer, or two at once, and the chip sets one of the bits that *)
(* the driver looks at (0x1B: collision, parity, protocol, overflow).       *)
ArriveWrong ==
  /\ call # None /\ air # None
  /\ air' = None
  /\ chip' = IF call.cmd = "AUTH" THEN [chip EXCEPT !.err = TRUE]
             ELSE [chip EXCEPT !.fifo = air.frame, !.irq = @ \cup {"rx"}, !.err = TRUE]
  /\ UNCHANGED <<prog, step, call, card, seen, out, fresh, resets>>

(* What an answer may be spoiled to: a tag type that read_card allows and   *)
(* one that it does not; a uid whose check byte is wrong or fits by chance. *)
SpoiledTo(cmd) == CASE cmd \in Requests  -> {<<4, 0>>, <<255, 255>>}
                    [] cmd = "ANTICOLL" -> {Garbled, Lucky}
                    [] OTHER            -> {Garbled}

Spoiled == SpoiledTo("WUPA") \cup SpoiledTo("ANTICOLL")

(* Spoiled with none of these bits set: the driver neither has the chip     *)
(* check an answer's CRC nor looks at CRCErr.  (Two answers at once always  *)
(* are a collision, and an authentication that goes wrong is a protocol     *)
(* error.)  Only rfid_get_uid can tell one spoiled uid from the other.      *)
ArriveUnnoticed(val) ==
  /\ call # None /\ air # None /\ air.frame.val # Mixed /\ call.cmd # "AUTH"
  /\ val \in SpoiledTo(call.cmd) /\ (val = Lucky => prog = "get_uid")
  /\ air' = None
  /\ chip' = [chip EXCEPT !.fifo = [kind |-> call.cmd, val |-> val], !.irq = @ \cup {"rx"}]
  /\ UNCHANGED <<prog, step, call, card, seen, out, fresh, resets>>

(* The chip's timer (TModeReg: it starts by itself after a transmission).   *)
TimerIrq ==
  /\ call # None /\ air = None /\ chip.irq = {}
  /\ chip' = [chip EXCEPT !.irq = {"timer"}]
  /\ UNCHANGED <<prog, step, call, card, air, seen, out, fresh, resets>>

(* The tag type test of read_card and test.c; rfid_request itself discards  *)
(* the number of bits it received.                                          *)
Allowed(atqa) == ~(atqa[1] # 4 /\ atqa[2] # 0)
RequestOk(ok, frame) == ok /\ (prog \in {"read_card", "test"} => Allowed(frame.val))

AnticollOk(ok, frame) == ok /\ Bytes(frame) = 5
(* rfid_get_uid alone checks the fifth byte against the other four.         *)
BccOk(uid) == prog = "get_uid" => uid # Garbled
AuthOk(ok) == ok /\ chip.crypto

(* Does the turn go on after the call?                                      *)
GoesOn(ok, frame) ==
  CASE call.cmd \in Requests           -> RequestOk(ok, frame)
    [] call.cmd = "ANTICOLL"           -> AnticollOk(ok, frame)
    [] call.cmd = "AUTH"               -> AuthOk(ok)
    [] call.cmd \in {"SELECT", "READ"} -> TRUE
    [] OTHER                           -> ok

SakFrom(ok, frame) == IF ok /\ Bytes(frame) > 0 THEN frame.val ELSE None

(* rfid_read_block copies sixteen bytes whatever it received: those that    *)
(* are missing are bytes of its own command.                                *)
BlockFrom(ok, frame) ==
  IF ~ok THEN IF Dumping THEN None ELSE out.block
  ELSE IF Bytes(frame) >= 16 THEN frame.val ELSE Own

(* Has the call returned a uid that its caller will use?                    *)
UidRead(ok, frame) ==
  call.cmd = "ANTICOLL" /\ AnticollOk(ok, frame) /\ BccOk(frame.val)

(* What the call leaves in its caller's buffers.                            *)
Filled(ok, frame) ==
  CASE call.cmd = "ANTICOLL" /\ AnticollOk(ok, frame) -> [out EXCEPT !.uid = frame.val]
    [] call.cmd = "SELECT" -> [out EXCEPT !.sak = SakFrom(ok, frame)]
    [] call.cmd = "READ"   -> [out EXCEPT !.block = BlockFrom(ok, frame)]
    [] OTHER -> out

(* rfid_write_block sends the data only after the card took the command.    *)
WriteStep(ok) == IF call.cmd = "WRITE" /\ ok THEN 2 ELSE 1

(* A dump tries the other key, gives up the sector, or goes on to the next  *)
(* block; blocks that cannot be read are only reported.                     *)
DumpGoesTo(ok) ==
  LET passed == call.cmd = "AUTH" /\ AuthOk(ok)
      ahead  == IF DumpStep = 1 THEN IF passed THEN 2 ELSE 1
                ELSE IF DumpStep = 2 /\ ~passed THEN Len(DumpSector) - 1 ELSE 1
  IN IF step + ahead - 3 < DumpLength THEN step + ahead ELSE 1

NextStep(ok, frame) ==
  IF Dumping THEN DumpGoesTo(ok)
  ELSE IF prog = "client" THEN WriteStep(ok)
  ELSE IF GoesOn(ok, frame) /\ step < Len(Script[prog]) THEN step + 1 ELSE 1

Return(ok, frame) ==
  /\ call' = None
  /\ out' = Filled(ok, frame)
  /\ fresh' = (fresh \/ UidRead(ok, frame))
  /\ step' = NextStep(ok, frame)

Waits == {"rx", "idle"}

(* card_command.  An interrupt seen on the last try is taken for a time-out.*)
PollCommand ==
  LET left == call.tries - 1 IN
  /\ call # None /\ call.engine = "card_command"
  /\ IF chip.irq \cap Waits = {} /\ left > 0
     THEN call' = [call EXCEPT !.tries = left] /\ UNCHANGED <<out, fresh, step>>
     ELSE Return(left > 0 /\ ~chip.err, chip.fifo)
  /\ UNCHANGED <<prog, chip, card, air, seen, resets>>

(* MFRC522.py: the timer ends the wait too, as if there were an answer.     *)
PollPython ==
  LET left == call.tries - 1 IN
  /\ call # None /\ call.engine = "python"
  /\ IF chip.irq = {} /\ left > 0
     THEN call' = [call EXCEPT !.tries = left] /\ UNCHANGED <<out, fresh, step>>
     ELSE Return(chip.irq # {} /\ ~chip.err, chip.fifo)
  /\ UNCHANGED <<prog, chip, card, air, seen, resets>>

(* rfid_transceive: while(timeout--).  The counter is -1 after the last try *)
(* and 0 after an interrupt on it, so the test for 0 mistakes the one for   *)
(* the other.                                                               *)
PollTransceive ==
  /\ call # None /\ call.engine = "rfid_transceive" /\ call.tries >= 0
  /\ IF chip.irq \cap Waits = {} \/ call.tries = 0
     THEN call' = [call EXCEPT !.tries = @ - 1] /\ UNCHANGED <<out, fresh, step>>
     ELSE IF call.tries = 1 THEN Return(FALSE, None)
     ELSE call' = [call EXCEPT !.tries = -1] /\ UNCHANGED <<out, fresh, step>>
  /\ UNCHANGED <<prog, chip, card, air, seen, resets>>

(* The rest of rfid_transceive: errors, the wait for the FIFO, and the      *)
(* clipping to *recv_len, which rfid_read_block and rfid_write_block leave  *)
(* uninitialised.                                                           *)
Clipped(limit) == IF Bytes(chip.fifo) <= limit \/ limit >= 16 THEN chip.fifo ELSE None

\* A slip: the loop that waits for the FIFO counts below zero.
EndlessWait ==
  /\ call # None /\ call.engine = "rfid_transceive" /\ call.tries < 0
  /\ IF chip.fifo = None
     THEN call' = [call EXCEPT !.waits = @ - 1] /\ UNCHANGED <<out, fresh, step>>
     ELSE Return(TRUE, chip.fifo)
  /\ UNCHANGED <<prog, chip, card, air, seen, resets>>

ReadFifo ==
  /\ call # None /\ call.engine = "rfid_transceive" /\ call.tries < 0
  /\ IF chip.err THEN Return(FALSE, None)
     ELSE IF chip.fifo = None /\ call.waits > 0
     THEN call' = [call EXCEPT !.waits = @ - 1] /\ UNCHANGED <<out, fresh, step>>
     ELSE \E limit \in IF call.cmd = "SELECT" THEN {16} ELSE Limits :
            Return(TRUE, Clipped(limit))
  /\ UNCHANGED <<prog, chip, card, air, seen, resets>>

(* rfid_clear_after_auth.                                                   *)
ClearAfterAuth ==
  /\ step > 0 /\ call = None /\ "CLEAR" \in Calls
  /\ chip' = [chip EXCEPT !.crypto = FALSE]
  /\ step' = 1
  /\ UNCHANGED <<prog, call, card, air, seen, out, fresh, resets>>

(* The board is reset (by its watchdog, say); the chip is not.              *)
BoardReset ==
  /\ resets < MaxResets
  /\ resets' = resets + 1
  /\ step' = 0 /\ call' = None /\ out' = Blank /\ fresh' = TRUE
  /\ UNCHANGED <<prog, chip, card, air, seen>>

Driver ==
  \/ RfidInit \/ StartDump
  \/ \E cmd \in Exported \cup {"DATA"}, blk \in Blocks : Call(cmd, blk)
  \/ PollCommand \/ PollPython \/ PollTransceive \/ ReadFifo \/ ClearAfterAuth

Next ==
  \/ Driver
  \/ Arrive \/ ArriveWrong \/ \E val \in Spoiled : ArriveUnnoticed(val)
  \/ TimerIrq \/ BoardReset
  \/ \E c \in Cards : Enter(c) \/ Remove(c)

Spec == Init /\ [][Next]_vars

(* The processor goes on.  A card that stays put answers in time again and  *)
(* again, to requests and to anticollisions: a transmission takes a         *)
(* millisecond, the shortest wait some thirty.                              *)
InTime(cmds) == call # None /\ call.cmd \in cmds /\ call.tries > 1 /\ Arrive
FairSpec == Spec /\ WF_vars(Driver) /\ SF_vars(InTime(Requests))
                 /\ SF_vars(InTime({"ANTICOLL"}))

-----------------------------------------------------------------------------
Values == Ids \cup Spoiled \cup {Mixed} \cup {Atqa[c] : c \in Cards} \cup (Cards \X Blocks)
Frames == [kind : Exported \cup {"DATA"}, val : Values]

(* Types: no counter runs out of its range, and the program is in its loop. *)
TypeOK ==
  /\ prog \in Programs
  /\ step \in 0 .. IF prog = "client" THEN DumpLength + 2 ELSE Len(Script[prog])
  /\ call # None => /\ call.tries \in -1 .. (IF Engine(call.cmd) = "rfid_transceive"
                                              THEN TransceiveTries ELSE CommandTries)
                    /\ call.waits \in 0 .. FifoAttempts
  /\ chip.fifo \in Frames \cup {None} /\ chip.irq \subseteq {"rx", "idle", "timer"}
  /\ chip.err \in BOOLEAN /\ chip.crypto \in BOOLEAN /\ chip.framing \in {0, 7}
  /\ \A c \in Cards : /\ card[c].base \in {"idle", "halt"}
                      /\ card[c].at \in {"off", "idle", "halt", "ready", "active",
                                         "auth", "writing"}
  /\ air # None => air.from \subseteq Cards /\ air.frame \in Frames
  /\ seen \subseteq Cards /\ resets \in 0 .. MaxResets
  /\ out.uid \in Ids \cup {None, Garbled, Lucky} /\ out.sak \in Ids \cup {None, Garbled}
  /\ out.block \in (Cards \X Blocks) \cup {None, Own, Garbled}
  /\ fresh \in BOOLEAN

Uid == IF fresh THEN out.uid ELSE None

(* Whatever a program uses in one turn - uid, SAK and block - is about one  *)
(* card, and one that was in the field when the turn's request was sent:    *)
(* neither two cards that answer at once, nor a card exchanged in the       *)
(* middle of a turn, nor what an earlier turn left in chip or buffers is    *)
(* mixed in (mfrc522.c 98-499 under main.c 54-90, test.c and MFRC522.py).   *)
(* An answer that is spoiled without a flag is what no card sent, but never *)
(* leads to another card: no SAK or block goes with such a uid, and         *)
(* rfid_get_uid does not return one with a wrong check byte (517-522).      *)
OneCardPerTurn ==
  /\ \/ /\ Uid \in {None, Garbled, Lucky}
        /\ out.sak = None /\ out.block \in {None, Own}
     \/ \E c \in seen : /\ Uid \in {None, Shown[c]}
                        /\ out.sak \in {None, Garbled, Shown[c]}
                        /\ out.block \in {None, Own, Garbled} \cup ({c} \X Blocks)
  /\ prog = "get_uid" => Uid # Garbled

(* A card that stays alone in the field is read again and again, although   *)
(* each reading leaves it in a state in which it ignores the next request,  *)
(* and whatever the chip was left in by a reset of the board (the loops     *)
(* that read uids only).                                                    *)
CardRead ==
  \A c \in Cards :
    /\ prog \in {"read_card", "get_uid", "micropython"}
    /\ prog = "read_card" => Allowed(Atqa[c])
    /\ <>[](Present = {c})
    => []<>(Uid = Shown[c])
=============================================================================
