--------------------------------- MODULE Ata ---------------------------------
(***************************************************************************)
(* The disk driver, src/os/drivers/ata.c, and the drive it polls.          *)
(*                                                                         *)
(* One step of the driver is one look at the status register, with what    *)
(* the driver does on it up to the next look.  The drive is no part of the *)
(* source: it is modelled as the driver uses it.  It is busy after each    *)
(* command and each sector it was given, for as long as it likes, and may  *)
(* then report an error instead of going on.  An error stays in the status *)
(* register until the next command.                                        *)
(***************************************************************************)
EXTENDS Integers, Sequences

CONSTANTS
    ATA_SECTOR_WORD_COUNT,
    Lbas,             \* the sectors of the drive, 0 .. n
    Writes,           \* what callers write: [lba, buf], buf a sequence of words
    Reads             \* what callers read: [lba, sector_count]

VARIABLES
    at, call, passed, result,      \* the driver; passed is how many sectors are done
    buffer,                   \* what a read has delivered, sector after sector
    status, command, done,    \* the drive: its flags, the command at work, its sectors done
    given,                    \* the sector it was given and has not stored yet
    media,                    \* its sectors
    before, failed            \* history of the call: media at its start, did the drive fail

driver == <<at, call, passed, result, buffer>>
drive == <<status, command, done, given, media>>
ata_vars == <<driver, drive, before, failed>>

SectorsOf(words) == (words + ATA_SECTOR_WORD_COUNT - 1) \div ATA_SECTOR_WORD_COUNT

(* A part sector behind the first is written by a loop that does not end:  *)
(* its index is a byte, as large as a sector, and starts over before it    *)
(* reaches its bound (ata.c:158).  No caller has such a size: one struct,  *)
(* smaller than a sector, and whole blocks.                                *)
ASSUME CallsAssumption ==
    /\ ATA_SECTOR_WORD_COUNT \in Nat \ {0}
    /\ Lbas \subseteq Nat
    /\ Writes \subseteq [lba : Nat, buf : Seq(Nat)] /\ Reads \subseteq [lba : Nat, sector_count : Nat]
    /\ \A w \in Writes :
          /\ Len(w.buf) < ATA_SECTOR_WORD_COUNT \/ Len(w.buf) % ATA_SECTOR_WORD_COUNT = 0
          /\ Len(w.buf) > 0 /\ SectorsOf(Len(w.buf)) < 256
          /\ w.lba .. w.lba + SectorsOf(Len(w.buf)) - 1 \subseteq Lbas
    /\ \A r \in Reads :
          r.sector_count \in 1 .. 255 /\ r.lba .. r.lba + r.sector_count - 1 \subseteq Lbas

Idle == [op |-> "none", lba |-> 0, sector_count |-> 0]
Zeros(n) == [k \in 1 .. n |-> 0]

AtaInit ==
    /\ at = "idle" /\ call = Idle /\ passed = 0 /\ result = "none" /\ buffer = <<>>
    /\ status \in {{"DRDY"}, {"BSY"}}             \* the drive may still be starting
    /\ command = Idle /\ done = 0 /\ given = <<>>
    /\ media = [l \in Lbas |-> Zeros(ATA_SECTOR_WORD_COUNT)]
    /\ before = media /\ failed = FALSE

-----------------------------------------------------------------------------
(* The drive.                                                              *)
Finish(flags) ==
    /\ status' = flags
    /\ UNCHANGED <<driver, before>>

(* Asks for a sector, or has one ready, or is at the end.                  *)
Flags(n) == IF n < command.sector_count THEN {"DRDY", "DRQ"} ELSE {"DRDY"}

Ready ==
    /\ "BSY" \in status
    /\ UNCHANGED <<command, failed>>
    /\ IF given = <<>>
       THEN Finish(Flags(done)) /\ UNCHANGED <<done, given, media>>
       ELSE /\ media' = [media EXCEPT ![command.lba + done] = given]
            /\ done' = done + 1
            /\ given' = <<>>
            /\ Finish(Flags(done + 1))

Fail ==
    /\ "BSY" \in status /\ command.op # "none"
    /\ Finish({"DRDY", "ERR"})
    /\ failed' = TRUE
    /\ given' = <<>>
    /\ UNCHANGED <<command, done, media>>

Drive == Ready \/ Fail

(* A command ends an error that is shown; a busy drive does not hear it.   *)
Command(c) ==
    IF status \cap {"BSY", "DRQ"} # {}
    THEN UNCHANGED <<status, command, done>>
    ELSE status' = {"BSY"} /\ command' = c /\ done' = 0

-----------------------------------------------------------------------------
(* The driver.                                                             *)
Goto(from, to) == at = from /\ at' = to

Return(from, value) == Goto(from, "idle") /\ result' = value

Call(c) ==
    /\ Goto("idle", "wait_bsy")
    /\ call' = c /\ passed' = 0 /\ result' = "none" /\ buffer' = <<>>
    /\ before' = media /\ failed' = FALSE
    /\ UNCHANGED drive

NotBusy == "BSY" \notin status

(* ata_wait_bsy, then the address goes into the registers.                 *)
SetAddress ==
    /\ NotBusy
    /\ Goto("wait_bsy", "wait_drdy")
    /\ UNCHANGED <<call, passed, result, buffer, drive, before, failed>>

(* ata_wait_drdy looks for an error before anything else, and so finds the *)
(* one of an earlier command.                                              *)
SendCommand ==
    /\ \/ /\ "ERR" \in status
          /\ Return("wait_drdy", "ATA_ERROR")
          /\ UNCHANGED drive
       \/ /\ "ERR" \notin status /\ "DRDY" \in status
          /\ Goto("wait_drdy", call.op)
          /\ Command([op |-> call.op, lba |-> call.lba, sector_count |-> call.sector_count])
          /\ UNCHANGED <<result, given, media>>
    /\ UNCHANGED <<call, passed, buffer, before, failed>>

(* Mutant: ata_wait_drq waits for data only.                               *)
MutReadSector ==
    /\ NotBusy /\ "DRQ" \in status
    /\ Goto("read", "next")
    /\ buffer' = buffer \o media[command.lba + done]
    /\ passed' = passed + 1 /\ done' = done + 1
    /\ status' = IF done + 1 < command.sector_count THEN {"BSY"} ELSE {"DRDY"}
    /\ UNCHANGED <<result, call, command, given, media, before, failed>>

(* ata_wait_drq, then a sector is taken from the drive.                    *)
ReadSector ==
    /\ \/ /\ "ERR" \in status
          /\ Return("read", "ATA_ERROR")
          /\ UNCHANGED <<passed, buffer, status, done>>
       \/ /\ "ERR" \notin status /\ NotBusy /\ "DRQ" \in status
          /\ Goto("read", "next")
          /\ buffer' = buffer \o media[command.lba + done]
          /\ passed' = passed + 1 /\ done' = done + 1
          /\ status' = IF done + 1 < command.sector_count THEN {"BSY"} ELSE {"DRDY"}
          /\ UNCHANGED result
    /\ UNCHANGED <<call, command, given, media, before, failed>>

(* ata_check_error and ata_wait_bsy at the end of a round: two looks.      *)
CheckError ==
    /\ IF "ERR" \in status THEN Return("next", "ATA_ERROR")
       ELSE Goto("next", "settle") /\ UNCHANGED result
    /\ UNCHANGED <<call, passed, buffer, drive, before, failed>>

Settle ==
    /\ NotBusy
    /\ IF passed < call.sector_count THEN Goto("settle", "read") /\ UNCHANGED result
       ELSE Return("settle", "ATA_SUCCESS")
    /\ UNCHANGED <<call, passed, buffer, drive, before, failed>>

(* Mutant: every sector is taken from the start of the buffer.             *)
MutSector(buf, n) ==
    [k \in 1 .. ATA_SECTOR_WORD_COUNT |-> IF k <= Len(buf) THEN buf[k] ELSE 0]

(* Sector n of a buffer, filled up with zeros.                             *)
Sector(buf, n) ==
    [k \in 1 .. ATA_SECTOR_WORD_COUNT |->
        LET j == n * ATA_SECTOR_WORD_COUNT + k IN IF j <= Len(buf) THEN buf[j] ELSE 0]

(* ata_wait_bsy, a look at the status, and a sector is given to the drive. *)
(* The last one is followed at once by the command to flush the cache.     *)
WriteSector ==
    /\ NotBusy
    /\ \/ /\ "ERR" \in status \/ "DRQ" \notin status
          /\ Return("write", "ATA_ERROR")
          /\ UNCHANGED <<passed, status, given>>
       \/ /\ "ERR" \notin status /\ "DRQ" \in status
          /\ Goto("write", IF passed + 1 < call.sector_count THEN "write" ELSE "flush")
          /\ given' = Sector(call.buf, passed)
          /\ passed' = passed + 1
          /\ status' = {"BSY"}
          /\ UNCHANGED result
    /\ UNCHANGED <<call, buffer, command, done, media, before, failed>>

Flush ==
    /\ Goto("flush", "finish")
    /\ Command(Idle)
    /\ UNCHANGED <<call, passed, result, buffer, given, media, before, failed>>

(* Mutant: the driver does not wait for the drive at the end.              *)
MutFinishWrite ==
    /\ Return("finish", "ATA_SUCCESS")
    /\ UNCHANGED <<call, passed, buffer, drive, before, failed>>

FinishWrite ==
    /\ NotBusy
    /\ Return("finish", "ATA_SUCCESS")
    /\ UNCHANGED <<call, passed, buffer, drive, before, failed>>

ata_read(r) == Call([op |-> "read", lba |-> r.lba, sector_count |-> r.sector_count])
ata_write(w) == Call([op |-> "write", lba |-> w.lba, buf |-> w.buf,
                      sector_count |-> SectorsOf(Len(w.buf))])

Work == \/ SetAddress \/ SendCommand
        \/ ReadSector \/ CheckError \/ Settle
        \/ WriteSector \/ Flush \/ FinishWrite

AtaNext ==
    \/ \E r \in Reads : ata_read(r)
    \/ \E w \in Writes : ata_write(w)
    \/ Work
    \/ Drive

(* The driver polls with nothing else to do.  That a busy drive is busy no *)
(* longer at some time is what the driver relies on.                       *)
AtaSpec == AtaInit /\ [][AtaNext]_ata_vars /\ WF_ata_vars(Work) /\ WF_ata_vars(Drive)

-----------------------------------------------------------------------------
(* The drive with the call carried out.                                    *)
Padded == call.buf \o Zeros(call.sector_count * ATA_SECTOR_WORD_COUNT - Len(call.buf))

Wanted ==
    [l \in Lbas |->
        IF call.op = "write" /\ l \in call.lba .. call.lba + call.sector_count - 1
        THEN SubSeq(Padded, (l - call.lba) * ATA_SECTOR_WORD_COUNT + 1,
                            (l - call.lba + 1) * ATA_SECTOR_WORD_COUNT)
        ELSE before[l]]

(* The buffer of a read holds the first n sectors, one after the other.    *)
Delivered(n) ==
    /\ Len(buffer) = n * ATA_SECTOR_WORD_COUNT
    /\ \A k \in 0 .. n - 1 :
          SubSeq(buffer, k * ATA_SECTOR_WORD_COUNT + 1, (k + 1) * ATA_SECTOR_WORD_COUNT)
            = media[call.lba + k]

(* A call that reports success has done what was asked by the time it      *)
(* returns, padding included, unless the drive failed in it: a failure     *)
(* with the last sector of a write is not looked for, and the command to   *)
(* flush may even clear it.                                                *)
SuccessMeansDone ==
    result = "ATA_SUCCESS" /\ ~ failed =>
        /\ media = Wanted
        /\ call.op = "read" => Delivered(call.sector_count)

(* Wherever a write stops, every sector is the old one or the new one, and *)
(* the others are left alone; and the new ones come first.                 *)
SectorsInOrder ==
    \E n \in 0 .. call.sector_count :
        \A l \in Lbas : media[l] = IF l < call.lba + n THEN Wanted[l] ELSE before[l]

(* Every call returns, however the drive fails, if the drive does not stay *)
(* busy for ever.                                                          *)
CallsReturn == at # "idle" ~> at = "idle"

==============================================================================
