----------------------------- MODULE LogBackup -----------------------------
(***************************************************************************)
(* The log in backup RAM: board-dropalt/backup_ram.c, its writer           *)
(* log_backup/log_backup.c and its reader, dfu_upload_handler() of         *)
(* usb/usb_dfu.cpp.                                                        *)
(*                                                                         *)
(* Lines go one behind the other into a buffer, which starts anew when a   *)
(* line does not fit.  A reader gets the whole as one C string: what is    *)
(* left of the previous lap is rotated to the front, in place.             *)
(*                                                                         *)
(* A character is its number in the log, from 1; Null ends a string, and   *)
(* Junk is any other byte.  Writing and reading run with the interrupts    *)
(* disabled, each is a step; a reset may cut it short all the same, and    *)
(* the RAM keeps what was there.                                           *)
(***************************************************************************)
EXTENDS Integers

CONSTANTS
  SIZE,         (* sizeof(buffer)                                       *)
  MaxLine,      (* longest line, its newline included                   *)
  Packet,       (* size of a packet of the control endpoint             *)
  Block,        (* bytes the host asks for in one DFU_UPLOAD            *)
  MaxLogged,    (* characters logged between two power-ons              *)
  MaxTorn       (* resets in the middle of a write or of a read         *)

\* A line that does not fit an empty buffer fails the assertion at
\* backup_ram.c:60.
ASSUME LogAssumption ==
  /\ SIZE \in Nat /\ MaxLine \in Nat /\ MaxLogged \in Nat /\ MaxTorn \in Nat
  /\ 1 <= MaxLine /\ MaxLine < SIZE
  /\ Packet \in Nat \ {0} /\ Block \in Nat \ {0}
  /\ Block % Packet = 0

Null == 0
Junk == -1

Index == 0 .. SIZE - 1
Buffer == [Index -> Int]

VARIABLES
  log,          (* the backup RAM: buffer, write_offset, size_limited   *)
  logged,       (* characters logged since the last power-on            *)
  upload,       (* dfu_upload_handler()'s variables                     *)
  \* What the code does not keep.
  torn,         (* resets since then that cut a write or a read short   *)
  copied,       (* the last character this upload sent                  *)
  due,          (* the last one there was when its block began          *)
  wrapped,      (* the buffer started anew during this upload ...       *)
  passed,       (* ... and new text was written where it reads          *)
  gap           (* it sent a character not next to the one before       *)

history == <<copied, due, wrapped, passed, gap>>
logVars == <<log, logged, upload, torn, history>>

-----------------------------------------------------------------------------
(* backup_ram.c.                                                           *)

(* backup_ram_init() *)
backup_ram_init(b) ==
  [buffer |-> [b EXCEPT ![SIZE - 1] = Null],
   write_offset |-> 0, size_limited |-> 0]

(* Faulty: a line that does not fit is cut without a Null.                 *)
CutUnended(b, at, n, total) ==
  [i \in Index |->
    IF i < at \/ i > at + n THEN b[i]
    ELSE IF i = at + n THEN Null
    ELSE total + 1 + (i - at)]

(* vsnprintf_nl() of the n characters behind character `total', at an      *)
(* offset of the buffer: a line that does not fit is cut, and the last     *)
(* byte is Null.                                                           *)
vsnprintf_nl(b, at, n, total) ==
  [i \in Index |->
    IF i < at \/ i > at + n THEN b[i]
    ELSE IF i = at + n \/ i = SIZE - 1 THEN Null
    ELSE total + 1 + (i - at)]

(* backup_ram_write() *)
Fits(l, n) == l.write_offset + n < SIZE

(* Faulty: the Null is taken for a part of the previous lap.               *)
LapWithNull(l, n, total) ==
  LET first == vsnprintf_nl(l.buffer, l.write_offset, n, total) IN
  IF Fits(l, n)
  THEN [l EXCEPT !.buffer = first, !.write_offset = l.write_offset + n]
  ELSE [buffer |-> vsnprintf_nl(first, 0, n, total),
        write_offset |-> n,
        size_limited |-> l.write_offset + 1]

backup_ram_write(l, n, total) ==
  LET first == vsnprintf_nl(l.buffer, l.write_offset, n, total) IN
  IF Fits(l, n)
  THEN [l EXCEPT !.buffer = first, !.write_offset = l.write_offset + n]
  ELSE [buffer |-> vsnprintf_nl(first, 0, n, total),
        write_offset |-> n,
        size_limited |-> l.write_offset]

(* reverse_memory(): its first k swaps, and all of them.                   *)
Swapped(b, begin, end, k) ==
  [i \in Index |->
    IF /\ begin <= i /\ i < end
       /\ i < begin + k \/ i >= end - k
    THEN b[begin + end - 1 - i] ELSE b[i]]

reverse_memory(b, begin, end) == Swapped(b, begin, end, SIZE)

(* backup_ram_read(), which rotates what is left of the previous lap.      *)
Overlaid(l) == l.write_offset + 1 < l.size_limited

backup_ram_read(l) ==
  LET remainder == l.write_offset + 1
      one == reverse_memory(l.buffer, 0, remainder)
      two == reverse_memory(one, remainder, l.size_limited) IN
  IF Overlaid(l)
  THEN [buffer |-> reverse_memory(two, 0, l.size_limited),
        write_offset |-> l.size_limited - 1,
        size_limited |-> 0]
  ELSE l

-----------------------------------------------------------------------------
(* A C string of a length at an offset.                                    *)
IsString(b, from, len) ==
  /\ \A k \in 0 .. len - 1 : b[from + k] # Null
  /\ from + len < SIZE => b[from + len] = Null

Least(x, y) == IF x < y THEN x ELSE y

NoUpload == [active |-> FALSE, read_offset |-> 0, data |-> 0,
             data_size |-> 0, put |-> 0]

LogInit ==
  /\ log = backup_ram_init([i \in Index |-> Junk])
  /\ logged = 0
  /\ upload = NoUpload
  /\ torn = 0
  /\ copied = 0
  /\ due = 0
  /\ wrapped = FALSE
  /\ passed = FALSE
  /\ gap = FALSE

(* A line in the log: vlog_backup().  What it then sends to the host is    *)
(* not modelled.                                                           *)
Write(n) ==
  /\ logged + n <= MaxLogged
  /\ log' = backup_ram_write(log, n, logged)
  /\ logged' = logged + n
  /\ wrapped' = (wrapped \/ (upload.active /\ ~Fits(log, n)))
  /\ passed' = (\/ passed
                \/ wrapped /\ ~Fits(log, n)
                \/ wrapped' /\ log'.write_offset >= upload.read_offset)
  /\ UNCHANGED <<upload, torn, copied, due, gap>>

(* The rest of a call of dfu_upload_handler(), with the log and the block  *)
(* it has: one packet is sent, and a short one ends the upload and logs a  *)
(* line of n characters.                                                   *)
Reply(l, total, u, n) ==
  LET size == Least(Packet, u.data_size - u.put)
      byte(k) == l.buffer[u.data + u.put + k]
      before == IF u.read_offset = 0 THEN byte(0) - 1 ELSE copied IN
  /\ upload' = [u EXCEPT !.read_offset = u.read_offset + size,
                         !.put = u.put + size,
                         !.active = size = Packet]
  /\ copied' = IF size = 0 THEN before ELSE byte(size - 1)
  /\ gap' = ((u.read_offset > 0 /\ gap)
               \/ \E k \in 0 .. size - 1 : byte(k) # before + 1 + k)
  /\ IF size < Packet
     THEN /\ total + n <= MaxLogged
          /\ log' = backup_ram_write(l, n, total)
          /\ logged' = total + n
     ELSE /\ log' = l
          /\ logged' = total
  /\ UNCHANGED torn

(* Faulty: as much as the host asks for, wherever the string ends.         *)
WholeBlock(u, len) ==
  [u EXCEPT !.data = u.read_offset,
            !.data_size = Least(Block, SIZE - 1 - u.read_offset),
            !.put = 0]

(* The setup stage of a block, with what is left of the string.            *)
NextBlock(u, len) ==
  [u EXCEPT !.data = u.read_offset,
            !.data_size = Least(Block, len),
            !.put = 0]

(* The first block: the handler logs a line and reads the log.  A host     *)
(* cannot ask before the boot has logged something.                        *)
UploadStart(m, n) ==
  /\ ~upload.active
  /\ logged > 0 /\ logged + m <= MaxLogged
  /\ LET l == backup_ram_read(backup_ram_write(log, m, logged))
         u == [NoUpload EXCEPT !.active = TRUE] IN
     \E len \in 0 .. SIZE :
       /\ IsString(l.buffer, 0, len)
       /\ Reply(l, logged + m, NextBlock(u, len), n)
  /\ due' = logged + m
  /\ wrapped' = FALSE
  /\ passed' = FALSE

(* The next block, once the host has got all of one.                       *)
UploadBlock(n) ==
  /\ upload.active
  /\ upload.put = Block
  /\ \E len \in 0 .. SIZE - upload.read_offset :
       /\ IsString(log.buffer, upload.read_offset, len)
       /\ Reply(log, logged, NextBlock(upload, len), n)
  /\ due' = logged
  /\ UNCHANGED <<wrapped, passed>>

(* The data stage of a block: its next packet.                             *)
UploadPacket(n) ==
  /\ upload.active
  /\ upload.put < Block
  /\ Reply(log, logged, upload, n)
  /\ UNCHANGED <<due, wrapped, passed>>

(* DFU_ABORT, or a USB reset after which the host starts over.             *)
UploadAbort ==
  /\ upload.active
  /\ upload' = NoUpload
  /\ copied' = 0 /\ due' = 0
  /\ wrapped' = FALSE /\ passed' = FALSE /\ gap' = FALSE
  /\ UNCHANGED <<log, logged, torn>>

-----------------------------------------------------------------------------
(* A reset leaves the RAM as it is, and one that follows a power-on or a   *)
(* change of firmware clears the log.                                      *)
Rebooted ==
  /\ upload' = NoUpload
  /\ copied' = 0 /\ due' = 0
  /\ wrapped' = FALSE /\ passed' = FALSE /\ gap' = FALSE

PowerOn ==
  /\ log' = backup_ram_init([i \in Index |-> Junk])
  /\ logged' = 0
  /\ torn' = 0
  /\ Rebooted

(* A reset in backup_ram_write() after k characters of the first copy of   *)
(* the line, or of the second, or before write_offset is set.              *)
CutLine(b, at, k) ==
  [i \in Index |-> IF at <= i /\ i < at + k /\ i < SIZE - 1
                     THEN Junk ELSE b[i]]

ResetInWrite(n) ==
  LET first == vsnprintf_nl(log.buffer, log.write_offset, n, logged)
      both  == vsnprintf_nl(first, 0, n, logged) IN
  /\ \/ \E k \in 0 .. n :
          log' = [log EXCEPT !.buffer = CutLine(@, log.write_offset, k)]
     \/ /\ ~Fits(log, n)
        /\ \E k \in 0 .. n :
             log' = [log EXCEPT !.buffer = CutLine(first, 0, k)]
     \/ /\ ~Fits(log, n)
        /\ log' = [log EXCEPT !.buffer = both,
                              !.size_limited = log.write_offset]
  /\ torn < MaxTorn
  /\ torn' = torn + 1
  /\ Rebooted
  /\ UNCHANGED logged

(* A reset in backup_ram_read() after k swaps of one of the three, or      *)
(* before size_limited is set.                                             *)
ResetInRead(k) ==
  LET remainder == log.write_offset + 1
      end == log.size_limited
      one == reverse_memory(log.buffer, 0, remainder)
      two == reverse_memory(one, remainder, end) IN
  /\ Overlaid(log)
  /\ \/ log' = [log EXCEPT !.buffer = Swapped(@, 0, remainder, k)]
     \/ log' = [log EXCEPT !.buffer = Swapped(one, remainder, end, k)]
     \/ log' = [log EXCEPT !.buffer = Swapped(two, 0, end, k)]
     \/ log' = [log EXCEPT !.buffer = reverse_memory(two, 0, end),
                           !.write_offset = end - 1]
  /\ torn < MaxTorn
  /\ torn' = torn + 1
  /\ Rebooted
  /\ UNCHANGED logged

Lines == 1 .. MaxLine

LogNext ==
  \/ \E n \in Lines : Write(n) \/ UploadBlock(n) \/ UploadPacket(n)
  \/ \E m, n \in Lines : UploadStart(m, n)
  \/ UploadAbort
  \/ PowerOn
  \/ \E n \in Lines : ResetInWrite(n)
  \/ \E k \in 0 .. SIZE : ResetInRead(k)

LogSpec == LogInit /\ [][LogNext]_logVars

-----------------------------------------------------------------------------
(* The types of the variables; and no reader leaves the buffer: its last   *)
(* byte is always Null (the safe guard of backup_ram.c:27), resets in the  *)
(* middle of a write or a read included, and the block of an upload ends   *)
(* before it.                                                              *)
Terminated ==
  /\ log.buffer[SIZE - 1] = Null
  /\ upload.data + upload.data_size < SIZE
  /\ upload.put <= upload.data_size
  /\ upload.read_offset = upload.data + upload.put

LogTypeOK ==
  /\ log \in [buffer : Buffer, write_offset : Index, size_limited : Index]
  /\ logged \in Nat
  /\ torn \in Nat
  /\ upload \in [active : BOOLEAN, read_offset : Index, data : Index,
                 data_size : 0 .. Block, put : 0 .. Block]
  /\ Terminated

(* A string that is the end of the log: its characters are the last ones   *)
(* logged, in order and without a gap.                                     *)
EndOfLog(b, len, total) ==
  /\ len <= total
  /\ b[len] = Null
  /\ \A i \in 0 .. len - 1 : b[i] = total - len + 1 + i

(* What backup_ram_read() returns is the end of the log, however often the *)
(* buffer started anew and was rotated, and it is the whole log or all but *)
(* a line's length of what the buffer can hold (backup_ram.c:62, :96).     *)
ReadsEndOfLog ==
  torn = 0 /\ logged > 0 =>
    \E len \in Index :
      /\ EndOfLog(backup_ram_read(log).buffer, len, logged)
      /\ len = logged \/ len >= SIZE - 1 - MaxLine

(* While lines are logged between its packets, an upload still sends the   *)
(* log in order and without a gap, and up to what was there when its last  *)
(* block began, unless the buffer starts anew under it and, for the order, *)
(* new text gets to where it reads (usb_dfu.cpp:253).                      *)
UploadsInOrder ==
  torn = 0 =>
    /\ gap => passed
    /\ ~upload.active /\ ~wrapped => copied = due
====
