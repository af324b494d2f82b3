---------------------------- MODULE UsbDfuProofs ----------------------------
(***************************************************************************)
(* The two halves of usb_dfu.cpp: what LogBackup.tla promises of uploads,  *)
(* for a buffer, lines, packets and blocks of any size and any number of   *)
(* resets, and what Dfu.tla promises of downloads, for any number of       *)
(* them, of keys and of faults.                                            *)
(***************************************************************************)
EXTENDS LogBackup, Dfu, SequenceTheorems, TLAPS

Log == [buffer : Buffer, write_offset : Index, size_limited : Index]

(* A string that starts in the buffer ends in it.                          *)
LEMMA StringEnds ==
  ASSUME NEW b, b[SIZE - 1] = Null, NEW from \in Index, NEW len \in Nat,
         from + len <= SIZE, IsString(b, from, len)
  PROVE  from + len < SIZE
BY LogAssumption DEF Index, IsString

-----------------------------------------------------------------------------
(* The log keeps its type and its last byte.                               *)

Whole(l) == l \in Log /\ l.buffer[SIZE - 1] = Null

LEMMA PutTyped ==
  ASSUME NEW b \in Buffer, b[SIZE - 1] = Null, NEW pos \in Index,
         NEW n \in Nat, NEW total \in Nat
  PROVE  /\ vsnprintf_nl(b, pos, n, total) \in Buffer
         /\ vsnprintf_nl(b, pos, n, total)[SIZE - 1] = Null
BY LogAssumption DEF vsnprintf_nl, Buffer, Index, Null

LEMMA WriteWhole ==
  ASSUME NEW l, Whole(l), NEW n \in Lines, NEW total \in Nat
  PROVE  Whole(backup_ram_write(l, n, total))
<1> DEFINE first == vsnprintf_nl(l.buffer, l.write_offset, n, total)
           both == vsnprintf_nl(first, 0, n, total)
<1>1. /\ l.buffer \in Buffer /\ l.write_offset \in Index
      /\ l.size_limited \in Index /\ l.buffer[SIZE - 1] = Null
      /\ l = [buffer |-> l.buffer, write_offset |-> l.write_offset,
              size_limited |-> l.size_limited]
  BY DEF Whole, Log
<1>2. n \in Nat /\ n < SIZE /\ 0 \in Index /\ n \in Index
  BY LogAssumption DEF Lines, Index
<1>3. first \in Buffer /\ first[SIZE - 1] = Null
  BY <1>1, <1>2, PutTyped
<1>4. both \in Buffer /\ both[SIZE - 1] = Null
  BY <1>2, <1>3, PutTyped
<1> HIDE DEF first, both
<1>5. CASE Fits(l, n)
  <2>1. l.write_offset + n \in Index
    BY <1>1, <1>2, <1>5, LogAssumption DEF Fits, Index
  <2>2. backup_ram_write(l, n, total)
          = [l EXCEPT !.buffer = first, !.write_offset = l.write_offset + n]
    BY <1>5 DEF backup_ram_write, first
  <2> QED BY <1>1, <1>3, <2>1, <2>2 DEF Whole, Log
<1>6. CASE ~ Fits(l, n)
  <2>1. backup_ram_write(l, n, total)
          = [buffer |-> both, write_offset |-> n,
             size_limited |-> l.write_offset]
    BY <1>6 DEF backup_ram_write, first, both
  <2> QED BY <1>1, <1>2, <1>4, <2>1 DEF Whole, Log
<1> QED BY <1>5, <1>6

LEMMA SwapTyped ==
  ASSUME NEW b \in Buffer, b[SIZE - 1] = Null, NEW begin \in Nat,
         NEW end \in Index, NEW k \in Int
  PROVE  /\ Swapped(b, begin, end, k) \in Buffer
         /\ Swapped(b, begin, end, k)[SIZE - 1] = Null
BY LogAssumption DEF Swapped, Buffer, Index, Null

(* Three reversals are a rotation.                                         *)
LEMMA Rotates ==
  ASSUME NEW b \in Buffer, NEW r \in Nat, NEW e \in Index, r < e
  PROVE  reverse_memory(reverse_memory(reverse_memory(b, 0, r), r, e), 0, e)
           = [i \in Index |-> IF i < e - r THEN b[i + r]
                              ELSE IF i < e THEN b[i - (e - r)] ELSE b[i]]
<1> DEFINE one == reverse_memory(b, 0, r)
           two == reverse_memory(one, r, e)
<1>1. one = [i \in Index |-> IF i < r THEN b[r - 1 - i] ELSE b[i]]
  BY LogAssumption DEF reverse_memory, Swapped, Index
<1> HIDE DEF one
<1>2. two = [i \in Index |-> IF i < r THEN b[r - 1 - i]
                             ELSE IF i < e THEN b[r + e - 1 - i] ELSE b[i]]
  <2>1. \A i \in Index :
          /\ (r <= i /\ i < e /\ (i < r + SIZE \/ i >= e - SIZE))
               <=> ~ (i < r) /\ i < e
          /\ ~ (i < r) /\ i < e => /\ r + e - 1 - i \in Index
                                  /\ ~ (r + e - 1 - i < r)
    BY LogAssumption DEF Index
  <2>2. two = [i \in Index |-> IF ~ (i < r) /\ i < e THEN one[r + e - 1 - i]
                               ELSE one[i]]
    BY <2>1 DEF reverse_memory, Swapped
  <2>3. \A i \in Index : one[i] = IF i < r THEN b[r - 1 - i] ELSE b[i]
    BY <1>1
  <2> HIDE DEF two
  <2>4. ASSUME NEW i \in Index
        PROVE  (IF ~ (i < r) /\ i < e THEN one[r + e - 1 - i] ELSE one[i])
                 = (IF i < r THEN b[r - 1 - i]
                    ELSE IF i < e THEN b[r + e - 1 - i] ELSE b[i])
    BY <2>1, <2>3
  <2> QED BY <2>2, <2>4
<1>3. reverse_memory(two, 0, e)
        = [i \in Index |-> IF i < e THEN two[e - 1 - i] ELSE two[i]]
  <2> HIDE DEF two
  <2>1. \A i \in Index : /\ 0 + e - 1 - i = e - 1 - i
                          /\ (/\ 0 <= i /\ i < e
                              /\ i < 0 + SIZE \/ i >= e - SIZE) <=> i < e
    BY LogAssumption DEF Index
  <2> QED BY <2>1 DEF reverse_memory, Swapped
<1>4. ASSUME NEW i \in Index
      PROVE  (IF i < e THEN two[e - 1 - i] ELSE two[i])
               = (IF i < e - r THEN b[i + r]
                  ELSE IF i < e THEN b[i - (e - r)] ELSE b[i])
  <2>1. CASE i < e - r
    <3>1. e - 1 - i \in Index /\ ~ (e - 1 - i < r) /\ e - 1 - i < e
          /\ r + e - 1 - (e - 1 - i) = i + r /\ i < e
      BY <2>1, LogAssumption DEF Index
    <3> QED BY <1>2, <2>1, <3>1
  <2>2. CASE i < e /\ ~ (i < e - r)
    <3>1. e - 1 - i \in Index /\ e - 1 - i < r
          /\ r - 1 - (e - 1 - i) = i - (e - r)
      BY <2>2, LogAssumption DEF Index
    <3> QED BY <1>2, <2>2, <3>1
  <2>3. CASE ~ (i < e)
    <3>1. ~ (i < r) /\ ~ (i < e - r)
      BY <2>3, LogAssumption DEF Index
    <3> QED BY <1>2, <2>3, <3>1
  <2> QED BY <2>1, <2>2, <2>3
<1> QED BY <1>3, <1>4 DEF one, two

LEMMA ReadWhole ==
  ASSUME NEW l, Whole(l)
  PROVE  Whole(backup_ram_read(l))
<1>1. /\ l.buffer \in Buffer /\ l.write_offset \in Index
      /\ l.size_limited \in Index /\ l.buffer[SIZE - 1] = Null
  BY DEF Whole, Log
<1> DEFINE r == l.write_offset + 1
           one == reverse_memory(l.buffer, 0, r)
           two == reverse_memory(one, r, l.size_limited)
           three == reverse_memory(two, 0, l.size_limited)
<1>2. CASE Overlaid(l)
  <2>1. r \in Index /\ r \in Nat /\ 0 \in Nat /\ SIZE \in Int
        /\ l.size_limited - 1 \in Index /\ 0 \in Index
    BY <1>1, <1>2, LogAssumption DEF Overlaid, Index
  <2>2. one \in Buffer /\ one[SIZE - 1] = Null
    BY <1>1, <2>1, SwapTyped DEF reverse_memory
  <2>3. two \in Buffer /\ two[SIZE - 1] = Null
    <3> HIDE DEF one
    <3> QED BY <1>1, <2>1, <2>2, SwapTyped DEF reverse_memory
  <2>4. three \in Buffer /\ three[SIZE - 1] = Null
    <3> HIDE DEF two
    <3> QED BY <1>1, <2>1, <2>3, SwapTyped DEF reverse_memory
  <2>5. backup_ram_read(l) = [buffer |-> three,
                              write_offset |-> l.size_limited - 1,
                              size_limited |-> 0]
    BY <1>2 DEF backup_ram_read
  <2> HIDE DEF three
  <2> QED BY <2>1, <2>4, <2>5 DEF Whole, Log
<1>3. CASE ~ Overlaid(l)
  BY <1>3 DEF backup_ram_read
<1> QED BY <1>2, <1>3

-----------------------------------------------------------------------------
(* What is in the buffer: the text up to write_offset is the end of the    *)
(* log, and what is left of the previous lap is what was logged before it. *)

Latest(b, to, total) ==
  /\ to <= total
  /\ \A i \in Index : i < to => b[i] = total - to + 1 + i
  /\ total > 0 => b[to] = Null

Rest(b, to, end, total) ==
  /\ end - 1 <= total
  /\ \A i \in Index : to < i /\ i < end => b[i] = total - to - end + 1 + i

Enough(to, end, total) ==
  /\ end = 0 \/ end >= SIZE - MaxLine
  /\ end = 0 => to = total \/ to >= SIZE - 1 - MaxLine

Good(l, total) ==
  /\ Latest(l.buffer, l.write_offset, total)
  /\ Overlaid(l) => Rest(l.buffer, l.write_offset, l.size_limited, total)
  /\ Enough(l.write_offset, l.size_limited, total)

LEMMA WriteGood ==
  ASSUME NEW l, Whole(l), NEW n \in Lines, NEW total \in Nat, Good(l, total)
  PROVE  Good(backup_ram_write(l, n, total), total + n)
<1> DEFINE b == l.buffer
           w == l.write_offset
           s == l.size_limited
           first == vsnprintf_nl(b, w, n, total)
           both == vsnprintf_nl(first, 0, n, total)
<1>1. /\ b \in Buffer /\ w \in Index /\ s \in Index
      /\ l = [buffer |-> b, write_offset |-> w, size_limited |-> s]
  BY DEF Whole, Log
<1>2. n \in Nat /\ 1 <= n /\ n <= MaxLine /\ n < SIZE /\ n \in Index
  BY LogAssumption DEF Lines, Index
<1>3. /\ Latest(b, w, total) /\ Enough(w, s, total)
      /\ w + 1 < s => Rest(b, w, s, total)
  BY DEF Good, Overlaid
<1> HIDE DEF b, w, s
<1>4. \A i \in Index :
        first[i] = IF i < w \/ i > w + n THEN b[i]
                   ELSE IF i = w + n \/ i = SIZE - 1 THEN Null
                   ELSE total + 1 + (i - w)
  BY DEF first, vsnprintf_nl
<1>5. \A i \in Index :
        both[i] = IF i < 0 \/ i > 0 + n THEN first[i]
                  ELSE IF i = 0 + n \/ i = SIZE - 1 THEN Null
                  ELSE total + 1 + (i - 0)
  <2> HIDE DEF first
  <2> QED BY DEF both, vsnprintf_nl
<1> DEFINE r == backup_ram_write(l, n, total)
<1>6. CASE w + n < SIZE
  <2>1. r = [buffer |-> first, write_offset |-> w + n, size_limited |-> s]
    BY <1>1, <1>6 DEF backup_ram_write, Fits, first, b, w, s
  <2>2. r.buffer = first /\ r.write_offset = w + n /\ r.size_limited = s
    BY <2>1
  <2> HIDE DEF first, r
  <2>3. Latest(first, w + n, total + n)
    BY <1>1, <1>2, <1>3, <1>4, <1>6, LogAssumption DEF Latest, Index
  <2>4. w + n + 1 < s => Rest(first, w + n, s, total + n)
    BY <1>1, <1>2, <1>3, <1>4, <1>6, LogAssumption DEF Rest, Index
  <2>5. Enough(w + n, s, total + n)
    BY <1>1, <1>2, <1>3, <1>6, LogAssumption DEF Enough, Index
  <2> QED BY <2>2, <2>3, <2>4, <2>5 DEF Good, Overlaid, r
<1>7. CASE ~ (w + n < SIZE)
  <2>1. r = [buffer |-> both, write_offset |-> n, size_limited |-> w]
    BY <1>1, <1>7 DEF backup_ram_write, Fits, first, both, b, w, s
  <2>2. r.buffer = both /\ r.write_offset = n /\ r.size_limited = w
    BY <2>1
  <2> HIDE DEF first, both, r
  <2>3. Latest(both, n, total + n)
    BY <1>1, <1>2, <1>5, LogAssumption DEF Latest, Index
  <2>4. n + 1 < w => Rest(both, n, w, total + n)
    BY <1>1, <1>2, <1>3, <1>4, <1>5, LogAssumption DEF Rest, Latest, Index
  <2>5. Enough(n, w, total + n)
    BY <1>1, <1>2, <1>7, LogAssumption DEF Enough, Index
  <2> QED BY <2>2, <2>3, <2>4, <2>5 DEF Good, Overlaid, r
<1> QED BY <1>6, <1>7

(* The log as a reader finds it: the end of the log, from the front.       *)
Flat(l, total) ==
  /\ Latest(l.buffer, l.write_offset, total)
  /\ l.write_offset = total \/ l.write_offset >= SIZE - 1 - MaxLine

LEMMA ReadGood ==
  ASSUME NEW l, Whole(l), NEW total \in Nat, Good(l, total)
  PROVE  /\ Good(backup_ram_read(l), total)
         /\ Flat(backup_ram_read(l), total)
<1> DEFINE b == l.buffer
           w == l.write_offset
           s == l.size_limited
           d == s - (w + 1)
           three == [i \in Index |-> IF i < d THEN b[i + (w + 1)]
                                     ELSE IF i < s THEN b[i - d] ELSE b[i]]
<1>1. b \in Buffer /\ w \in Index /\ s \in Index
  BY DEF Whole, Log
<1>2. /\ Latest(b, w, total) /\ Enough(w, s, total)
      /\ w + 1 < s => Rest(b, w, s, total)
  BY DEF Good, Overlaid
<1>3. CASE Overlaid(l)
  <2>1. w + 1 < s /\ w + 1 \in Nat
    BY <1>1, <1>3 DEF Overlaid, Index
  <2>2. backup_ram_read(l)
          = [buffer |-> three, write_offset |-> s - 1, size_limited |-> 0]
    BY <1>1, <1>3, <2>1, Rotates DEF backup_ram_read
  <2> HIDE DEF b, w, s
  <2>3. Latest(three, s - 1, total)
    <3>1. s - 1 <= total
      BY <1>2, <2>1 DEF Rest
    <3>2. ASSUME NEW i \in Index, i < s - 1
          PROVE  three[i] = total - (s - 1) + 1 + i
      <4>1. CASE i < d
        <5>1. i + (w + 1) \in Index /\ w < i + (w + 1) /\ i + (w + 1) < s
          BY <1>1, <2>1, <4>1, LogAssumption DEF Index
        <5>2. three[i] = b[i + (w + 1)]
          BY <4>1
        <5> QED BY <1>1, <1>2, <2>1, <5>1, <5>2, LogAssumption DEF Rest, Index
      <4>2. CASE ~ (i < d)
        <5>1. i - d \in Index /\ i - d < w
          BY <1>1, <2>1, <3>2, <4>2, LogAssumption DEF Index
        <5>2. three[i] = b[i - d]
          BY <1>1, <3>2, <4>2, LogAssumption DEF Index
        <5> QED BY <1>1, <1>2, <2>1, <5>1, <5>2, LogAssumption
                DEF Latest, Index
      <4> QED BY <4>1, <4>2
    <3>3. total > 0 => three[s - 1] = Null
      <4>1. s - 1 \in Index /\ ~ (s - 1 < d) /\ s - 1 < s /\ s - 1 - d = w
        BY <1>1, <2>1, LogAssumption DEF Index
      <4>2. three[s - 1] = b[w]
        BY <4>1
      <4> QED BY <1>2, <4>2 DEF Latest
    <3> HIDE DEF three
    <3> QED BY <3>1, <3>2, <3>3 DEF Latest
  <2>4. s - 1 >= SIZE - 1 - MaxLine
    BY <1>1, <1>2, <2>1, LogAssumption DEF Enough, Index
  <2>5. /\ backup_ram_read(l).buffer = three
        /\ backup_ram_read(l).write_offset = s - 1
        /\ backup_ram_read(l).size_limited = 0
    BY <2>2
  <2>6. ~ (s - 1 + 1 < 0) /\ Enough(s - 1, 0, total)
    BY <1>1, <2>1, <2>4 DEF Enough, Index
  <2> HIDE DEF three
  <2> QED BY <2>3, <2>4, <2>5, <2>6 DEF Good, Flat, Overlaid
<1>4. CASE ~ Overlaid(l)
  <2>1. backup_ram_read(l) = l
    BY <1>4 DEF backup_ram_read
  <2>2. w = total \/ w >= SIZE - 1 - MaxLine
    BY <1>1, <1>2, <1>4, LogAssumption DEF Enough, Overlaid, Index
  <2> QED BY <1>2, <2>1, <2>2 DEF Flat
<1> QED BY <1>3, <1>4

-----------------------------------------------------------------------------
(* The upload stays in the buffer.                                         *)

Uploads == [active : BOOLEAN, read_offset : Index, data : Index,
           data_size : 0 .. Block, put : 0 .. Block]

Inside(u) ==
  /\ u \in Uploads
  /\ u.data + u.data_size < SIZE
  /\ u.put <= u.data_size
  /\ u.read_offset = u.data + u.put

LEMMA Outside == Inside(NoUpload)
BY LogAssumption DEF Inside, Uploads, NoUpload, Index

LEMMA BlockInside ==
  ASSUME NEW u, Inside(u), NEW l, Whole(l),
         NEW len \in 0 .. SIZE - u.read_offset,
         IsString(l.buffer, u.read_offset, len)
  PROVE  Inside(NextBlock(u, len))
<1> DEFINE size == Least(Block, len)
           v == NextBlock(u, len)
<1>1. u.read_offset \in Index /\ u \in Uploads
  BY DEF Inside, Uploads
<1>2. len \in Nat /\ u.read_offset + len <= SIZE
  BY <1>1, LogAssumption DEF Index
<1>3. u.read_offset + len < SIZE
  BY <1>1, <1>2, StringEnds DEF Whole
<1>4. size \in 0 .. Block /\ size <= len
  BY <1>2, LogAssumption DEF Least
<1>5. v = [active |-> u.active, read_offset |-> u.read_offset,
           data |-> u.read_offset, data_size |-> size, put |-> 0]
  <2>1. v = [u EXCEPT !.data = u.read_offset, !.data_size = size, !.put = 0]
    BY DEF NextBlock
  <2> HIDE DEF v, size
  <2> QED BY <1>1, <2>1 DEF Uploads
<1> HIDE DEF v, size
<1>6. v \in Uploads
  BY <1>1, <1>4, <1>5, LogAssumption DEF Uploads
<1>7. /\ v.data + v.data_size < SIZE
      /\ v.put <= v.data_size
      /\ v.read_offset = v.data + v.put
  BY <1>1, <1>2, <1>3, <1>4, <1>5, LogAssumption DEF Index
<1> QED BY <1>6, <1>7 DEF Inside, v

(* What every step keeps of a log and an upload.                           *)
Kept(l, total, t) ==
  /\ Whole(l)
  /\ total \in Nat
  /\ t = 0 => Good(l, total)

LEMMA ReplyInside ==
  ASSUME NEW l, NEW total, NEW u, Inside(u), NEW n \in Lines,
         Reply(l, total, u, n)
  PROVE  Inside(upload')
<1> DEFINE size == Least(Packet, u.data_size - u.put)
<1>1. /\ u \in Uploads /\ u.data_size \in Nat /\ u.put \in Nat
      /\ u.put <= u.data_size /\ u.data_size <= Block
      /\ u.data \in Index /\ u.read_offset \in Index
      /\ u.data + u.data_size < SIZE
      /\ u.read_offset = u.data + u.put
  BY LogAssumption DEF Inside, Uploads
<1>2. size \in Nat /\ u.put + size <= u.data_size
  BY <1>1, LogAssumption DEF Least
<1>3. upload' = [active |-> size = Packet,
                 read_offset |-> u.read_offset + size,
                 data |-> u.data, data_size |-> u.data_size,
                 put |-> u.put + size]
  BY <1>1 DEF Reply, Uploads
<1> HIDE DEF size
<1>4. /\ u.read_offset + size \in Index
      /\ u.put + size \in 0 .. Block
      /\ u.read_offset + size = u.data + (u.put + size)
  BY <1>1, <1>2, LogAssumption DEF Index
<1> QED BY <1>1, <1>2, <1>3, <1>4 DEF Inside, Uploads

LEMMA ReplyKept ==
  ASSUME NEW l, NEW total, Kept(l, total, torn), NEW u, Inside(u),
         NEW n \in Lines, Reply(l, total, u, n)
  PROVE  Inside(upload') /\ Kept(log', logged', torn) /\ torn' = torn
<1>1. \/ log' = l /\ logged' = total
      \/ log' = backup_ram_write(l, n, total) /\ logged' = total + n
  BY DEF Reply
<1>2. Kept(log', logged', torn)
  <2>1. CASE log' = l /\ logged' = total
    BY <2>1
  <2>2. CASE log' = backup_ram_write(l, n, total) /\ logged' = total + n
    <3>1. total + n \in Nat
      BY DEF Kept, Lines
    <3> QED BY <2>2, <3>1, WriteWhole, WriteGood DEF Kept
  <2> QED BY <1>1, <2>1, <2>2
<1>3. Inside(upload')
  BY ReplyInside
<1>4. torn' = torn
  BY DEF Reply
<1> QED BY <1>2, <1>3, <1>4

-----------------------------------------------------------------------------
LogInv == Kept(log, logged, torn) /\ torn \in Nat /\ Inside(upload)

LEMMA InitWhole ==
  ASSUME NEW b \in Buffer
  PROVE  Kept(backup_ram_init(b), 0, 0)
<1> DEFINE l == backup_ram_init(b)
           c == [b EXCEPT ![SIZE - 1] = Null]
<1>1. c \in Buffer /\ c[SIZE - 1] = Null
  BY LogAssumption DEF Buffer, Index, Null
<1>2. l = [buffer |-> c, write_offset |-> 0, size_limited |-> 0]
  BY DEF backup_ram_init
<1> HIDE DEF c, l
<1>3. Whole(l)
  BY <1>1, <1>2, LogAssumption DEF Whole, Log, Index
<1>4. Latest(c, 0, 0) /\ Enough(0, 0, 0) /\ ~ (0 + 1 < 0)
  BY LogAssumption DEF Latest, Enough, Index
<1>5. Good(l, 0)
  BY <1>2, <1>4 DEF Good, Overlaid
<1> QED BY <1>3, <1>5 DEF Kept, l

LEMMA InitInv == LogInit => LogInv
<1>1. [i \in Index |-> Junk] \in Buffer
  BY DEF Buffer, Junk
<1> QED BY <1>1, InitWhole, Outside DEF LogInit, LogInv

(* A cut line leaves the buffer's last byte alone.                         *)
LEMMA CutTyped ==
  ASSUME NEW b \in Buffer, b[SIZE - 1] = Null, NEW pos \in Index, NEW k \in Nat
  PROVE  CutLine(b, pos, k) \in Buffer /\ CutLine(b, pos, k)[SIZE - 1] = Null
BY LogAssumption DEF CutLine, Buffer, Index, Junk, Null

LEMMA CutWriteWhole ==
  ASSUME LogInv, NEW n \in Lines, ResetInWrite(n)
  PROVE  Whole(log')
<1> DEFINE first == vsnprintf_nl(log.buffer, log.write_offset, n, logged)
           both == vsnprintf_nl(first, 0, n, logged)
<1>1. /\ log.buffer \in Buffer /\ log.write_offset \in Index
      /\ log.size_limited \in Index /\ log.buffer[SIZE - 1] = Null
      /\ log \in Log /\ logged \in Nat /\ n \in Nat /\ 0 \in Index
  BY LogAssumption DEF LogInv, Kept, Whole, Log, Lines, Index
<1>2. first \in Buffer /\ first[SIZE - 1] = Null
  BY <1>1, PutTyped
<1>3. both \in Buffer /\ both[SIZE - 1] = Null
  <2> HIDE DEF first
  <2> QED BY <1>1, <1>2, PutTyped
<1>4. \/ \E k \in 0 .. n :
           log' =
             [log EXCEPT !.buffer = CutLine(log.buffer, log.write_offset, k)]
      \/ \E k \in 0 .. n : log' = [log EXCEPT !.buffer = CutLine(first, 0, k)]
      \/ log' = [log EXCEPT !.buffer = both, !.size_limited = log.write_offset]
  BY DEF ResetInWrite
<1> HIDE DEF first, both
<1>5. ASSUME NEW b \in Buffer, b[SIZE - 1] = Null, NEW pos \in Index,
             NEW k \in 0 .. n,
             log' = [log EXCEPT !.buffer = CutLine(b, pos, k)]
      PROVE  Whole(log')
  <2> DEFINE c == CutLine(b, pos, k)
  <2>1. c \in Buffer /\ c[SIZE - 1] = Null
    <3>1. k \in Nat
      BY <1>1
    <3> QED BY <1>5, <3>1, CutTyped
  <2>2. log' = [log EXCEPT !.buffer = c]
    BY <1>5
  <2> HIDE DEF c
  <2>3. log' = [buffer |-> c, write_offset |-> log.write_offset,
                size_limited |-> log.size_limited]
    BY <1>1, <2>2 DEF Log
  <2> QED BY <1>1, <2>1, <2>3 DEF Whole, Log
<1>6. CASE \/ \E k \in 0 .. n :
                log' = [log EXCEPT !.buffer =
                          CutLine(log.buffer, log.write_offset, k)]
           \/ \E k \in 0 .. n :
                log' = [log EXCEPT !.buffer = CutLine(first, 0, k)]
  BY <1>1, <1>2, <1>5, <1>6
<1>7. CASE log' = [log EXCEPT !.buffer = both,
                              !.size_limited = log.write_offset]
  BY <1>1, <1>3, <1>7 DEF Whole, Log
<1> QED BY <1>4, <1>6, <1>7

LEMMA CutReadWhole ==
  ASSUME LogInv, NEW k \in 0 .. SIZE, ResetInRead(k)
  PROVE  Whole(log')
<1> DEFINE r == log.write_offset + 1
           e == log.size_limited
           one == reverse_memory(log.buffer, 0, r)
           two == reverse_memory(one, r, e)
           three == reverse_memory(two, 0, e)
           Fine(b) == b \in Buffer /\ b[SIZE - 1] = Null
<1>1. /\ log.write_offset \in Index /\ e \in Index /\ Fine(log.buffer)
      /\ log \in Log
  BY DEF LogInv, Kept, Whole, Log
<1>2. r < e
  BY DEF ResetInRead, Overlaid
<1>3. r \in Nat /\ r \in Index /\ 0 \in Nat /\ SIZE \in Int /\ k \in Int
      /\ e - 1 \in Index
  BY <1>1, <1>2, LogAssumption DEF Index
<1>4. Fine(Swapped(log.buffer, 0, r, k)) /\ Fine(one)
  BY <1>1, <1>3, SwapTyped DEF reverse_memory
<1>5. Fine(Swapped(one, r, e, k)) /\ Fine(two)
  <2> HIDE DEF one
  <2> QED BY <1>1, <1>3, <1>4, SwapTyped DEF reverse_memory
<1>6. Fine(Swapped(two, 0, e, k)) /\ Fine(three)
  <2> HIDE DEF two
  <2> QED BY <1>1, <1>3, <1>5, SwapTyped DEF reverse_memory
<1>7. \/ log' = [log EXCEPT !.buffer = Swapped(log.buffer, 0, r, k)]
      \/ log' = [log EXCEPT !.buffer = Swapped(one, r, e, k)]
      \/ log' = [log EXCEPT !.buffer = Swapped(two, 0, e, k)]
      \/ log' = [log EXCEPT !.buffer = three, !.write_offset = e - 1]
  BY DEF ResetInRead
<1> HIDE DEF one, two, three
<1> QED BY <1>1, <1>3, <1>4, <1>5, <1>6, <1>7 DEF Whole, Log

LEMMA NextInv == LogInv /\ [LogNext]_logVars => LogInv'
<1> SUFFICES ASSUME LogInv, [LogNext]_logVars
             PROVE  LogInv'
  OBVIOUS
<1>1. Kept(log, logged, torn) /\ torn \in Nat /\ Inside(upload)
  BY DEF LogInv
<1>2. ASSUME NEW n \in Lines, Write(n)
      PROVE  LogInv'
  <2>1. logged + n \in Nat
    BY <1>1 DEF Kept, Lines
  <2> QED BY <1>1, <1>2, <2>1, WriteWhole, WriteGood DEF Write, LogInv, Kept
<1>3. ASSUME NEW n \in Lines, UploadBlock(n)
      PROVE  LogInv'
  <2>1. PICK len \in 0 .. SIZE - upload.read_offset :
          /\ IsString(log.buffer, upload.read_offset, len)
          /\ Reply(log, logged, NextBlock(upload, len), n)
    BY <1>3 DEF UploadBlock
  <2>2. Inside(NextBlock(upload, len))
    BY <1>1, <2>1, BlockInside DEF Kept
  <2> QED BY <1>1, <2>1, <2>2, ReplyKept DEF LogInv
<1>4. ASSUME NEW n \in Lines, UploadPacket(n)
      PROVE  LogInv'
  BY <1>1, <1>4, ReplyKept DEF UploadPacket, LogInv
<1>5. ASSUME NEW m \in Lines, NEW n \in Lines, UploadStart(m, n)
      PROVE  LogInv'
  <2> DEFINE w == backup_ram_write(log, m, logged)
             l == backup_ram_read(w)
             u == [NoUpload EXCEPT !.active = TRUE]
  <2>1. PICK len \in 0 .. SIZE :
          /\ IsString(l.buffer, 0, len)
          /\ Reply(l, logged + m, NextBlock(u, len), n)
    BY <1>5 DEF UploadStart
  <2>2. logged + m \in Nat
    BY <1>1 DEF Kept, Lines
  <2>3. Kept(w, logged + m, torn)
    BY <1>1, <2>2, WriteWhole, WriteGood DEF Kept
  <2> HIDE DEF w
  <2>4. Kept(l, logged + m, torn)
    BY <2>2, <2>3, ReadWhole, ReadGood DEF Kept
  <2> HIDE DEF l
  <2>5. Inside(u) /\ u.read_offset = 0 /\ SIZE - 0 = SIZE
    <3>1. NoUpload \in Uploads
      BY Outside DEF Inside
    <3>2. /\ u \in Uploads
          /\ u.read_offset = NoUpload.read_offset /\ u.data = NoUpload.data
          /\ u.data_size = NoUpload.data_size /\ u.put = NoUpload.put
      BY <3>1 DEF Uploads
    <3>3. NoUpload.read_offset = 0
      BY DEF NoUpload
    <3> HIDE DEF u
    <3> QED BY <3>2, <3>3, Outside, LogAssumption DEF Inside
  <2> HIDE DEF u
  <2>6. Inside(NextBlock(u, len))
    BY <2>1, <2>4, <2>5, BlockInside DEF Kept
  <2> QED BY <1>1, <2>1, <2>4, <2>6, ReplyKept DEF LogInv
<1>6. ASSUME UploadAbort
      PROVE  LogInv'
  BY <1>1, <1>6, Outside DEF UploadAbort, LogInv
<1>7. ASSUME PowerOn
      PROVE  LogInv'
  <2>1. [i \in Index |-> Junk] \in Buffer
    BY DEF Buffer, Junk
  <2> QED BY <1>7, <2>1, InitWhole, Outside DEF PowerOn, Rebooted, LogInv
<1>8. ASSUME NEW n \in Lines, ResetInWrite(n)
      PROVE  LogInv'
  <2>1. Whole(log')
    BY <1>8, CutWriteWhole
  <2>2. logged' = logged /\ torn' = torn + 1 /\ upload' = NoUpload
    BY <1>8 DEF ResetInWrite, Rebooted
  <2> QED BY <1>1, <2>1, <2>2, Outside DEF LogInv, Kept
<1>9. ASSUME NEW k \in 0 .. SIZE, ResetInRead(k)
      PROVE  LogInv'
  <2>1. Whole(log')
    BY <1>9, CutReadWhole
  <2>2. logged' = logged /\ torn' = torn + 1 /\ upload' = NoUpload
    BY <1>9 DEF ResetInRead, Rebooted
  <2> QED BY <1>1, <2>1, <2>2, Outside DEF LogInv, Kept
<1>10. ASSUME UNCHANGED logVars
       PROVE  LogInv'
  BY <1>1, <1>10 DEF logVars, LogInv
<1> QED BY <1>2, <1>3, <1>4, <1>5, <1>6, <1>7, <1>8, <1>9, <1>10 DEF LogNext

THEOREM InvHolds == LogSpec => []LogInv
BY InitInv, NextInv, PTL DEF LogSpec

-----------------------------------------------------------------------------
(* The variables keep their types, and no reader leaves the buffer,        *)
(* whatever a reset cut short (the safe guard of backup_ram.c:27).         *)
THEOREM ReadersStayInside == LogSpec => []LogTypeOK
<1>1. LogInv => LogTypeOK
  BY DEF LogInv, Kept, Whole, Log, Inside, Uploads, LogTypeOK, Terminated
<1> QED BY <1>1, InvHolds, PTL

(* Unless a reset cut a write or a read short, backup_ram_read() returns   *)
(* the end of the log, in order and without a gap, and all but a line's    *)
(* length of what the buffer holds.                                        *)
THEOREM ReadsTheEnd == LogSpec => []ReadsEndOfLog
<1>1. ASSUME LogInv, torn = 0, logged > 0
      PROVE  \E len \in Index :
               /\ EndOfLog(backup_ram_read(log).buffer, len, logged)
               /\ len = logged \/ len >= SIZE - 1 - MaxLine
  <2> DEFINE l == backup_ram_read(log)
             len == l.write_offset
  <2>1. Whole(l) /\ Flat(l, logged) /\ logged \in Nat
    BY <1>1, ReadWhole, ReadGood DEF LogInv, Kept
  <2> HIDE DEF l
  <2>2. len \in Index
    BY <2>1 DEF Whole, Log
  <2>3. \A i \in 0 .. len - 1 : i \in Index /\ i < len
    BY <2>2, LogAssumption DEF Index
  <2>4. EndOfLog(l.buffer, len, logged)
    BY <1>1, <2>1, <2>3 DEF Flat, Latest, EndOfLog
  <2> QED BY <2>1, <2>2, <2>4 DEF Flat, l
<1>2. LogInv => ReadsEndOfLog
  BY <1>1 DEF ReadsEndOfLog
<1> QED BY <1>2, InvHolds, PTL

-----------------------------------------------------------------------------
(* What an upload sends.                                                   *)

(* The text from an offset to another follows the character `before'.      *)
Follows(b, from, to, before) ==
  \A i \in Index : from <= i /\ i < to => b[i] = before + 1 + (i - from)

(* The buffer did not start anew: the upload is inside the text in front   *)
(* of write_offset, and its block ends where that text ended when the      *)
(* block began, if the host did not ask for less.                          *)
Base == logged - log.write_offset

Ahead ==
  /\ copied = Base + upload.read_offset
  /\ due <= logged
  /\ upload.data + upload.data_size <= due - Base
  /\ upload.data_size < Block => upload.data + upload.data_size = due - Base

(* It did, but new text is not where the upload reads: what it still reads *)
(* is the previous lap, to whose end the line that did not fit was cut.    *)
Behind ==
  /\ log.write_offset < upload.read_offset
  /\ Follows(log.buffer, upload.read_offset, SIZE - 1, copied)

UploadInv ==
  /\ copied \in Int /\ due \in Int
  /\ upload.active => upload.put % Packet = 0
  /\ torn = 0 =>
       /\ gap => passed
       /\ passed => wrapped
       /\ ~ upload.active /\ ~ wrapped => copied = due
       /\ upload.active => /\ upload.read_offset > 0 /\ logged > 0
                           /\ ~ wrapped => Ahead
                           /\ wrapped /\ ~ passed => Behind

(* A block of whole packets ends with a whole one.                         *)
LEMMA WholePackets ==
  ASSUME NEW x \in Nat, NEW y \in Nat, x % Packet = 0, y % Packet = 0, x < y
  PROVE  x + Packet <= y /\ (x + Packet) % Packet = 0
<1> DEFINE p == x \div Packet
           q == y \div Packet
<1>1. Packet \in Nat /\ Packet > 0
  BY LogAssumption
<1>2. p \in Int /\ q \in Int /\ x = p * Packet /\ y = q * Packet
  BY <1>1
<1> HIDE DEF p, q
<1>3. p < q
  <2>1. ASSUME q <= p PROVE FALSE
    <3>1. q * Packet <= p * Packet
      BY <1>1, <1>2, <2>1
    <3> QED BY <1>2, <3>1
  <2> QED BY <1>2, <2>1
<1>4. (p + 1) * Packet <= q * Packet
  BY <1>1, <1>2, <1>3
<1>5. (p + 1) * Packet = x + Packet
  BY <1>1, <1>2
<1>6. ((p + 1) * Packet) % Packet = 0
  BY <1>1, <1>2
<1> QED BY <1>2, <1>4, <1>5, <1>6

(* One packet of a text that follows what was sent: it is sent in order,   *)
(* and what is left follows it.                                            *)
LEMMA ReplySends ==
  ASSUME NEW l, NEW total \in Nat, NEW u, Inside(u), NEW n \in Lines,
         Reply(l, total, u, n), NEW end \in Index, NEW before \in Int,
         u.data + u.data_size <= end,
         Follows(l.buffer, u.read_offset, end, before),
         IF u.read_offset = 0 THEN 0 < end ELSE copied = before
  PROVE  /\ copied' = before + (upload'.read_offset - u.read_offset)
         /\ gap' => u.read_offset > 0 /\ gap
         /\ Follows(l.buffer, upload'.read_offset, end, copied')
<1> DEFINE size == Least(Packet, u.data_size - u.put)
           byte(k) == l.buffer[u.data + u.put + k]
           prior == IF u.read_offset = 0 THEN byte(0) - 1 ELSE copied
<1>1. /\ u \in Uploads /\ u.data_size \in Nat /\ u.put \in Nat
      /\ u.put <= u.data_size
      /\ u.data \in Nat /\ u.read_offset \in Nat
      /\ u.data + u.data_size < SIZE
      /\ u.read_offset = u.data + u.put
  BY LogAssumption DEF Inside, Uploads, Index
<1>2. size \in Nat /\ u.put + size <= u.data_size
  BY <1>1, LogAssumption DEF Least
<1>3. /\ upload' = [u EXCEPT !.read_offset = u.read_offset + size,
                             !.put = u.put + size,
                             !.active = size = Packet]
      /\ copied' = IF size = 0 THEN prior ELSE byte(size - 1)
      /\ gap' = ((u.read_offset > 0 /\ gap)
                   \/ \E k \in 0 .. size - 1 : byte(k) # prior + 1 + k)
  BY DEF Reply
<1>4. upload'.read_offset = u.read_offset + size
  BY <1>1, <1>3 DEF Uploads
<1> HIDE DEF size
<1>5. end \in Nat /\ end < SIZE
  BY LogAssumption DEF Index
<1>6. ASSUME NEW k \in Nat, u.read_offset + k < end
      PROVE  byte(k) = before + 1 + k
  <2>1. u.data + u.put + k = u.read_offset + k /\ u.read_offset + k \in Index
    BY <1>1, <1>5, <1>6, LogAssumption DEF Index
  <2> QED BY <1>1, <1>6, <2>1 DEF Follows
<1>7. prior = before
  <2>1. CASE u.read_offset = 0
    <3>1. byte(0) = before + 1 + 0
      BY <1>6, <2>1
    <3> QED BY <2>1, <3>1
  <2>2. CASE u.read_offset # 0
    BY <2>2
  <2> QED BY <2>1, <2>2
<1>8. ASSUME NEW k \in 0 .. size - 1
      PROVE  byte(k) = before + 1 + k
  <2>1. k \in Nat /\ u.read_offset + k < end
    BY <1>1, <1>2, <1>5
  <2> QED BY <1>6, <2>1
<1> HIDE DEF byte, prior
<1>9. copied' = before + size
  <2>1. CASE size = 0
    BY <1>3, <1>7, <2>1
  <2>2. CASE size # 0
    <3>1. size - 1 \in 0 .. size - 1
      BY <1>2, <2>2
    <3>2. byte(size - 1) = before + 1 + (size - 1)
      BY <1>8, <3>1
    <3> QED BY <1>2, <1>3, <2>2, <3>2
  <2> QED BY <2>1, <2>2
<1>10. gap' => u.read_offset > 0 /\ gap
  <2>1. ~ \E k \in 0 .. size - 1 : byte(k) # prior + 1 + k
    BY <1>7, <1>8
  <2> QED BY <1>3, <2>1
<1>11. Follows(l.buffer, u.read_offset + size, end, before + size)
  <2>1. ASSUME NEW i \in Index, u.read_offset + size <= i, i < end
        PROVE  l.buffer[i] = before + size + 1 + (i - (u.read_offset + size))
    <3>1. l.buffer[i] = before + 1 + (i - u.read_offset)
      BY <1>1, <1>2, <2>1, LogAssumption DEF Follows, Index
    <3>2. i \in Int /\ u.read_offset \in Int /\ size \in Int
      BY <1>1, <1>2 DEF Index
    <3>3. i - u.read_offset = size + (i - (u.read_offset + size))
      BY <3>2
    <3>4. before + size + 1 + (i - (u.read_offset + size))
            = before + 1 + (i - u.read_offset)
      <4>1. i - (u.read_offset + size) \in Int
        BY <3>2
      <4> QED BY <3>2, <3>3, <4>1
    <3> QED BY <3>1, <3>4
  <2> QED BY <2>1 DEF Follows
<1>12. copied' = before + (upload'.read_offset - u.read_offset)
  BY <1>1, <1>2, <1>4, <1>9
<1> QED BY <1>4, <1>9, <1>10, <1>11, <1>12

(* One packet: a whole one leaves the block at a whole number of packets,  *)
(* and a short one is the end of a block that is less than a whole one.    *)
LEMMA ReplyShape ==
  ASSUME NEW l, NEW total \in Nat, NEW u, Inside(u), NEW n \in Lines,
         u.put % Packet = 0, u.put < Block, Reply(l, total, u, n)
  PROVE  /\ upload'.data = u.data /\ upload'.data_size = u.data_size
         /\ upload'.read_offset >= u.read_offset
         /\ upload'.active =>
              /\ upload'.put % Packet = 0 /\ upload'.read_offset > 0
              /\ log' = l /\ logged' = total
         /\ ~ upload'.active =>
              /\ u.data_size < Block
              /\ upload'.read_offset = u.data + u.data_size
<1> DEFINE size == Least(Packet, u.data_size - u.put)
<1>1. /\ u \in Uploads /\ u.data_size \in Nat /\ u.put \in Nat
      /\ u.put <= u.data_size /\ u.data_size <= Block
      /\ u.data \in Nat /\ u.read_offset \in Nat
      /\ u.read_offset = u.data + u.put
  BY LogAssumption DEF Inside, Uploads, Index
<1>2. Packet \in Nat /\ Packet > 0 /\ Block \in Nat /\ Block % Packet = 0
  BY LogAssumption
<1>3. u.put + Packet <= Block /\ (u.put + Packet) % Packet = 0
  BY <1>1, <1>2, WholePackets
<1>4. /\ upload' = [u EXCEPT !.read_offset = u.read_offset + size,
                             !.put = u.put + size,
                             !.active = size = Packet]
      /\ size = Packet => log' = l /\ logged' = total
  BY <1>1, <1>2 DEF Reply
<1>5. CASE size = Packet
  <2>1. upload' = [u EXCEPT !.read_offset = u.read_offset + Packet,
                            !.put = u.put + Packet,
                            !.active = TRUE]
    BY <1>4, <1>5
  <2>2. /\ upload'.data = u.data /\ upload'.data_size = u.data_size
        /\ upload'.active = TRUE
        /\ upload'.put = u.put + Packet
        /\ upload'.read_offset = u.read_offset + Packet
    BY <1>1, <2>1 DEF Uploads
  <2>3. upload'.read_offset > 0 /\ upload'.read_offset >= u.read_offset
    BY <1>1, <1>2, <2>2
  <2> QED BY <1>3, <1>4, <1>5, <2>2, <2>3
<1>6. CASE size # Packet
  <2>1. size = u.data_size - u.put /\ u.data_size - u.put < Packet
    BY <1>1, <1>2, <1>6 DEF Least
  <2>2. upload' = [u EXCEPT !.read_offset = u.read_offset + size,
                            !.put = u.put + size,
                            !.active = FALSE]
    BY <1>4, <1>6
  <2> HIDE DEF size
  <2>3. /\ upload'.data = u.data /\ upload'.data_size = u.data_size
        /\ upload'.active = FALSE
        /\ upload'.read_offset = u.read_offset + size
    BY <1>1, <2>2 DEF Uploads
  <2>4. /\ u.data_size < Block /\ u.read_offset + size = u.data + u.data_size
        /\ u.read_offset + size >= u.read_offset
    BY <1>1, <1>2, <1>3, <2>1
  <2> QED BY <2>3, <2>4
<1> QED BY <1>5, <1>6

LEMMA ReplyTyped ==
  ASSUME NEW l, Whole(l), NEW total \in Nat, NEW u, Inside(u), NEW n \in Lines,
         Reply(l, total, u, n), copied \in Int
  PROVE  copied' \in Int
<1> DEFINE size == Least(Packet, u.data_size - u.put)
           byte(k) == l.buffer[u.data + u.put + k]
<1>1. /\ u.data_size \in Nat /\ u.put \in Nat /\ u.put <= u.data_size
      /\ u.data \in Nat /\ u.data + u.data_size < SIZE
      /\ l.buffer \in [Index -> Int]
  BY LogAssumption DEF Inside, Uploads, Index, Whole, Log, Buffer
<1>2. size \in Nat /\ u.put + size <= u.data_size
  BY <1>1, LogAssumption DEF Least
<1>3. copied' = IF size = 0
                THEN IF u.read_offset = 0 THEN byte(0) - 1 ELSE copied
                ELSE byte(size - 1)
  BY DEF Reply
<1> HIDE DEF size
<1>4. ASSUME NEW k \in Nat, u.put + k <= u.data_size
      PROVE  byte(k) \in Int
  <2>1. u.data + u.put + k \in Nat /\ SIZE \in Int
    BY <1>1, LogAssumption
  <2>2. u.data + u.put + k < SIZE
    BY <1>1, <1>4, <2>1
  <2>3. u.data + u.put + k \in Index
    BY <2>1, <2>2 DEF Index
  <2> QED BY <1>1, <2>3
<1>5. byte(0) \in Int
  <2>1. u.put + 0 <= u.data_size /\ 0 \in Nat
    BY <1>1
  <2> QED BY <1>4, <2>1
<1>6. size # 0 => byte(size - 1) \in Int
  <2>1. size # 0 => size - 1 \in Nat /\ u.put + (size - 1) <= u.data_size
    BY <1>1, <1>2
  <2> QED BY <1>4, <2>1
<1> HIDE DEF byte
<1> QED BY <1>3, <1>5, <1>6

(* The text in front of write_offset follows the characters the buffer     *)
(* does not have any more.                                                 *)
LEMMA HeadFollows ==
  ASSUME NEW l, Whole(l), NEW total \in Nat, Good(l, total), NEW from \in Nat
  PROVE  Follows(l.buffer, from, l.write_offset,
                 total - l.write_offset + from)
<1>1. l.write_offset \in Index /\ Latest(l.buffer, l.write_offset, total)
  BY DEF Whole, Log, Good
<1>2. ASSUME NEW i \in Index, from <= i, i < l.write_offset
      PROVE  l.buffer[i] = total - l.write_offset + from + 1 + (i - from)
  <2>1. l.buffer[i] = total - l.write_offset + 1 + i
    BY <1>1, <1>2 DEF Latest
  <2>2. i \in Int /\ l.write_offset \in Int
    BY <1>1 DEF Index
  <2> QED BY <2>1, <2>2
<1> QED BY <1>2 DEF Follows

(* A string from an offset in that text ends where the text does.          *)
LEMMA HeadString ==
  ASSUME NEW l, Whole(l), NEW total \in Nat, total > 0, Good(l, total),
         NEW from \in Nat, from <= l.write_offset, NEW len \in Nat,
         from + len <= SIZE, IsString(l.buffer, from, len)
  PROVE  from + len = l.write_offset
<1> DEFINE b == l.buffer
           w == l.write_offset
<1>1. w \in Index /\ w \in Nat /\ w < SIZE
  BY LogAssumption DEF Whole, Log, Index
<1>2. /\ b[w] = Null /\ w <= total
      /\ \A i \in Index : i < w => b[i] = total - w + 1 + i
  BY DEF Good, Latest
<1>3. /\ \A k \in 0 .. len - 1 : b[from + k] # Null
      /\ from + len < SIZE => b[from + len] = Null
  BY DEF IsString
<1> HIDE DEF b, w
<1>4. ~ (w < from + len)
  <2>1. ASSUME w < from + len PROVE FALSE
    <3>1. w - from \in 0 .. len - 1 /\ from + (w - from) = w
      BY <1>1, <2>1 DEF w
    <3>2. b[from + (w - from)] # Null
      BY <1>3, <3>1
    <3> QED BY <1>2, <3>1, <3>2
  <2> QED BY <2>1
<1>5. ~ (from + len < w)
  <2>1. ASSUME from + len < w PROVE FALSE
    <3>1. from + len \in Index /\ from + len < SIZE
      BY <1>1, <2>1, LogAssumption DEF Index
    <3>2. b[from + len] = total - w + 1 + (from + len) /\ b[from + len] = Null
      BY <1>2, <1>3, <2>1, <3>1
    <3> QED BY <1>1, <1>2, <2>1, <3>2 DEF Null
  <2> QED BY <2>1
<1> QED BY <1>1, <1>4, <1>5 DEF w

LEMMA ReplyAhead ==
  ASSUME NEW l, Whole(l), NEW total \in Nat, Good(l, total),
         NEW u, Inside(u), u.put % Packet = 0, u.put < Block,
         NEW n \in Lines, Reply(l, total, u, n),
         IF u.read_offset = 0 THEN 0 < l.write_offset
         ELSE copied = total - l.write_offset + u.read_offset,
         due' \in Int, due' <= total,
         u.data + u.data_size <= due' - (total - l.write_offset),
         u.data_size < Block =>
           u.data + u.data_size = due' - (total - l.write_offset)
  PROVE  /\ gap' => u.read_offset > 0 /\ gap
         /\ upload'.active => Ahead'
         /\ ~ upload'.active => copied' = due'
<1> DEFINE w == l.write_offset
           base == total - w
           before == base + u.read_offset
<1>1. /\ u.data_size \in Nat /\ u.data \in Nat /\ u.read_offset \in Nat
  BY LogAssumption DEF Inside, Uploads, Index
<1>2. w \in Index /\ w \in Nat
  BY LogAssumption DEF Whole, Log, Index
<1>3. before \in Int /\ base \in Int
  BY <1>1, <1>2
<1>4. Follows(l.buffer, u.read_offset, w, before)
  BY <1>1, HeadFollows
<1>5. u.data + u.data_size <= w
  BY <1>1, <1>2
<1>6. IF u.read_offset = 0 THEN 0 < w ELSE copied = before
  OBVIOUS
<1>7. /\ copied' = before + (upload'.read_offset - u.read_offset)
      /\ gap' => u.read_offset > 0 /\ gap
  <2> HIDE DEF before, w
  <2> QED BY <1>2, <1>3, <1>4, <1>5, <1>6, ReplySends
<1>8. /\ upload'.data = u.data /\ upload'.data_size = u.data_size
      /\ upload'.active => log' = l /\ logged' = total
      /\ ~ upload'.active => /\ u.data_size < Block
                             /\ upload'.read_offset = u.data + u.data_size
      /\ upload'.read_offset >= u.read_offset
  BY ReplyShape
<1>9. Inside(upload')
  BY ReplyInside
<1>10. upload'.read_offset \in Nat
  BY <1>9, LogAssumption DEF Inside, Uploads, Index
<1>11. copied' = base + upload'.read_offset
  BY <1>1, <1>3, <1>7, <1>10
<1>12. ASSUME upload'.active PROVE Ahead'
  <2>1. Base' = base
    BY <1>8, <1>12 DEF Base
  <2>2. logged' = total
    BY <1>8, <1>12
  <2> HIDE DEF base
  <2>3. /\ copied' = Base' + upload'.read_offset
        /\ due' <= logged'
    BY <1>11, <2>1, <2>2
  <2>4. /\ upload'.data + upload'.data_size <= due' - Base'
        /\ upload'.data_size < Block =>
             upload'.data + upload'.data_size = due' - Base'
    BY <1>8, <2>1 DEF base, w
  <2> QED BY <2>3, <2>4 DEF Ahead
<1>13. ASSUME ~ upload'.active PROVE copied' = due'
  <2>1. upload'.read_offset = due' - base
    BY <1>8, <1>13
  <2> QED BY <1>3, <1>11, <2>1
<1> QED BY <1>7, <1>12, <1>13

LEMMA ReplyBehind ==
  ASSUME NEW l, Whole(l), NEW total \in Nat,
         NEW u, Inside(u), u.put % Packet = 0, u.put < Block,
         NEW n \in Lines, Reply(l, total, u, n), copied \in Int,
         l.write_offset < u.read_offset,
         Follows(l.buffer, u.read_offset, SIZE - 1, copied)
  PROVE  /\ gap' => gap
         /\ upload'.active => Behind'
<1>1. /\ u.data_size \in Nat /\ u.data \in Nat /\ u.read_offset \in Nat
      /\ u.data + u.data_size <= SIZE - 1
      /\ l.write_offset \in Nat /\ SIZE - 1 \in Index
  BY LogAssumption DEF Inside, Uploads, Index, Whole, Log
<1>2. IF u.read_offset = 0 THEN 0 < SIZE - 1 ELSE copied = copied
  BY <1>1
<1>3. /\ gap' => u.read_offset > 0 /\ gap
      /\ Follows(l.buffer, upload'.read_offset, SIZE - 1, copied')
  BY <1>1, <1>2, ReplySends
<1>4. /\ upload'.read_offset >= u.read_offset
      /\ upload'.active => log' = l
  BY ReplyShape
<1>5. upload'.read_offset \in Nat
  <2>1. Inside(upload')
    BY ReplyInside
  <2> QED BY <2>1, LogAssumption DEF Inside, Uploads, Index
<1>6. l.write_offset < upload'.read_offset
  BY <1>1, <1>4, <1>5
<1> QED BY <1>3, <1>4, <1>6 DEF Behind

-----------------------------------------------------------------------------
(* What each step does to an upload.                                       *)

(* A block or a packet of an upload that had begun.                        *)
LEMMA ReplyUpload ==
  ASSUME LogInv, UploadInv, upload.active, NEW u, Inside(u),
         u.read_offset = upload.read_offset, u.put % Packet = 0, u.put < Block,
         NEW n \in Lines, Reply(log, logged, u, n),
         due' \in Int, UNCHANGED <<wrapped, passed>>,
         torn = 0 /\ ~ wrapped =>
           /\ due' <= logged
           /\ u.data + u.data_size <= due' - Base
           /\ u.data_size < Block => u.data + u.data_size = due' - Base
  PROVE  UploadInv'
<1>1. /\ Whole(log) /\ logged \in Nat /\ copied \in Int
      /\ torn = 0 => Good(log, logged)
  BY DEF LogInv, Kept, UploadInv
<1>2. copied' \in Int /\ torn' = torn
  <2>1. copied' \in Int
    BY <1>1, ReplyTyped
  <2>2. torn' = torn
    BY DEF Reply
  <2> QED BY <2>1, <2>2
<1>3. upload'.active =>
        /\ upload'.put % Packet = 0 /\ upload'.read_offset > 0
        /\ log' = log /\ logged' = logged
  BY <1>1, ReplyShape
<1>4. ASSUME torn = 0
      PROVE  /\ gap' => passed'
             /\ passed' => wrapped'
             /\ ~ upload'.active /\ ~ wrapped' => copied' = due'
             /\ upload'.active => /\ upload'.read_offset > 0 /\ logged' > 0
                                  /\ ~ wrapped' => Ahead'
                                  /\ wrapped' /\ ~ passed' => Behind'
  <2>1. /\ gap => passed
        /\ passed => wrapped
        /\ upload.read_offset > 0 /\ logged > 0
        /\ ~ wrapped => Ahead
        /\ wrapped /\ ~ passed => Behind
    BY <1>4 DEF UploadInv
  <2>2. wrapped' = wrapped /\ passed' = passed
    OBVIOUS
  <2>3. ASSUME ~ wrapped
        PROVE  /\ gap' => gap
               /\ upload'.active => Ahead'
               /\ ~ upload'.active => copied' = due'
    <3>1. IF u.read_offset = 0 THEN 0 < log.write_offset
          ELSE copied = logged - log.write_offset + u.read_offset
      BY <2>1, <2>3 DEF Ahead, Base
    <3>2. /\ due' <= logged
          /\ u.data + u.data_size <= due' - (logged - log.write_offset)
          /\ u.data_size < Block =>
               u.data + u.data_size = due' - (logged - log.write_offset)
      BY <1>4, <2>3 DEF Base
    <3> QED BY <1>1, <1>4, <3>1, <3>2, ReplyAhead
  <2>4. ASSUME wrapped, ~ passed
        PROVE  /\ gap' => gap
               /\ upload'.active => Behind'
    <3>1. /\ log.write_offset < u.read_offset
          /\ Follows(log.buffer, u.read_offset, SIZE - 1, copied)
      BY <2>1, <2>4 DEF Behind
    <3> QED BY <1>1, <3>1, ReplyBehind
  <2>5. upload'.active => upload'.read_offset > 0 /\ logged' > 0
    BY <1>3, <2>1
  <2>6. gap' => passed'
    BY <2>1, <2>2, <2>3, <2>4
  <2>7. ~ upload'.active /\ ~ wrapped' => copied' = due'
    BY <2>2, <2>3
  <2>8. upload'.active => (~ wrapped' => Ahead')
    BY <2>2, <2>3
  <2>9. upload'.active => (wrapped' /\ ~ passed' => Behind')
    BY <2>2, <2>4
  <2> QED BY <2>1, <2>2, <2>5, <2>6, <2>7, <2>8, <2>9
<1> QED BY <1>2, <1>3, <1>4 DEF UploadInv

LEMMA BlockUpload ==
  ASSUME LogInv, UploadInv, NEW n \in Lines, UploadBlock(n)
  PROVE  UploadInv'
<1>1. PICK len \in 0 .. SIZE - upload.read_offset :
        /\ IsString(log.buffer, upload.read_offset, len)
        /\ Reply(log, logged, NextBlock(upload, len), n)
  BY DEF UploadBlock
<1> DEFINE u == NextBlock(upload, len)
           size == Least(Block, len)
<1>2. /\ Whole(log) /\ logged \in Nat /\ Inside(upload)
      /\ torn = 0 => Good(log, logged)
  BY DEF LogInv, Kept
<1>3. /\ upload \in Uploads /\ upload.read_offset \in Nat
      /\ upload.read_offset < SIZE
  BY <1>2, LogAssumption DEF Inside, Uploads, Index
<1>4. Inside(u)
  BY <1>1, <1>2, BlockInside
<1>5. /\ u.data = upload.read_offset /\ u.data_size = size /\ u.put = 0
      /\ u.read_offset = upload.read_offset
  <2>1. u = [upload EXCEPT !.data = upload.read_offset,
                           !.data_size = size, !.put = 0]
    BY DEF NextBlock
  <2> HIDE DEF u, size
  <2> QED BY <1>3, <2>1 DEF Uploads
<1>6. u.put % Packet = 0 /\ u.put < Block
  BY <1>5, LogAssumption
<1>7. len \in Nat /\ upload.read_offset + len <= SIZE
  BY <1>3, LogAssumption
<1>8. ASSUME torn = 0, ~ wrapped
      PROVE  /\ due' <= logged
             /\ u.data + u.data_size <= due' - Base
             /\ u.data_size < Block => u.data + u.data_size = due' - Base
  <2>1. Ahead /\ logged > 0
    BY <1>8 DEF UploadBlock, UploadInv
  <2>2. log.write_offset \in Nat
    BY <1>2, LogAssumption DEF Whole, Log, Index
  <2>3. upload.read_offset <= log.write_offset
    <3>1. upload.data + upload.data_size <= due - Base /\ due <= logged
      BY <2>1 DEF Ahead
    <3>2. /\ upload.data \in Nat /\ upload.data_size \in Nat
          /\ upload.put \in Nat
          /\ upload.put <= upload.data_size
          /\ upload.read_offset = upload.data + upload.put
      BY <1>2, LogAssumption DEF Inside, Uploads, Index
    <3>3. due \in Int
      BY DEF UploadInv
    <3> QED BY <1>2, <2>2, <3>1, <3>2, <3>3 DEF Base
  <2>4. upload.read_offset + len = log.write_offset
    BY <1>1, <1>2, <1>3, <1>7, <1>8, <2>1, <2>3, HeadString
  <2>5. due' = logged
    BY DEF UploadBlock
  <2>6. due' - Base = log.write_offset
    BY <1>2, <2>2, <2>5 DEF Base
  <2>7. size <= len /\ (size < Block => size = len)
    BY <1>7, LogAssumption DEF Least
  <2>8. size \in Int
    BY <1>7, LogAssumption DEF Least
  <2>9. due' <= logged
    BY <1>2, <2>5
  <2> HIDE DEF size, u
  <2>10. u.data + u.data_size <= log.write_offset
    BY <1>3, <1>5, <1>7, <2>4, <2>7, <2>8
  <2>11. u.data_size < Block => u.data + u.data_size = log.write_offset
    BY <1>3, <1>5, <1>7, <2>4, <2>7, <2>8
  <2> QED BY <2>6, <2>9, <2>10, <2>11
<1>9. /\ Reply(log, logged, u, n) /\ upload.active
      /\ due' \in Int /\ UNCHANGED <<wrapped, passed>>
  BY <1>1, <1>2 DEF UploadBlock
<1> HIDE DEF u
<1> QED BY <1>4, <1>5, <1>6, <1>8, <1>9, ReplyUpload

LEMMA PacketUpload ==
  ASSUME LogInv, UploadInv, NEW n \in Lines, UploadPacket(n)
  PROVE  UploadInv'
<1>1. Inside(upload)
  BY DEF LogInv
<1>2. /\ upload.active /\ upload.put < Block /\ Reply(log, logged, upload, n)
      /\ due' = due /\ UNCHANGED <<wrapped, passed>>
  BY DEF UploadPacket
<1>3. upload.put % Packet = 0 /\ due' \in Int
  BY <1>2 DEF UploadInv
<1>4. torn = 0 /\ ~ wrapped =>
        /\ due' <= logged
        /\ upload.data + upload.data_size <= due' - Base
        /\ upload.data_size < Block =>
             upload.data + upload.data_size = due' - Base
  BY <1>2 DEF UploadInv, Ahead
<1> QED BY <1>1, <1>2, <1>3, <1>4, ReplyUpload

(* A line is at least a character, before and after a read.                *)
LEMMA LineAhead ==
  ASSUME NEW l, Whole(l), NEW n \in Lines, NEW total \in Nat
  PROVE  0 < backup_ram_read(backup_ram_write(l, n, total)).write_offset
<1> DEFINE w == backup_ram_write(l, n, total)
<1>1. n \in Nat /\ 0 < n
  BY LogAssumption DEF Lines
<1>2. l \in Log /\ l.write_offset \in Nat
  BY LogAssumption DEF Whole, Log, Index
<1>3. w.write_offset = IF Fits(l, n) THEN l.write_offset + n ELSE n
  BY <1>2 DEF backup_ram_write, Log
<1>4. Whole(w)
  BY WriteWhole
<1> HIDE DEF w
<1>5. w.write_offset \in Nat /\ w.size_limited \in Nat /\ 0 < w.write_offset
  BY <1>1, <1>2, <1>3, <1>4, LogAssumption DEF Whole, Log, Index
<1>6. 0 < backup_ram_read(w).write_offset
  <2>1. CASE Overlaid(w)
    <3>1. backup_ram_read(w).write_offset = w.size_limited - 1
      BY <2>1 DEF backup_ram_read
    <3> QED BY <1>5, <2>1, <3>1 DEF Overlaid
  <2>2. CASE ~ Overlaid(w)
    BY <1>5, <2>2 DEF backup_ram_read
  <2> QED BY <2>1, <2>2
<1> QED BY <1>6 DEF w

LEMMA StartUpload ==
  ASSUME LogInv, UploadInv, NEW m \in Lines, NEW n \in Lines,
         UploadStart(m, n)
  PROVE  UploadInv'
<1> DEFINE total == logged + m
           w == backup_ram_write(log, m, logged)
           l == backup_ram_read(w)
           begun == [NoUpload EXCEPT !.active = TRUE]
<1>1. PICK len \in 0 .. SIZE :
        /\ IsString(l.buffer, 0, len)
        /\ Reply(l, total, NextBlock(begun, len), n)
  BY DEF UploadStart
<1> DEFINE u == NextBlock(begun, len)
           size == Least(Block, len)
<1>2. total \in Nat /\ total > 0 /\ len \in Nat /\ 0 + len <= SIZE
  BY LogAssumption DEF LogInv, Kept, Lines
<1>3. /\ Kept(log, logged, torn)
      /\ copied \in Int
      /\ due' = total /\ wrapped' = FALSE /\ passed' = FALSE
  BY DEF LogInv, UploadInv, UploadStart
<1>4. Kept(w, total, torn)
  BY <1>2, <1>3, WriteWhole, WriteGood DEF Kept
<1>5. 0 < l.write_offset
  BY <1>3, LineAhead DEF Kept
<1> HIDE DEF w
<1>6. Kept(l, total, torn)
  BY <1>2, <1>4, ReadWhole, ReadGood DEF Kept
<1> HIDE DEF l
<1>7. /\ begun \in Uploads
      /\ begun.read_offset = 0 /\ begun.data = 0
      /\ begun.data_size = 0 /\ begun.put = 0
  <2>1. NoUpload \in Uploads
    BY Outside DEF Inside
  <2>2. /\ begun \in Uploads
        /\ begun.read_offset = NoUpload.read_offset
        /\ begun.data = NoUpload.data
        /\ begun.data_size = NoUpload.data_size
        /\ begun.put = NoUpload.put
    BY <2>1 DEF Uploads
  <2>3. /\ NoUpload.read_offset = 0 /\ NoUpload.data = 0
        /\ NoUpload.data_size = 0 /\ NoUpload.put = 0
    BY DEF NoUpload
  <2> HIDE DEF begun
  <2> QED BY <2>2, <2>3
<1>8. Inside(begun) /\ begun.read_offset = 0
  <2>1. 0 + 0 < SIZE /\ 0 <= 0 /\ 0 = 0 + 0
    BY LogAssumption
  <2> HIDE DEF begun
  <2> QED BY <1>7, <2>1 DEF Inside
<1>9. u.data = 0 /\ u.data_size = size /\ u.put = 0 /\ u.read_offset = 0
  <2>1. u = [begun EXCEPT !.data = begun.read_offset,
                          !.data_size = size, !.put = 0]
    BY DEF NextBlock
  <2> HIDE DEF begun, u, size
  <2> QED BY <1>7, <2>1 DEF Uploads
<1>10. Inside(u)
  <2>1. SIZE - begun.read_offset = SIZE
    BY <1>8, LogAssumption
  <2>2. IsString(l.buffer, begun.read_offset, len)
    BY <1>1, <1>8
  <2> HIDE DEF begun
  <2> QED BY <1>6, <1>8, <2>1, <2>2, BlockInside DEF Kept
<1>11. Reply(l, total, u, n)
  BY <1>1
<1> HIDE DEF begun, u
<1>12. u.put % Packet = 0 /\ u.put < Block /\ u.read_offset = 0
  BY <1>9, LogAssumption
<1>13. copied' \in Int /\ torn' = torn
  <2>1. copied' \in Int
    BY <1>2, <1>3, <1>6, <1>10, <1>11, ReplyTyped DEF Kept
  <2>2. torn' = torn
    BY <1>11 DEF Reply
  <2> QED BY <2>1, <2>2
<1> HIDE DEF total
<1>14. upload'.active =>
         /\ upload'.put % Packet = 0 /\ upload'.read_offset > 0
         /\ log' = l /\ logged' = total
  BY <1>2, <1>10, <1>11, <1>12, ReplyShape
<1>15. ASSUME torn = 0
       PROVE  /\ ~ gap'
              /\ upload'.active => Ahead'
              /\ ~ upload'.active => copied' = due'
  <2>1. Good(l, total) /\ Whole(l)
    BY <1>6, <1>15 DEF Kept
  <2>2. l.write_offset \in Nat
    BY <2>1, LogAssumption DEF Whole, Log, Index
  <2>3. 0 + len = l.write_offset
    BY <1>1, <1>2, <2>1, <2>2, HeadString
  <2>4. size <= len /\ (size < Block => size = len) /\ size \in Int
    BY <1>2, LogAssumption DEF Least
  <2>5. u.data = 0 /\ u.data_size = size
    BY <1>9
  <2> HIDE DEF size
  <2>6. due' - (total - l.write_offset) = l.write_offset /\ due' \in Int
        /\ due' <= total
    BY <1>2, <1>3, <2>2
  <2>7. /\ u.data + u.data_size <= due' - (total - l.write_offset)
        /\ u.data_size < Block =>
             u.data + u.data_size = due' - (total - l.write_offset)
    BY <1>2, <2>2, <2>3, <2>4, <2>5, <2>6
  <2>8. IF u.read_offset = 0 THEN 0 < l.write_offset
        ELSE copied = total - l.write_offset + u.read_offset
    BY <1>5, <1>12
  <2>9. /\ gap' => u.read_offset > 0 /\ gap
        /\ upload'.active => Ahead'
        /\ ~ upload'.active => copied' = due'
    BY <1>2, <1>10, <1>11, <1>12, <2>1, <2>6, <2>7, <2>8, ReplyAhead
  <2> QED BY <1>12, <2>9
<1>16. upload'.active => logged' > 0
  BY <1>2, <1>14
<1>17. due' \in Int
  BY <1>2, <1>3
<1> QED BY <1>3, <1>13, <1>14, <1>15, <1>16, <1>17 DEF UploadInv

(* A line behind the text of an upload, which it does not disturb, or into *)
(* a new lap: up to write_offset the text is the previous lap.             *)
LEMMA WriteUpload ==
  ASSUME LogInv, UploadInv, NEW n \in Lines, Write(n)
  PROVE  UploadInv'
<1> DEFINE b == log.buffer
           w == log.write_offset
           r == upload.read_offset
           first == vsnprintf_nl(b, w, n, logged)
           both == vsnprintf_nl(first, 0, n, logged)
<1>1. /\ log = [buffer |-> b, write_offset |-> w,
                size_limited |-> log.size_limited]
      /\ b \in Buffer /\ w \in Index /\ w \in Nat /\ w < SIZE
      /\ logged \in Nat /\ torn \in Nat
      /\ torn = 0 => Good(log, logged)
      /\ r \in Nat /\ r < SIZE
  BY LogAssumption DEF LogInv, Kept, Whole, Log, Index, Inside, Uploads
<1>2. n \in Nat /\ 1 <= n /\ n < SIZE
  BY LogAssumption DEF Lines
<1>3. /\ log' = backup_ram_write(log, n, logged)
      /\ logged' = logged + n
      /\ upload' = upload /\ torn' = torn /\ copied' = copied
      /\ due' = due /\ gap' = gap
  BY DEF Write
<1>4. /\ wrapped' <=> wrapped \/ (upload.active /\ ~ Fits(log, n))
      /\ passed' <=> \/ passed
                     \/ wrapped /\ ~ Fits(log, n)
                     \/ wrapped' /\ log'.write_offset >= r
  BY DEF Write
<1>5. /\ copied' \in Int /\ due' \in Int
      /\ upload'.active => upload'.put % Packet = 0
  BY <1>3 DEF UploadInv
<1>6. ASSUME torn = 0
      PROVE  /\ gap => passed
             /\ passed => wrapped
             /\ ~ upload.active /\ ~ wrapped => copied = due
             /\ upload.active => /\ r > 0 /\ logged > 0
                                 /\ ~ wrapped => Ahead
                                 /\ wrapped /\ ~ passed => Behind
  BY <1>6 DEF UploadInv
<1>7. Fits(log, n) =>
        log' = [buffer |-> first, write_offset |-> w + n,
                size_limited |-> log.size_limited]
  BY <1>1, <1>3 DEF backup_ram_write
<1>8. ~ Fits(log, n) =>
        log' = [buffer |-> both, write_offset |-> n, size_limited |-> w]
  BY <1>3 DEF backup_ram_write
<1>9. \A i \in Index :
        first[i] = IF i < w \/ i > w + n THEN b[i]
                   ELSE IF i = w + n \/ i = SIZE - 1 THEN Null
                   ELSE logged + 1 + (i - w)
  BY DEF first, vsnprintf_nl
<1> HIDE DEF first
<1>10. \A i \in Index : i > n => both[i] = first[i]
  BY <1>2 DEF both, vsnprintf_nl, Index
<1> HIDE DEF both
<1>11. ASSUME torn = 0, upload.active, ~ wrapped'
       PROVE  Ahead'
  <2>1. Fits(log, n) /\ Ahead
    BY <1>4, <1>6, <1>11
  <2>2. log'.write_offset = w + n
    BY <1>7, <2>1
  <2>3. Base' = Base
    BY <1>1, <1>2, <1>3, <2>2 DEF Base
  <2>4. due \in Int /\ due <= logged
    BY <2>1 DEF UploadInv, Ahead
  <2>5. due' <= logged'
    BY <1>1, <1>2, <1>3, <2>4
  <2> QED BY <1>3, <2>1, <2>3, <2>5 DEF Ahead
<1>12. ASSUME torn = 0, upload.active, wrapped', ~ passed'
       PROVE  Behind'
  <2>1. log'.write_offset < r
    <3>1. ~ (log'.write_offset >= r)
      BY <1>4, <1>12
    <3>2. log'.write_offset \in Int
      BY <1>1, <1>2, <1>7, <1>8
    <3> QED BY <1>1, <3>1, <3>2
  <2>2. copied \in Int
    BY DEF UploadInv
  <2>3. CASE wrapped
    <3>1. Fits(log, n) /\ ~ passed /\ Behind
      BY <1>4, <1>6, <1>12, <2>3
    <3>2. log'.buffer = first /\ w + n < r
      BY <1>7, <2>1, <3>1
    <3>3. ASSUME NEW i \in Index, r <= i, i < SIZE - 1
          PROVE  first[i] = copied + 1 + (i - r)
      <4>1. i > w + n /\ i \in Nat
        BY <1>1, <1>2, <3>2, <3>3, LogAssumption DEF Index
      <4>2. first[i] = b[i]
        BY <1>9, <4>1
      <4>3. b[i] = copied + 1 + (i - r)
        BY <3>1, <3>3 DEF Behind, Follows
      <4> QED BY <4>2, <4>3
    <3> QED BY <1>3, <2>1, <3>2, <3>3 DEF Behind, Follows
  <2>4. CASE ~ wrapped
    <3>1. ~ Fits(log, n) /\ Ahead
      BY <1>4, <1>6, <1>12, <2>4
    <3>2. log'.buffer = both /\ n < r /\ w + n >= SIZE
      BY <1>1, <1>2, <1>8, <2>1, <3>1, LogAssumption DEF Fits
    <3>3. copied = logged - w + r
      BY <3>1 DEF Ahead, Base
    <3>4. \A i \in Index : i < w => b[i] = logged - w + 1 + i
      BY <1>1, <1>12 DEF Good, Latest
    <3>5. ASSUME NEW i \in Index, r <= i, i < SIZE - 1
          PROVE  both[i] = copied + 1 + (i - r)
      <4>1. i > n /\ i \in Nat
        BY <1>1, <1>2, <3>2, <3>5, LogAssumption DEF Index
      <4>2. both[i] = first[i]
        BY <1>10, <4>1
      <4>3. CASE i < w
        <5>1. first[i] = logged - w + 1 + i
          BY <1>9, <3>4, <4>3
        <5> QED BY <1>1, <3>3, <4>1, <4>2, <5>1
      <4>4. CASE ~ (i < w)
        <5>1. ~ (i > w + n) /\ i # w + n /\ i # SIZE - 1
          BY <1>1, <1>2, <3>2, <3>5, <4>1, LogAssumption
        <5>2. first[i] = logged + 1 + (i - w)
          BY <1>9, <4>4, <5>1
        <5> QED BY <1>1, <3>3, <4>1, <4>2, <5>2
      <4> QED BY <4>3, <4>4
    <3> QED BY <1>3, <2>1, <3>2, <3>5 DEF Behind, Follows
  <2> QED BY <2>3, <2>4
<1>13. ASSUME torn = 0
       PROVE  /\ gap' => passed'
              /\ passed' => wrapped'
              /\ ~ upload'.active /\ ~ wrapped' => copied' = due'
              /\ upload'.active => /\ upload'.read_offset > 0 /\ logged' > 0
                                   /\ ~ wrapped' => Ahead'
                                   /\ wrapped' /\ ~ passed' => Behind'
  <2>1. gap' => passed'
    BY <1>3, <1>4, <1>6, <1>13
  <2>2. passed' => wrapped'
    BY <1>4, <1>6, <1>13
  <2>3. ~ upload'.active /\ ~ wrapped' => copied' = due'
    BY <1>3, <1>4, <1>6, <1>13
  <2>4. upload'.active => upload'.read_offset > 0 /\ logged' > 0
    BY <1>1, <1>2, <1>3, <1>6, <1>13
  <2> QED BY <1>3, <1>11, <1>12, <1>13, <2>1, <2>2, <2>3, <2>4
<1> QED BY <1>3, <1>5, <1>13 DEF UploadInv

LEMMA UploadNext == LogInv /\ UploadInv /\ [LogNext]_logVars => UploadInv'
<1> SUFFICES ASSUME LogInv, UploadInv, [LogNext]_logVars
             PROVE  UploadInv'
  OBVIOUS
<1>1. NoUpload.active = FALSE
  BY DEF NoUpload
<1>2. ASSUME /\ upload' = NoUpload /\ copied' = 0 /\ due' = 0
             /\ wrapped' = FALSE /\ passed' = FALSE /\ gap' = FALSE
      PROVE  UploadInv'
  BY <1>1, <1>2 DEF UploadInv
<1>3. CASE UploadAbort
  BY <1>2, <1>3 DEF UploadAbort
<1>4. CASE PowerOn
  BY <1>2, <1>4 DEF PowerOn, Rebooted
<1>5. ASSUME NEW n \in Lines, ResetInWrite(n)
      PROVE  UploadInv'
  BY <1>2, <1>5 DEF ResetInWrite, Rebooted
<1>6. ASSUME NEW k \in 0 .. SIZE, ResetInRead(k)
      PROVE  UploadInv'
  BY <1>2, <1>6 DEF ResetInRead, Rebooted
<1>7. CASE UNCHANGED logVars
  BY <1>7 DEF logVars, history, UploadInv, Ahead, Behind, Base
<1> QED BY <1>3, <1>4, <1>5, <1>6, <1>7, WriteUpload, BlockUpload,
           PacketUpload, StartUpload DEF LogNext

(* While lines are logged between its packets, an upload sends the log in  *)
(* order and without a gap up to what was there when its last block began, *)
(* unless the buffer starts anew under it and, for the order, new text     *)
(* gets to where it reads.                                                 *)
THEOREM UploadsTheLog == LogSpec => []UploadsInOrder
<1>1. LogInit => UploadInv
  BY DEF LogInit, UploadInv, NoUpload
<1>2. UploadInv => UploadsInOrder
  BY DEF UploadInv, UploadsInOrder
<1> QED BY <1>1, <1>2, UploadNext, InvHolds, PTL DEF LogSpec

-----------------------------------------------------------------------------
(* Downloads: what Dfu.tla promises about flash and keyboard, for any      *)
(* number of downloads, keys and faults.                                   *)

(* What an image is told by.                                               *)
Verdict == IF image = "bytecode" THEN 1 ELSE 0

Typed ==
  /\ dfuState \in DfuStates
  /\ skip \in {-1, 0, 1}
  /\ image \in Images
  /\ session \in {"none", "first", "more", "done"}
  /\ bank \in Banks
  /\ mode \in {"normal", "dfu"}
  /\ at \in {"begin", "loop", "end"}
  /\ {dataDue, detach, toggle, enabled, cleared} \subseteq BOOLEAN

(* Where the bytecode is not intact, main_thread is in DFU mode, or it is  *)
(* about to look at the bytecode again.                                    *)
BytecodeKept == bank \notin Intact => mode = "dfu" \/ at = "begin"

(* So it is past block 0, and there the bytecode is never as it was: if a  *)
(* toggle of the last moment sends main_thread back to normal mode, it     *)
(* finds that out.                                                         *)
Parked ==
  /\ dfuState \in {"DL_SYNC", "DL_IDLE"} =>
       bank # "bytecode" /\ (mode = "dfu" \/ at = "begin")
  /\ dfuState = "DL_BUSY" /\ ~ dataDue => bank # "bytecode"

(* Where a data stage can be due.                                          *)
Due ==
  dataDue => \/ dfuState = "DL_BUSY" /\ session = "first"
             \/ dfuState = "DL_SYNC" /\ session = "more"

(* skip_signature is decided by the first data stage, and rightly.         *)
Decided ==
  /\ skip # -1 => skip = Verdict
  /\ dfuState = "DL_BUSY" /\ ~ dataDue => skip # -1
  /\ dfuState \in {"DL_SYNC", "DL_IDLE"} => skip # -1

(* After a download the bank holds what was downloaded.                    *)
Done == session = "done" => bank = image /\ skip = Verdict /\ ~ dataDue

Detaching == detach => session = "done"

DfuInv ==
  /\ Typed /\ BytecodeKept /\ Parked /\ Due /\ Decided /\ Done /\ Detaching

invVars == <<dfuState, skip, dataDue, detach, image, session, bank, mode, at,
             toggle, enabled, cleared>>

USE DEF Images, Intact, Signed, Banks, DfuStates, BootMode

LEMMA DfuInitInv == Init => DfuInv
BY DEF Init, DfuInv, Typed, BytecodeKept, Parked, Due, Decided, Done, Detaching

(* A boot, with the other bank as the reset left it.                       *)
LEMMA RebootInv ==
  ASSUME DfuInv, NEW found \in Banks, NEW forced \in BOOLEAN,
         Reboot(found, forced)
  PROVE  DfuInv'
BY DEF Reboot, DfuInv, Typed, BytecodeKept, Parked, Due, Decided, Done,
   Detaching, Verdict


(* Neither verdict is the undetermined one.                                *)
LEMMA BitIsNotUndetermined == \A x \in {0, 1} : x # -1
OBVIOUS

(* The invariant is about invVars only.                                    *)
LEMMA Untouched ==
  ASSUME DfuInv, UNCHANGED invVars
  PROVE  DfuInv'
<1>1. /\ dfuState' = dfuState /\ skip' = skip /\ dataDue' = dataDue
      /\ detach' = detach /\ image' = image /\ session' = session
      /\ bank' = bank /\ mode' = mode /\ at' = at /\ toggle' = toggle
      /\ enabled' = enabled /\ cleared' = cleared
  BY DEF invVars
<1>2. BytecodeKept' /\ Parked'
  BY <1>1 DEF DfuInv, BytecodeKept, Parked
<1>3. Due'
  BY <1>1, Zenon DEF DfuInv, Due
<1>4. Decided'
  BY <1>1, Zenon DEF DfuInv, Decided, Verdict
<1>5. Done' /\ Detaching'
  BY <1>1, Zenon DEF DfuInv, Done, Detaching, Verdict
<1>6. Typed'
  BY <1>1, Zenon DEF DfuInv, Typed
<1> QED
  BY <1>2, <1>3, <1>4, <1>5, <1>6 DEF DfuInv

(* Each request keeps the invariant.                                       *)
LEMMA HostInv ==
  ASSUME DfuInv, Host
  PROVE  DfuInv'
<1> USE DEF DfuInv, Typed, BytecodeKept, Parked, Due, Decided, Done, Detaching,
            Verdict, Request, mainVars, modeVars
<1>1. CASE \E img \in Images : DnloadFirst(img)
  <2>1. PICK img \in Images : DnloadFirst(img)
    BY <1>1
  <2>3. /\ dfuState' = "DL_BUSY" /\ session' = "first" /\ dataDue'
        /\ skip' = -1 /\ image' = img /\ toggle' \in BOOLEAN
        /\ enabled' = FALSE /\ cleared' = FALSE
        /\ UNCHANGED <<bank, mode, at, detach>>
        /\ ~ detach
    BY <2>1 DEF DnloadFirst, ToggleToDfu, SignalToggle, NoVerdict
  <2> QED
    BY <2>3
<1>2. CASE DnloadNext
  BY <1>2 DEF DnloadNext, matrixVars
<1>3. CASE DnloadEnd
  <2>1. skip = Verdict /\ (mode = "dfu" \/ at = "begin") /\ ~ dataDue
    BY <1>3 DEF DnloadEnd
  <2>3. toggle' \in BOOLEAN
    BY <1>3 DEF DnloadEnd, SignalToggle
  <2>4. /\ dfuState' = "MANIFEST_SYNC" /\ session' = "done" /\ bank' = image
        /\ UNCHANGED <<skip, dataDue, detach, image, mode, at, enabled,
                       cleared>>
        /\ dfuState = "DL_IDLE"
    BY <1>3 DEF DnloadEnd, matrixVars
  <2>5. BytecodeKept'
    BY <2>1, <2>4
  <2>6. Done' /\ Decided' /\ Due' /\ Parked' /\ Detaching'
    BY <2>1, <2>4
  <2>7. Typed'
    BY <2>3, <2>4
  <2> QED
    BY <2>5, <2>6, <2>7
<1>4. CASE BlockDone
  BY <1>4 DEF BlockDone, MayGoOn, hostVars, matrixVars
<1>5. CASE Manifested
  BY <1>5 DEF Manifested, Enable, hostVars
<1>6. CASE ClrStatus
  BY <1>6 DEF ClrStatus, matrixVars
<1>7. CASE Abort
  BY <1>7 DEF Abort, Enable
<1>8. CASE Upload
  <2>1. /\ dfuState' \in {"UP_IDLE", "IDLE"}
        /\ dfuState \in {"UP_IDLE", "IDLE"}
        /\ UNCHANGED <<skip, dataDue, detach, image, session, bank, mode, at,
                       toggle, enabled, cleared>>
    BY <1>8 DEF Upload, hostVars, matrixVars
  <2>2. dfuState' \notin {"DL_SYNC", "DL_IDLE", "DL_BUSY"} /\ ~ dataDue
    BY <2>1
  <2>3. Typed'
    BY <2>1
  <2>4. BytecodeKept' /\ Parked'
    BY <2>1, <2>2
  <2>5. Due' /\ Detaching'
    BY <2>1, <2>2
  <2>6. Done'
    BY <2>1, Zenon
  <2>7. skip' # -1 => skip' = Verdict'
    BY <2>1, Zenon
  <2>8. Decided'
    BY <2>2, <2>7
  <2> QED
    BY <2>3, <2>4, <2>5, <2>6, <2>8
<1>9. CASE Detach
  BY <1>9 DEF Detach, hostVars, matrixVars
<1> QED
  BY <1>1, <1>2, <1>3, <1>4, <1>5, <1>6, <1>7, <1>8, <1>9 DEF Host

(* ... and so does each step of main_thread.                               *)
LEMMA MainInv ==
  ASSUME DfuInv, Main
  PROVE  DfuInv'
<1>1. CASE NormalInit
  <2>1. CASE bank = "bytecode"
    BY <1>1, <2>1 DEF NormalInit, In, usbVars, hostVars, matrixVars, DfuInv,
       Typed, BytecodeKept, Parked, Due, Decided, Done, Detaching, Verdict
  <2>2. CASE bank # "bytecode"
    BY <1>1, <2>2, RebootInv DEF NormalInit, DfuInv, Typed
  <2> QED BY <2>1, <2>2
<1>2. CASE DfuKey
  <2>1. CASE Available /\ Got = [key |-> "ESC", press |-> FALSE]
    BY <1>2, <2>1, RebootInv DEF DfuKey, DfuInv, Typed
  <2>2. CASE ~ (Available /\ Got = [key |-> "ESC", press |-> FALSE])
    <3>1. UNCHANGED invVars
      BY <1>2, <2>2 DEF DfuKey, usbVars, hostVars, modeVars, matrixVars,
         invVars
    <3> QED BY <3>1, Untouched
  <2> QED BY <2>1, <2>2
<1> USE DEF DfuInv, Typed, BytecodeKept, Parked, Due, Decided, Done, Detaching,
            Verdict, In, usbVars, hostVars, modeVars, matrixVars
<1>3. CASE NormalKey
  BY <1>3 DEF NormalKey
<1>4. CASE DanceEnds
  BY <1>4 DEF DanceEnds
<1>5. CASE NormalToggle
  BY <1>5 DEF NormalToggle
<1>6. CASE NormalLeave
  BY <1>6 DEF NormalLeave
<1>7. CASE EnterDfu
  BY <1>7 DEF EnterDfu
<1>8. CASE DfuBegin
  BY <1>8 DEF DfuBegin
<1>9. CASE DfuToggle
  BY <1>9 DEF DfuToggle
<1>10. CASE EnterNormal
  BY <1>10 DEF EnterNormal
<1> QED
  BY <1>1, <1>2, <1>3, <1>4, <1>5, <1>6, <1>7, <1>8, <1>9, <1>10 DEF Main

LEMMA DfuNextInv ==
  ASSUME DfuInv, [Next]_vars
  PROVE  DfuInv'
<1>1. CASE Detached
  BY <1>1, RebootInv DEF Detached, DfuInv, Typed
<1>2. CASE KeyEntersDfu \/ PinReset
  BY <1>2, RebootInv DEF KeyEntersDfu, PinReset, DfuInv, Typed
<1>5. CASE Wake \/ Scan \/ \E k \in Keys : KeyDown(k) \/ KeyUp(k)
  <2>1. UNCHANGED invVars
    BY <1>5 DEF Wake, Scan, KeyDown, KeyUp, invVars, usbVars, hostVars,
       modeVars, mainVars, matrixVars
  <2> QED BY <2>1, Untouched
<1>6. CASE UNCHANGED vars
  <2>1. UNCHANGED invVars
    BY <1>6 DEF vars, invVars, usbVars, hostVars, modeVars, mainVars,
       matrixVars
  <2> QED BY <2>1, Untouched
<1> USE DEF DfuInv, Typed, BytecodeKept, Parked, Due, Decided, Done, Detaching,
            Verdict, usbVars, hostVars, modeVars, mainVars, matrixVars
<1>3. CASE DnloadData
  <2>1. /\ UNCHANGED <<dfuState, detach, image, session, mode, at, toggle,
                       enabled, cleared>>
        /\ dataDue /\ dataDue' = FALSE
    BY <1>3 DEF DnloadData
  <2>2. skip' = Verdict
    BY <1>3 DEF DnloadData
  <2>3. session = "first" =>
          bank' = IF bank \in Intact THEN "header lost" ELSE bank
    BY <1>3 DEF DnloadData
  <2>4. session = "more" /\ image = "bytecode" => bank' = "part bytecode"
    BY <1>3 DEF DnloadData
  <2>5. session = "more" /\ image = "firmware" => bank' = "part firmware"
    BY <1>3 DEF DnloadData
  <2>6. BytecodeKept' /\ Parked'
    BY <2>1, <2>3, <2>4, <2>5
  <2>7. Due'
    BY <2>1
  <2>8. session' # "done" /\ session' = session /\ image' = image
    BY <2>1
  <2>10. Done' /\ Detaching'
    BY <2>8, <2>1
  <2>11. Verdict' = Verdict
    BY <2>8, Zenon
  <2>13. Verdict \in {0, 1}
    OBVIOUS
  <2>12. Decided'
    <3>1. skip' # -1
      BY <2>2, <2>13, BitIsNotUndetermined, Zenon
    <3>2. skip' = Verdict'
      BY <2>2, <2>11, Zenon
    <3> QED
      BY <3>1, <3>2, Zenon
  <2>9. Typed'
    BY <2>1, <2>2, <2>3, <2>4, <2>5
  <2> QED
    BY <2>6, <2>7, <2>9, <2>10, <2>12
<1>4. CASE DnloadFails
  BY <1>4 DEF DnloadFails
<1> QED
  BY <1>1, <1>2, <1>3, <1>4, <1>5, <1>6, HostInv, MainInv DEF Next

THEOREM DfuInvHolds == Spec => []DfuInv
BY DfuInitInv, DfuNextInv, PTL DEF Spec

(* LuaIntact (usb_dfu.cpp:185-201, 326-331): Lua never runs on bytecode of *)
(* which a later block than the first is being replaced.                   *)
THEOREM LuaStaysIntact == Spec => []LuaIntact
<1>1. DfuInv => LuaIntact
  BY DEF DfuInv, BytecodeKept, LuaIntact
<1> QED
  BY <1>1, DfuInvHolds, PTL

(* DetachFits (usb_dfu.cpp:153-156): the reset after DFU_DETACH swaps the  *)
(* banks if and only if firmware was downloaded.                           *)
THEOREM DetachSwapsFirmware == Spec => []DetachFits
<1>1. ASSUME DfuInv, detach
      PROVE  bank = IF skip = 0 THEN "firmware" ELSE "bytecode"
  <2>1. bank = image /\ skip = Verdict /\ image \in Images
    BY <1>1 DEF DfuInv, Done, Detaching, Typed
  <2>2. CASE image = "bytecode"
    BY <2>1, <2>2 DEF Verdict
  <2>3. CASE image = "firmware"
    BY <2>1, <2>3 DEF Verdict
  <2> QED BY <2>1, <2>2, <2>3
<1>2. DfuInv => DetachFits
  BY <1>1 DEF DetachFits
<1> QED
  BY <1>2, DfuInvHolds, PTL

(* EnabledAtRest (usb_dfu.cpp:191-193, 316-345): between downloads the     *)
(* keyboard works, a download given up with CLRSTATUS excepted.            *)
THEOREM KeyboardEnabledAtRest == Spec => []EnabledAtRest
<1> USE DEF EnabledAtRest
<1>1. Init => EnabledAtRest
  BY DEF Init
<1>2. EnabledAtRest /\ [Next]_vars => EnabledAtRest'
  <2> SUFFICES ASSUME EnabledAtRest, [Next]_vars
               PROVE  EnabledAtRest'
    OBVIOUS
  <2>1. CASE Host
    BY <2>1 DEF Host, DnloadFirst, DnloadNext, DnloadEnd, BlockDone,
       Manifested, ClrStatus, Abort, Enable, Upload, Detach, matrixVars,
       Request
  <2>2. CASE Main
    BY <2>2 DEF Main, NormalInit, NormalKey, DanceEnds, NormalToggle,
       NormalLeave, EnterDfu, DfuBegin, DfuKey, DfuToggle, EnterNormal,
       Reboot, usbVars, matrixVars
  <2>3. CASE \/ DnloadData \/ DnloadFails \/ Detached \/ KeyEntersDfu
             \/ Wake \/ Scan \/ PinReset
             \/ \E k \in Keys : KeyDown(k) \/ KeyUp(k)
    BY <2>3 DEF DnloadData, DnloadFails, Detached, KeyEntersDfu, Wake, Scan,
       PinReset, KeyDown, KeyUp, Reboot, usbVars, matrixVars
  <2>4. CASE UNCHANGED vars
    BY <2>4 DEF vars, usbVars, matrixVars
  <2> QED
    BY <2>1, <2>2, <2>3, <2>4 DEF Next
<1> QED
  BY <1>1, <1>2, PTL DEF Spec

-----------------------------------------------------------------------------
(* The queue of key events through downloads, resets and changes of mode.  *)

(* Whatever leads out of defer mode and back, an event that was peeked at  *)
(* is one of the queue, and the dance has defer mode on.                   *)
Peeked ==
  /\ events \in Seq(Event)
  /\ peeked \in 0 .. Len(events)
  /\ {peeking, dancing} \subseteq BOOLEAN
  /\ dancing => peeking

(* The rest of the types.                                                  *)
Sized ==
  /\ m_pressed \subseteq Keys
  /\ down \subseteq Keys
  /\ {exit, keyFlag, asleep, carried} \subseteq BOOLEAN
  /\ downloads \in 0 .. MaxDownloads
  /\ taps \in 0 .. MaxTaps
  /\ faults \in 0 .. MaxFaults

LEMMA NoEvents == <<>> \in Seq(Event) /\ Len(<<>>) = 0
BY EmptySeq

LEMMA PeekedSame ==
  ASSUME Peeked, UNCHANGED <<queueVars, dancing>>
  PROVE  Peeked'
BY DEF Peeked, queueVars

LEMMA PeekedReboot ==
  ASSUME NEW found, NEW forced, Reboot(found, forced)
  PROVE  Peeked'
<1>1. /\ events' = <<>> /\ peeked' = 0 /\ peeking' = FALSE
      /\ dancing' = FALSE
  BY DEF Reboot
<1>2. 0 \in 0 .. Len(<<>>)
  BY NoEvents
<1> QED
  BY <1>1, <1>2, NoEvents DEF Peeked

(* The reports of a scan are events, whatever keys are down.               *)
LEMMA ChangesAreEvents == Changes \in Seq(Event)
<1> DEFINE Change(k) == IF (k \in down) = (k \in m_pressed) THEN <<>>
                        ELSE <<[key |-> k, press |-> k \in down]>>
<1>1. ASSUME NEW k \in Keys
      PROVE  Change(k) \in Seq(Event)
  <2>1. [key |-> k, press |-> k \in down] \in Event
    BY DEF Event
  <2> HIDE DEF Event
  <2>2. <<[key |-> k, press |-> k \in down]>> \in Seq(Event)
    BY <2>1
  <2> QED
    BY <2>2, NoEvents
<1>2. Change("ESC") \in Seq(Event) /\ Change("TAP") \in Seq(Event)
  BY <1>1 DEF Keys
<1>3. Changes = Change("ESC") \o Change("TAP")
  BY DEF Changes
<1> HIDE DEF Change
<1> QED
  BY <1>2, <1>3, ConcatProperties

LEMMA PeekedScan ==
  ASSUME Peeked, Scan
  PROVE  Peeked'
<1>1. events' = events \o Changes /\ UNCHANGED <<peeked, peeking, dancing>>
  BY DEF Scan
<1>2. /\ events \o Changes \in Seq(Event)
      /\ Len(events \o Changes) = Len(events) + Len(Changes)
  BY ChangesAreEvents, ConcatProperties DEF Peeked
<1>3. Len(Changes) \in Nat /\ Len(events) \in Nat
  BY ChangesAreEvents, LenProperties DEF Peeked
<1>4. peeked \in 0 .. Len(events) + Len(Changes)
  BY <1>3 DEF Peeked
<1> QED
  BY <1>1, <1>2, <1>4 DEF Peeked

(* What get() returns, and where it leaves the queue.                      *)
LEMMA GetPeeks ==
  ASSUME Peeked, Available
  PROVE  /\ Got \in Event
         /\ Queue \in Seq(Event)
         /\ Peeks \in 0 .. Len(Queue)
         /\ peeking => Queue = events /\ Peeks = peeked + 1
                       /\ Peeks \in 1 .. Len(Queue)
<1>1. events \in Seq(Event) /\ Len(events) \in Nat /\ peeked \in 0 .. Len(events)
  BY LenProperties DEF Peeked
<1>2. CASE peeking
  <2>1. peeked + 1 \in 1 .. Len(events)
    BY <1>1, <1>2 DEF Available
  <2>2. events[peeked + 1] \in Event
    BY <1>1, <2>1, ElementOfSeq
  <2> QED
    BY <1>1, <1>2, <2>1, <2>2 DEF Got, Queue, Peeks
<1>3. CASE ~ peeking
  <2>1. /\ Head(events) \in Event /\ Tail(events) \in Seq(Event)
        /\ Len(Tail(events)) = Len(events) - 1
    BY <1>1, <1>3, HeadTailProperties DEF Available
  <2>2. Len(Tail(events)) \in Nat
    BY <2>1, LenProperties
  <2>3. Got = Head(events) /\ Queue = Tail(events) /\ Peeks = 0
    BY <1>3 DEF Got, Queue, Peeks
  <2> QED
    BY <1>3, <2>1, <2>2, <2>3
<1> QED BY <1>2, <1>3

LEMMA DropEvent ==
  ASSUME NEW s \in Seq(Event), NEW i \in 1 .. Len(s)
  PROVE  RemoveAt(s, i) \in Seq(Event) /\ Len(RemoveAt(s, i)) = Len(s) - 1
<1>1. Len(s) \in Nat /\ \A j \in 1 .. Len(s) : s[j] \in Event
  BY ElementOfSeq, LenProperties
<1> DEFINE before == SubSeq(s, 1, i - 1)
           after == SubSeq(s, i + 1, Len(s))
<1>2. before \in Seq(Event) /\ Len(before) = i - 1
  <2>1. 1 \in Int /\ i - 1 \in Int /\ \A j \in 1 .. i - 1 : s[j] \in Event
    BY <1>1
  <2>2. /\ before \in Seq(Event)
        /\ Len(before) = IF 1 <= i - 1 THEN i - 1 - 1 + 1 ELSE 0
    BY <2>1, SubSeqProperties
  <2> QED
    BY <2>2, <1>1
<1>3. after \in Seq(Event) /\ Len(after) = Len(s) - i
  <2>1. /\ i + 1 \in Int /\ Len(s) \in Int
        /\ \A j \in i + 1 .. Len(s) : s[j] \in Event
    BY <1>1
  <2>2. after \in Seq(Event)
        /\ Len(after) = IF i + 1 <= Len(s) THEN Len(s) - (i + 1) + 1 ELSE 0
    BY <2>1, SubSeqProperties
  <2> QED
    BY <2>2, <1>1
<1>4. /\ before \o after \in Seq(Event)
      /\ Len(before \o after) = Len(before) + Len(after)
  BY <1>2, <1>3, ConcatProperties
<1>5. RemoveAt(s, i) = before \o after
  BY DEF RemoveAt
<1> HIDE DEF before, after
<1>6. (i - 1) + (Len(s) - i) = Len(s) - 1
  BY <1>1
<1> QED
  BY <1>2, <1>3, <1>4, <1>5, <1>6

(* main_thread in normal mode: TAP's own events leave the queue from       *)
(* behind what was peeked at, in defer mode only.                          *)
LEMMA PeekedKey ==
  ASSUME Peeked, NormalKey
  PROVE  Peeked'
<1>1. CASE ~ Available
  <2>1. UNCHANGED <<queueVars, dancing>>
    BY <1>1 DEF NormalKey
  <2> QED BY <2>1, PeekedSame
<1>2. CASE Available
  <2>1. HandleKeyEvent
    BY <1>2 DEF NormalKey
  <2>2. /\ Got \in Event /\ Queue \in Seq(Event) /\ Peeks \in 0 .. Len(Queue)
        /\ peeking => Peeks = peeked + 1 /\ Peeks \in 1 .. Len(Queue)
    BY <1>2, GetPeeks
  <2>3. {peeking, dancing} \subseteq BOOLEAN /\ (dancing => peeking)
    BY DEF Peeked
  <2> HIDE DEF Queue, Peeks, Got
  <2>4. CASE ~ dancing
    <3>1. /\ dancing' = (Got = [key |-> "TAP", press |-> TRUE])
          /\ peeking' = (peeking \/ dancing')
          /\ events' = Queue /\ peeked' = Peeks
      BY <2>1, <2>4 DEF HandleKeyEvent
    <3>2. dancing' \in BOOLEAN /\ peeking' \in BOOLEAN /\ (dancing' => peeking')
      BY <3>1, <2>3
    <3> QED BY <2>2, <3>1, <3>2 DEF Peeked
  <2>5. CASE dancing /\ Got.key = "TAP"
    <3>1. /\ events' = RemoveAt(Queue, Peeks) /\ peeked' = Peeks - 1
          /\ UNCHANGED <<peeking, dancing>>
      BY <2>1, <2>5 DEF HandleKeyEvent
    <3>2. peeking /\ Peeks \in 1 .. Len(Queue)
      BY <2>2, <2>3, <2>5
    <3>3. /\ RemoveAt(Queue, Peeks) \in Seq(Event)
          /\ Len(RemoveAt(Queue, Peeks)) = Len(Queue) - 1
      BY <2>2, <3>2, DropEvent
    <3>4. Len(Queue) \in Nat
      BY <2>2, LenProperties
    <3>5. Peeks - 1 \in 0 .. Len(Queue) - 1
      BY <3>2, <3>4
    <3> QED BY <2>3, <3>1, <3>3, <3>5 DEF Peeked
  <2>6. CASE dancing /\ Got.key # "TAP"
    <3>1. /\ dancing' = ~ Got.press /\ peeking' = ~ Got.press
          /\ events' = Queue /\ peeked' = Peeks
      BY <2>1, <2>6 DEF HandleKeyEvent
    <3>2. Got.press \in BOOLEAN
      BY <2>2 DEF Event
    <3> QED BY <2>2, <3>1, <3>2 DEF Peeked
  <2> QED BY <2>4, <2>5, <2>6
<1> QED BY <1>1, <1>2

(* main_thread in DFU mode.                                                *)
LEMMA PeekedDfuKey ==
  ASSUME Peeked, DfuKey
  PROVE  Peeked'
<1>1. CASE Available /\ Got = [key |-> "ESC", press |-> FALSE]
  BY <1>1, PeekedReboot DEF DfuKey
<1>2. CASE ~ (Available /\ Got = [key |-> "ESC", press |-> FALSE])
  <2>1. /\ events' = IF Available THEN Queue ELSE events
        /\ peeked' = IF Available THEN Peeks ELSE peeked
        /\ UNCHANGED <<peeking, dancing>>
    BY <1>2 DEF DfuKey
  <2>2. CASE Available
    BY <2>1, <2>2, GetPeeks DEF Peeked
  <2>3. CASE ~ Available
    BY <2>1, <2>3 DEF Peeked
  <2> QED BY <2>2, <2>3
<1> QED BY <1>1, <1>2

LEMMA PeekedNext ==
  ASSUME Peeked, [Next]_vars
  PROVE  Peeked'
<1>1. CASE \/ Host \/ DnloadData \/ DnloadFails \/ Wake
           \/ \E k \in Keys : KeyDown(k) \/ KeyUp(k)
  <2>1. UNCHANGED mainVars
    BY <1>1 DEF Host, DnloadFirst, DnloadNext, DnloadEnd, BlockDone,
       Manifested, ClrStatus, Abort, Upload, Detach, DnloadData, DnloadFails,
       Wake, KeyDown, KeyUp
  <2> QED BY <2>1, PeekedSame DEF mainVars
<1>2. CASE Detached \/ KeyEntersDfu \/ PinReset
  BY <1>2, PeekedReboot DEF Detached, KeyEntersDfu, PinReset
<1>3. CASE NormalInit
  <2>1. CASE bank = "bytecode"
    BY <1>3, <2>1, PeekedSame DEF NormalInit
  <2>2. CASE bank # "bytecode"
    BY <1>3, <2>2, PeekedReboot DEF NormalInit
  <2> QED BY <2>1, <2>2
<1>4. CASE DanceEnds
  <2>1. UNCHANGED <<events, peeked>> /\ peeking' = FALSE /\ dancing' = FALSE
    BY <1>4 DEF DanceEnds
  <2> QED BY <2>1 DEF Peeked
<1>5. CASE EnterDfu
  <2>1. UNCHANGED queueVars /\ dancing' = FALSE
    BY <1>5 DEF EnterDfu
  <2> QED BY <2>1 DEF Peeked, queueVars
<1>6. CASE NormalToggle \/ NormalLeave \/ DfuBegin \/ DfuToggle \/ EnterNormal
  BY <1>6, PeekedSame
     DEF NormalToggle, NormalLeave, DfuBegin, DfuToggle, EnterNormal
<1>7. CASE UNCHANGED vars
  BY <1>7, PeekedSame DEF vars
<1> QED
  BY <1>1, <1>2, <1>3, <1>4, <1>5, <1>6, <1>7, PeekedKey, PeekedDfuKey,
     PeekedScan DEF Next, Main

(* The rest of the types.                                                  *)
LEMMA SizedNext ==
  ASSUME Peeked, Sized, [Next]_vars
  PROVE  Sized'
<1> USE DfuAssumption
<1>1. CASE Host
  <2>1. UNCHANGED <<m_pressed, down, exit, keyFlag, asleep, taps>>
    BY <1>1 DEF Host, DnloadFirst, DnloadNext, DnloadEnd, BlockDone,
       Manifested, ClrStatus, Abort, Upload, Detach, mainVars, modeVars,
       matrixVars, bounds
  <2>2. carried' \in BOOLEAN
    BY <1>1 DEF Host, DnloadFirst, DnloadNext, DnloadEnd, BlockDone,
       Manifested, ClrStatus, Abort, Upload, Detach, ToggleToDfu,
       SignalToggle, Sized
  <2>3. downloads' \in 0 .. MaxDownloads /\ faults' \in 0 .. MaxFaults
    BY <1>1 DEF Host, DnloadFirst, DnloadNext, DnloadEnd, BlockDone,
       Manifested, ClrStatus, Abort, Upload, Detach, bounds, Sized
  <2> QED BY <2>1, <2>2, <2>3 DEF Sized
<1>2. ASSUME NEW found, NEW forced, Reboot(found, forced),
             faults' \in 0 .. MaxFaults
      PROVE  Sized'
  BY <1>2 DEF Reboot, Sized
<1>3. CASE Detached \/ KeyEntersDfu \/ PinReset
  <2>1. faults' \in 0 .. MaxFaults
    <3>1. CASE Detached
      BY <1>3, <3>1 DEF Detached, Sized
    <3>2. CASE KeyEntersDfu
      BY <1>3, <3>2 DEF KeyEntersDfu, Sized
    <3>3. CASE PinReset
      <4>1. faults < MaxFaults /\ faults' = faults + 1
        BY <3>3 DEF PinReset
      <4> QED BY <4>1 DEF Sized
    <3> QED BY <1>3, <3>1, <3>2, <3>3
  <2> QED BY <1>2, <1>3, <2>1 DEF Detached, KeyEntersDfu, PinReset
<1>4. CASE NormalInit \/ DfuKey
  <2>1. faults' = faults
    BY <1>4 DEF NormalInit, DfuKey
  <2>2. CASE Reboot(bank, TRUE) \/ Reboot(bank, FALSE)
    BY <1>2, <2>1, <2>2 DEF Sized
  <2>3. CASE ~ (Reboot(bank, TRUE) \/ Reboot(bank, FALSE))
    <3>1. /\ UNCHANGED <<m_pressed, down, exit, asleep, carried, downloads,
                         taps>>
          /\ keyFlag' \in {keyFlag, FALSE}
      BY <1>4, <2>3 DEF NormalInit, DfuKey, modeVars, matrixVars
    <3> QED BY <2>1, <3>1 DEF Sized
  <2> QED BY <2>2, <2>3
<1>5. CASE \/ NormalKey \/ DanceEnds \/ NormalToggle \/ NormalLeave
           \/ EnterDfu \/ DfuBegin \/ DfuToggle \/ EnterNormal
  <2>1. /\ UNCHANGED <<m_pressed, down, asleep, carried, downloads, taps,
                       faults>>
        /\ exit' \in {exit, TRUE, FALSE}
    BY <1>5 DEF NormalKey, DanceEnds, NormalToggle, NormalLeave, EnterDfu,
       DfuBegin, DfuToggle, EnterNormal, modeVars, matrixVars, bounds
  <2>2. Available' \in BOOLEAN
    <3>1. (peeked < Len(events))' \in BOOLEAN
      <4>1. Len(events') \in Nat /\ peeked' \in Nat
        BY PeekedNext, LenProperties DEF Peeked
      <4> QED BY <4>1
    <3> QED BY <3>1 DEF Available
  <2>3. keyFlag' \in BOOLEAN
    <3>1. CASE NormalKey \/ NormalToggle
      <4>1. keyFlag' = Available'
        BY <3>1 DEF NormalKey, NormalToggle, queueVars, Available
      <4> QED BY <2>2, <4>1
    <3>2. CASE DanceEnds
      <4>1. keyFlag' = (keyFlag \/ events # <<>>)
        BY <3>2 DEF DanceEnds
      <4> QED BY <4>1
    <3>3. CASE NormalLeave \/ EnterDfu \/ DfuBegin \/ DfuToggle \/ EnterNormal
      <4>1. keyFlag' = keyFlag
        BY <3>3 DEF NormalLeave, EnterDfu, DfuBegin, DfuToggle, EnterNormal
      <4> QED BY <4>1 DEF Sized
    <3> QED BY <1>5, <3>1, <3>2, <3>3
  <2> QED BY <2>1, <2>3 DEF Sized
<1>6. CASE DnloadData \/ DnloadFails
  <2>1. UNCHANGED <<m_pressed, down, exit, keyFlag, asleep, carried,
                    downloads, taps>>
    BY <1>6 DEF DnloadData, DnloadFails, mainVars, modeVars, matrixVars,
       bounds
  <2>2. faults' \in 0 .. MaxFaults
    <3>1. \/ faults' = faults
          \/ faults < MaxFaults /\ faults' = faults + 1
      BY <1>6 DEF DnloadData, DnloadFails, bounds
    <3> QED BY <3>1 DEF Sized
  <2> QED BY <2>1, <2>2 DEF Sized
<1>7. CASE Wake \/ Scan
  <2>1. /\ UNCHANGED <<down, exit, carried, downloads, taps, faults>>
        /\ m_pressed' \subseteq Keys /\ asleep' \in BOOLEAN
        /\ keyFlag' \in BOOLEAN
    BY <1>7 DEF Wake, Scan, mainVars, modeVars, bounds, Sized
  <2> QED BY <2>1 DEF Sized
<1>8. CASE \E k \in Keys : KeyDown(k) \/ KeyUp(k)
  <2>1. /\ UNCHANGED <<m_pressed, exit, keyFlag, asleep, carried, downloads,
                       faults>>
        /\ down' \subseteq Keys /\ taps' \in 0 .. MaxTaps
    BY <1>8 DEF KeyDown, KeyUp, mainVars, modeVars, matrixVars, bounds, Sized
  <2> QED BY <2>1 DEF Sized
<1>9. CASE UNCHANGED vars
  BY <1>9 DEF vars, mainVars, modeVars, matrixVars, bounds, Sized
<1> QED
  BY <1>1, <1>3, <1>4, <1>5, <1>6, <1>7, <1>8, <1>9 DEF Next, Main

(* TypeOK, for any number of downloads, keys and faults: in particular     *)
(* m_peek stays between m_pop and m_push when normal mode, which may be in *)
(* defer mode, ends and begins again (main_thread.cpp:395).                *)
THEOREM DfuTypeCorrect == Spec => []TypeOK
<1>1. Init => Peeked /\ Sized
  <2> SUFFICES ASSUME Init
               PROVE  Peeked /\ Sized
    OBVIOUS
  <2>1. /\ events = <<>> /\ peeked = 0 /\ peeking = FALSE /\ dancing = FALSE
        /\ m_pressed = {} /\ down = {} /\ exit = FALSE /\ keyFlag = FALSE
        /\ asleep = TRUE /\ carried = FALSE
        /\ downloads = 0 /\ taps = 0 /\ faults = 0
    BY DEF Init
  <2>2. Peeked
    <3>1. 0 \in 0 .. Len(<<>>)
      BY NoEvents
    <3> QED BY <2>1, <3>1, NoEvents DEF Peeked
  <2>3. Sized
    <3>1. /\ m_pressed \subseteq Keys /\ down \subseteq Keys
          /\ {exit, keyFlag, asleep, carried} \subseteq BOOLEAN
      BY <2>1
    <3>2. /\ downloads \in 0 .. MaxDownloads /\ taps \in 0 .. MaxTaps
          /\ faults \in 0 .. MaxFaults
      BY <2>1, DfuAssumption
    <3> QED BY <3>1, <3>2 DEF Sized
  <2> QED BY <2>2, <2>3
<1>2. Peeked /\ Sized /\ [Next]_vars => (Peeked /\ Sized)'
  BY PeekedNext, SizedNext
<1>3. DfuInv /\ Peeked /\ Sized => TypeOK
  BY DEF DfuInv, Typed, Peeked, Sized, TypeOK
<1> QED
  BY <1>1, <1>2, <1>3, DfuInvHolds, PTL DEF Spec

=============================================================================
