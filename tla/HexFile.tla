------------------------------ MODULE HexFile ------------------------------
(***************************************************************************)
(* The Intel HEX file: asm-write-hex (asm.rkt) writes it, a medium may     *)
(* damage it, and read_hex_file (hexfile.c, and again hex2bin.c) reads it  *)
(* into a buffer of zeros.                                                 *)
(*                                                                         *)
(* A line is kept as its bytes, each for two digits, with what stands      *)
(* around them: the colon, if it is there, and the end of the line.  A     *)
(* character that is no digit is read as the digit 0.                      *)
(***************************************************************************)
EXTENDS Encoding

CONSTANTS
  BufferSize,  \* the size of the buffer that is filled
  DamageTo     \* the digits that a damaged digit may be read as

ASSUME HexFileAssumption == BufferSize \in Nat \ {0} /\ DamageTo \subseteq 0 .. 15

VARIABLES
  written,    \* the bytes given to asm-write-hex
  sent,       \* the lines that it wrote
  file,       \* the lines as they are when they are read
  next,       \* the line that fgets() returns next
  buffer,     \* the bytes stored, the others are 0
  max_addr,
  completed,  \* the EOF record was read
  error,
  loading     \* "writing", "reading", and then what read_hex_file returns: "loaded" or "failed"

hexVars == <<written, sent, file, next, buffer, max_addr, completed, error, loading>>

-----------------------------------------------------------------------------
(***************************************************************************)
(* Writing.  A record of 16 bytes is written when the byte behind it is    *)
(* met, so the first one is empty.                                         *)
(***************************************************************************)
Total(s) == LET sum[i \in 0 .. Len(s)] == IF i = 0 THEN 0 ELSE sum[i - 1] + s[i] IN sum[Len(s)]

print_line(type, addr, bytes) ==
  LET fields == <<Len(bytes), addr \div 256, addr % 256, type>> \o bytes
  IN [colon |-> TRUE, bytes |-> Append(fields, (-Total(fields)) % 256), newline |-> TRUE]

asm_write_hex(bytes) ==
  LET full == (Len(bytes) - 1) \div 16
      first(k) == 16 * (k - 1)
      data(k) == print_line(0, first(k), SubSeq(bytes, first(k) + 1, first(k) + 16))
      rest == print_line(0, 16 * full, SubSeq(bytes, 16 * full + 1, Len(bytes)))
  IN <<print_line(0, 0, <<>>)>> \o [k \in 1 .. full |-> data(k)] \o <<rest, print_line(1, 0, <<>>)>>

HexInit ==
  /\ written = <<>> /\ sent = <<>> /\ file = <<>> /\ buffer = <<>>
  /\ next = 1 /\ max_addr = 0
  /\ completed = FALSE /\ error = FALSE
  /\ loading = "writing"

Write(bytes) ==
  /\ loading = "writing"
  /\ written' = bytes
  /\ sent' = asm_write_hex(bytes)
  /\ file' = sent'
  /\ loading' = "reading"
  /\ UNCHANGED <<next, buffer, max_addr, completed, error>>

-----------------------------------------------------------------------------
(***************************************************************************)
(* The medium.  One thing happens to a file before it is read.             *)
(***************************************************************************)
Untouched == loading = "reading" /\ next = 1 /\ file = sent

Damaged(new) == file' = new /\ UNCHANGED <<written, sent, next, buffer, max_addr, completed, error, loading>>

\* One digit of a line is read as another one.
ChangeDigit(i, k, high, digit) ==
  LET b == file[i].bytes[k]
  IN Damaged([file EXCEPT ![i].bytes[k] = IF high THEN (16 * digit) + (b % 16) ELSE (16 * (b \div 16)) + digit])

LoseColon(i) == Damaged([file EXCEPT ![i].colon = FALSE])

\* The file ends in line i, behind its k-th byte.
Cut(i, k) ==
  Damaged(Append(SubSeq(file, 1, i - 1),
                 [file[i] EXCEPT !.bytes = SubSeq(@, 1, k), !.newline = FALSE]))

\* Lines are lost, repeated and put in another order: the k-th line is now the f[k]-th of those sent.
Rearrange(f) == Damaged([k \in DOMAIN f |-> sent[f[k]]])

Damage ==
  /\ Untouched
  /\ \/ \E i \in 1 .. Len(file) :
          \/ \E k \in 1 .. Len(file[i].bytes), high \in BOOLEAN, digit \in DamageTo : ChangeDigit(i, k, high, digit)
          \/ LoseColon(i)
          \/ \E k \in 0 .. Len(file[i].bytes) : Cut(i, k)
     \/ \E n \in 0 .. Len(file) + 1 : \E f \in [1 .. n -> 1 .. Len(file)] : Rearrange(f)

-----------------------------------------------------------------------------
(***************************************************************************)
(* Reading.  hex2byte() returns 0, and counts nothing, behind the end of   *)
(* a line.                                                                 *)
(***************************************************************************)
hex2byte(line, k) == IF k <= Len(line.bytes) THEN line.bytes[k] ELSE 0

Counted(line, last) == SubSeq(line.bytes, 1, IF last < Len(line.bytes) THEN last ELSE Len(line.bytes))

\* Whether the sum of a record, to its last byte and no further, tells that it is damaged.
BadChecksum_DataOnly(line, len, type) == type = 0 /\ Total(Counted(line, 5 + len)) % 256 # 0

BadChecksum(line, len, type) == Total(Counted(line, 5 + len)) % 256 # 0

\* A byte has eight bits, and an address sixteen.
Bytes == 0 .. 255
Address == 0 .. 65535
uint16(n) == n % 65536

\* The data of a record go to these addresses, which are counted from first.
Places(first, len) == {uint16(first + j) : j \in 0 .. len - 1}

Stored_Appended(line, addr, len) ==
  [a \in DOMAIN buffer \cup Places(max_addr, len) |->
     IF a \in Places(max_addr, len) THEN hex2byte(line, 5 + uint16(a - max_addr)) ELSE buffer[a]]

\* The buffer with the data of a record, which are stored even if the buffer is too short.
Stored(line, addr, len) ==
  [a \in DOMAIN buffer \cup Places(addr, len) |->
     IF a \in Places(addr, len) THEN hex2byte(line, 5 + uint16(a - addr)) ELSE buffer[a]]

\* The end of the file is known once the last line was read and has no end of line.
feof == next > Len(file) /\ Len(file) > 0 /\ ~file[Len(file)].newline

Going == loading = "reading" /\ ~feof /\ ~completed /\ ~error

ReadRecord ==
  /\ Going
  /\ next <= Len(file)
  /\ file[next].colon
  /\ LET line == file[next]
         len == hex2byte(line, 1)
         addr == 256 * hex2byte(line, 2) + hex2byte(line, 3)
         type == hex2byte(line, 4)
         too_short == type = 0 /\ addr + len > BufferSize
         addr_end == IF type = 0 THEN uint16(addr + len) ELSE addr
     IN /\ buffer' = IF type = 0 THEN Stored(line, addr, len) ELSE buffer
        /\ completed' = (type = 1)
        /\ max_addr' = IF addr_end > max_addr THEN addr_end ELSE max_addr
        /\ error' = (too_short \/ BadChecksum(line, len, type))
  /\ next' = next + 1
  /\ UNCHANGED <<written, sent, file, loading>>

SkipLine ==
  /\ Going
  /\ next <= Len(file)
  /\ ~file[next].colon
  /\ next' = next + 1
  /\ UNCHANGED <<written, sent, file, buffer, max_addr, completed, error, loading>>

\* What read_hex_file returns: the markers are looked for in the buffer.
Verdict == IF error \/ ~MarkersRight(buffer) THEN "failed" ELSE "loaded"

\* fgets() finds nothing.
NoLine_Ends ==
  /\ Going
  /\ next > Len(file)
  /\ loading' = Verdict
  /\ UNCHANGED <<written, sent, file, next, buffer, max_addr, completed, error>>

NoLine ==
  /\ Going
  /\ next > Len(file)
  /\ loading' = "failed"
  /\ UNCHANGED <<written, sent, file, next, buffer, max_addr, completed, error>>

Close ==
  /\ loading = "reading"
  /\ ~Going
  /\ loading' = Verdict
  /\ UNCHANGED <<written, sent, file, next, buffer, max_addr, completed, error>>

Read == ReadRecord \/ SkipLine \/ NoLine \/ Close

-----------------------------------------------------------------------------
(***************************************************************************)
(* A file by itself: any image that an assembler may write, and whatever   *)
(* may happen to its file before it is read.  The loader implements this.  *)
(***************************************************************************)
\* What begins with the markers and ends at an address of sixteen bits.
IsImage(bytes) ==
  /\ bytes \in Seq(Bytes)
  /\ Len(bytes) \in Address /\ Len(bytes) >= 4
  /\ bytes[1] = 215 /\ bytes[2] = 251

\* fgets() takes a line of no more than ninety-eight characters, the colon and the end included.
Line == [colon : BOOLEAN, bytes : {s \in Seq(Bytes) : Len(s) <= 48}, newline : BOOLEAN]

AnyDamage ==
  /\ loading = "reading" /\ next = 1
  /\ file' \in Seq(Line)
  /\ UNCHANGED <<written, sent, next, buffer, max_addr, completed, error, loading>>

HexNext ==
  \/ IsImage(written') /\ Write(written')
  \/ AnyDamage
  \/ Read

HexSpec == HexInit /\ [][HexNext]_hexVars

-----------------------------------------------------------------------------
(***************************************************************************)
(* Properties.                                                             *)
(***************************************************************************)
\* The buffer holds what was written, and nothing else.
Intact ==
  /\ max_addr = Len(written)
  /\ \A a \in DOMAIN buffer : buffer[a] = (IF a < Len(written) THEN written[a + 1] ELSE 0)
  /\ \A k \in 1 .. Len(written) : k - 1 \in DOMAIN buffer \/ written[k] = 0

DamagedDigit(i, k) ==
  /\ Len(file) = Len(sent)
  /\ file[i] # sent[i] /\ Len(file[i].bytes) = Len(sent[i].bytes)
  /\ \A j \in DOMAIN file \ {i} : file[j] = sent[j]
  /\ file[i] = [sent[i] EXCEPT !.bytes[k] = file[i].bytes[k]]

\* One damaged digit is found: whatever it stands for, the length of a record, its address,
\* its type, its data or its sum, the file is refused.  The exception is a length that has
\* become smaller, which hides a part of the record from the sum (read_hex_file).
DigitsGuarded ==
  loading = "loaded" =>
    \A i \in DOMAIN file : \A k \in 1 .. Len(file[i].bytes) :
      ~(DamagedDigit(i, k) /\ (k = 1 => file[i].bytes[1] > sent[i].bytes[1]))

\* The records are independent: a file that has all of them, in any order and any of them
\* more than once, with the EOF record at the end, is read to the image that was written,
\* if and only if the buffer has room for it (read_hex_file).
OrderIrrelevant ==
  (/\ loading \in {"loaded", "failed"}
   /\ {file[i] : i \in DOMAIN file} = {sent[i] : i \in DOMAIN sent}
   /\ \A i \in DOMAIN file : file[i] = sent[Len(sent)] => i = Len(file)) =>
     /\ loading = "loaded" <=> Len(written) <= BufferSize
     /\ loading = "loaded" => Intact

\* A file of whole lines is accepted only if its EOF record was read: lines that are missing
\* at the end are noticed, since fgets() finds nothing there (read_hex_file).
EndIsSeen ==
  (loading = "loaded" /\ file # <<>> /\ file[Len(file)].newline) => completed
=============================================================================
