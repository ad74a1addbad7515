---------------------------- MODULE Ipv4Checksum ----------------------------
(***************************************************************************)
(* ipv4_checksum, and the header of a fragment it is written into          *)
(* (src/src/routing.rs, lines 149 to 166, 231 and 232).  A header is a     *)
(* sequence of 16-bit words, for its length is a multiple of four bytes;   *)
(* word 6 is the checksum.                                                 *)
(***************************************************************************)
EXTENDS Integers, Sequences

Checksum == 6
WordMod  == 65536
Word     == 0..(WordMod - 1)

(* The sum after each turn of the loop over the words.                     *)
Sums(words) ==
  LET sum[n \in 0..Len(words)] == IF n = 0 THEN 0 ELSE sum[n - 1] + words[n]
  IN  sum

Carried_once(total) == (total % WordMod) + total \div WordMod       \* mutant

(* while (sum >> 16) != 0                                                  *)
Carried(total) ==
  LET carried[sum \in Nat] ==
        IF sum < WordMod THEN sum ELSE carried[(sum % WordMod) + sum \div WordMod]
  IN  carried[total]

ipv4_checksum(header) ==
  WordMod - 1 - Carried(Sums([header EXCEPT ![Checksum] = 0])[Len(header)])

WithChecksum(header) == [header EXCEPT ![Checksum] = ipv4_checksum(header)]

(* The test the kernel that gets the frame makes (RFC 791): the words add  *)
(* up to one's complement zero, the carries added one by one.              *)
OnesAdd(a, b) == IF a + b < WordMod THEN a + b ELSE a + b + 1 - WordMod

OnesSums(words) ==
  LET sum[n \in 0..Len(words)] == IF n = 0 THEN 0 ELSE OnesAdd(sum[n - 1], words[n])
  IN  sum

Verifies(header) == OnesSums(header)[Len(header)] = WordMod - 1
=============================================================================
