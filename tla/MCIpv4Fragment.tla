-------------------------- MODULE MCIpv4Fragment --------------------------
(***************************************************************************)
(* Instances of Ipv4Fragment for TLC, with an MTU of 44: fragments of 24   *)
(* bytes of payload, or of 16 after a header of 24.                        *)
(***************************************************************************)
EXTENDS Ipv4Fragment

Datagrams == {"fits", "one_over", "two_full", "options", "padded", "ipv6"}
Sizes == [d \in Datagrams |->
            CASE d = "fits" -> 24 [] d = "one_over" -> 25 [] d = "two_full" -> 48
              [] d = "options" -> 40 [] d = "padded" -> 30 [] d = "ipv6" -> 60]

WholePacket(d, ver, ihl, pad, flags) ==
  [d |-> d, ver |-> ver, ihl |-> ihl, len |-> ihl + Sizes[d] + pad,
   total_len |-> ihl + Sizes[d], flags |-> flags, off |-> 0, from |-> 0]

\* Datagrams that arrive whole, on either side of each boundary.
WholeInput == {WholePacket("fits", 4, 20, 0, {}), WholePacket("one_over", 4, 20, 0, {}),
               WholePacket("two_full", 4, 20, 0, {"DF"}), WholePacket("options", 4, 24, 0, {}),
               WholePacket("padded", 4, 20, 7, {}), WholePacket("ipv6", 6, 20, 0, {})}

\* A datagram that its sender has split already, for an MTU of 60.
SplitInput == {[d |-> "two_full", ver |-> 4, ihl |-> 20, len |-> 60, total_len |-> 60,
                flags |-> {"MF"}, off |-> 0, from |-> 0],
               [d |-> "two_full", ver |-> 4, ihl |-> 20, len |-> 28, total_len |-> 28,
                flags |-> {}, off |-> 5, from |-> 40]}
=============================================================================
