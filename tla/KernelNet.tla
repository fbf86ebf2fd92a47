----------------------------- MODULE KernelNet -----------------------------
(***************************************************************************)
(* The network functions of tty.c: byte order, the Internet checksum, and  *)
(* the echo request and reply over a network card that is a set of ports.  *)
(* A 16-bit word is a number, a 32-bit word the sequence of its bytes as   *)
(* they lie in memory, least significant first; a packet is a sequence of  *)
(* bytes.                                                                  *)
(***************************************************************************)
EXTENDS Integers, Sequences, SequencesExt

htonl(bytes) == Reverse(bytes)
htons(w) == ((w \div 256) + w * 256) % 65536
Bytes16(w) == <<w % 256, w \div 256>>

(* sum of the little-endian words, a last odd byte on its own; the carries *)
(* are added in again until there are none.                                *)
WordSum(data) ==
  LET word(i) == data[2 * i - 1] + (IF 2 * i <= Len(data) THEN 256 * data[2 * i] ELSE 0)
      sum[i \in 0 .. (Len(data) + 1) \div 2] == IF i = 0 THEN 0 ELSE sum[i - 1] + word(i)
  IN sum[(Len(data) + 1) \div 2]
Fold_Once(sum) == (sum % 65536) + (sum \div 65536)
RECURSIVE Fold(_)
Fold(sum) == IF sum \div 65536 = 0 THEN sum ELSE Fold((sum % 65536) + (sum \div 65536))
checksum(data) == (65535 - Fold(WordSum(data))) % 65536

-----------------------------------------------------------------------------
ip_header_size == 20
icmp_header_size == 8

(* The headers send_ping fills, with the checksum field given.             *)
ip_header(dest, sum) ==
  <<69, 0>> \o Bytes16(htons(ip_header_size + icmp_header_size)) \o <<0, 0, 0, 0, 64, 0>>
  \o Bytes16(sum) \o htonl(<<1, 0, 168, 192>>) \o htonl(dest)
icmp_header(sum) ==
  <<8, 0>> \o Bytes16(sum) \o Bytes16(htons(1)) \o Bytes16(htons(1))

PingPacket(dest) ==
  ip_header(dest, checksum(ip_header(dest, 0))) \o icmp_header(checksum(icmp_header(0)))

(* network_send: the port writes, in order.  The base address does not fit *)
(* a port number and loses its high bits.                                  *)
io_base_send == 753664 % 65536
network_send(packet) ==
  [i \in 1 .. Len(packet) |-> <<io_base_send + i - 1, packet[i]>>]
  \o << <<io_base_send + 16, 1>> >>

(* send_ping: the port writes it makes.  Before it sends, it passes its    *)
(* own address in network order to printf as if it were the address of a   *)
(* format; `readable' tells whether memory lies there.  Without, printf    *)
(* faults, and the kernel has no handler that would return.  What printf   *)
(* prints from there is left out.                                          *)
PrintfAddress == LET b == htonl(<<1, 0, 168, 192>>) IN b[1] + 256 * (b[2] + 256 * (b[3] + 256 * b[4]))
send_ping(dest, readable) == IF readable THEN network_send(PingPacket(dest)) ELSE <<>>

(* network_receive into `buffer': nothing, or at most its length.  `card'  *)
(* has a status bit, a length and the bytes its ports return.              *)
network_receive(card, buffer) ==
  LET len == IF card.length > Len(buffer) THEN Len(buffer) ELSE card.length
  IN IF ~card.ready THEN [len |-> 0, buffer |-> buffer]
     ELSE [len |-> len,
           buffer |-> [i \in 1 .. Len(buffer) |-> IF i <= len THEN card.data[i] ELSE buffer[i]]]

(* receive_ping: networkinit from the type and code in the buffer, which   *)
(* held `stale' before, whether or not something arrived.                  *)
receive_ping(card, stale) ==
  LET b == network_receive(card, stale).buffer
  IN b[ip_header_size + 1] = 0 /\ b[ip_header_size + 2] = 0
=============================================================================
