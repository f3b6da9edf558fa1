------------------------------- MODULE Address --------------------------------
(***************************************************************************)
(* How the port turns IP addresses into text and back (inet_aton.c,        *)
(* port_net.c, relay_client.c, port_main.c).  The core keeps an address as *)
(* four bytes; to connect to it the port prints the bytes and parses the   *)
(* text again.  Three byte orders meet: the core's and the network's, most *)
(* significant byte first, that of the board's memory, and that of the     *)
(* words of the network processor's driver.                                *)
(*                                                                         *)
(* A text is what inet_aton tells apart in it: numbers, as strtoul reads   *)
(* them (in decimal, octal or hexadecimal), each with the character that   *)
(* follows it.  unsigned long has 32 bits on this board.                   *)
(***************************************************************************)
EXTENDS Integers

Byte == 0 .. 255
ULONG_MAX == 4294967295
Word == {v \in Nat : v <= ULONG_MAX}

(* wish_ip_addr_t; also s_addr, as the bytes lie in memory.                *)
Address == [1 .. 4 -> Byte]
Bytes(a, b, c, d) ==
  [i \in 1 .. 4 |-> IF i = 1 THEN a ELSE IF i = 2 THEN b ELSE IF i = 3 THEN c ELSE d]

(* strtoul finds no digits (0 and endptr == c); it gives ULONG_MAX if      *)
(* there are too many.                                                     *)
NoNumber == -1

Item == [number : Word \cup {NoNumber}, next : {".", "NUL", "space", "other"}]
Text == UNION {[1 .. k -> Item] : k \in Nat \ {0}}

-----------------------------------------------------------------------------

htonl(val) ==
  Bytes(val \div 16777216, (val \div 65536) % 256, (val \div 256) % 256, val % 256)

(* The loop has read n dots and the number after them, and then the end.   *)
GotEnd(text, n) ==
  /\ n + 1 \in DOMAIN text
  /\ \A i \in 1 .. n + 1 : text[i].number \notin {NoNumber, ULONG_MAX}
  /\ \A i \in 1 .. n : text[i].next = "."
  /\ text[n + 1].next \in {"NUL", "space"}

(* 0 is returned and no address is written.                               *)
Rejected == <<>>

(* A fourth dot is an error.  The last number fills the bytes that the     *)
(* leading ones leave; the parts do not overlap, so that | is +.           *)
inet_aton(text) ==
  CASE GotEnd(text, 0) -> htonl(text[1].number)
    [] /\ GotEnd(text, 1)
       /\ text[2].number <= 16777215 /\ text[1].number <= 255 ->
         htonl(text[1].number * 16777216 + text[2].number)
    [] /\ GotEnd(text, 2)
       /\ text[3].number <= 65535 /\ text[1].number <= 255 /\ text[2].number <= 255 ->
         htonl(text[1].number * 16777216 + text[2].number * 65536 + text[3].number)
    [] /\ GotEnd(text, 3)
       /\ \A i \in 1 .. 4 : text[i].number <= 255 ->
         htonl(text[1].number * 16777216 + text[2].number * 65536
                 + text[3].number * 256 + text[4].number)
    [] OTHER -> Rejected

(* "%d.%d.%d.%d" *)
Printed(ip) ==
  [i \in 1 .. 4 |-> [number |-> ip[i], next |-> IF i = 4 THEN "NUL" ELSE "."]]

-----------------------------------------------------------------------------

(* The address wish_open_connection gives to connect(), and keeps for the  *)
(* second call.                                                            *)
remote_addr(ip) == inet_aton(Printed(ip))

(* port_relay_client_open's, for the first call.                           *)
relay_serv_addr(ip) == inet_aton(Printed(ip))

(* The driver's words: byte 3 is the most significant one.                 *)
NetworkConfig_Ipv4Byte(ipV4, i) ==
  CASE i = 0 -> ipV4 % 256
    [] i = 1 -> (ipV4 \div 256) % 256
    [] i = 2 -> (ipV4 \div 65536) % 256
    [] i = 3 -> ipV4 \div 16777216

NetworkConfig_Ipv4Value(a, b, c, d) == a * 16777216 + b * 65536 + c * 256 + d

(* htons takes 16 bits and exchanges their two bytes.                      *)
htons(val) == (val % 256) * 256 + ((val \div 256) % 256)

(* A word in the memory of the board, least significant byte first.        *)
InMemory(word) ==
  Bytes(word % 256, (word \div 256) % 256, (word \div 65536) % 256, word \div 16777216)

(* The address port_main gives to the second connect() of a relay.         *)
repeated_serv_addr(ip) ==
  InMemory(htons(NetworkConfig_Ipv4Value(ip[1], ip[2], ip[3], ip[4])))

(* The sender of an advert is given to the core as it lies in memory.      *)
read_wish_local_discovery(s_addr) == [i \in 1 .. 4 |-> s_addr[i]]

(* Adverts are sent to everyone in the subnet.                             *)
wish_send_advertizement == inet_aton(Printed(Bytes(255, 255, 255, 255)))

NoSettings == -1

wish_get_host_ip_str(ipV4) ==
  IF ipV4 = NoSettings
  THEN Printed(Bytes(127, 0, 0, 1))
  ELSE Printed([i \in 1 .. 4 |-> NetworkConfig_Ipv4Byte(ipV4, 4 - i)])
=============================================================================
