--------------------------- MODULE ArithmeticProofs ---------------------------
(***************************************************************************)
(* Theorems about what the port calculates: addresses, the layout of the   *)
(* flash, differences of times, the seconds of the main loop and the       *)
(* cursors of the ring of events.  They rest on what \div and % do, and     *)
(* hold for every address, page, time, width of the tick counter and       *)
(* length of the ring.                                                     *)
(***************************************************************************)
EXTENDS EventQueue, Periodic, Address, FlashLayout, TimeHelper,
        SequenceTheorems, TLAPS

-----------------------------------------------------------------------------
(* Quotients and remainders. *)

(* The defining property of \div and %, on which the cursors' "% LEN" rest. *)
LEMMA DivMod ==
  ASSUME NEW N \in Nat \ {0}, NEW a \in Int
  PROVE  /\ a \div N \in Int
         /\ a % N \in 0 .. N - 1
         /\ a = N * (a \div N) + (a % N)
  BY SMT

(* Quotient and remainder are unique. *)
LEMMA ModUnique ==
  ASSUME NEW N \in Nat \ {0}, NEW q \in Int, NEW r \in 0 .. N - 1
  PROVE  (N * q + r) % N = r
  BY SMT

(* A cursor already reduced modulo N may be advanced and reduced again. *)
LEMMA ModAdd ==
  ASSUME NEW N \in Nat \ {0}, NEW a \in Int, NEW b \in Int
  PROVE  ((a % N) + b) % N = (a + b) % N
<1> DEFINE q == a \div N
           r == a % N
           p == (r + b) \div N
           s == (r + b) % N
<1>1. q \in Int /\ r \in 0 .. N - 1 /\ a = N * q + r
  BY DivMod
<1>2. p \in Int /\ s \in 0 .. N - 1 /\ r + b = N * p + s
  <2> HIDE DEF r
  <2> QED BY DivMod, <1>1
<1> HIDE DEF q, r, p, s
<1>3. q + p \in Int /\ a + b = N * (q + p) + s
  BY <1>1, <1>2, SMT
<1>4. (N * (q + p) + s) % N = s
  BY <1>2, <1>3, ModUnique
<1>5. QED
  BY <1>3, <1>4 DEF s, r

(* Two positions less than N apart are different slots. *)
LEMMA ModDistinct ==
  ASSUME NEW N \in Nat \ {0}, NEW a \in Int, NEW b \in Int, a < b, b < a + N
  PROVE  a % N # b % N
<1> DEFINE q == a \div N
           p == b \div N
           r == a % N
<1>1. q \in Int /\ r \in 0 .. N - 1 /\ a = N * q + r
  BY DivMod
<1>2. p \in Int /\ b = N * p + (b % N)
  BY DivMod
<1>3. SUFFICES ASSUME b % N = r PROVE FALSE
  OBVIOUS
<1>4. b - a = N * (p - q)
  <2> HIDE DEF q, p, r
  <2> QED BY <1>1, <1>2, <1>3, SMT
<1> HIDE DEF q, p, r
<1>5. \/ p - q =< 0
      \/ p - q >= 1
  BY <1>1, <1>2, SMT
<1>6. QED
  BY <1>1, <1>2, <1>4, <1>5, SMT

(* What \div and % do in a step of the clock. *)
LEMMA Quotient ==
  ASSUME NEW a \in Nat, NEW n \in Nat \ {0}
  PROVE  /\ a \div n \in Nat
         /\ (a \div n) * n <= a /\ a < (a \div n) * n + n
         /\ a < n => a % n = a
         /\ a % n \in 0 .. n - 1
OBVIOUS

LEMMA QuotientMonotonic ==
  ASSUME NEW a \in Nat, NEW b \in Nat, NEW n \in Nat \ {0}, a <= b
  PROVE  a \div n <= b \div n
<1> DEFINE p == a \div n
           q == b \div n
<1>1. /\ p \in Nat /\ q \in Nat
      /\ p * n <= a /\ b < q * n + n
  BY Quotient
<1> HIDE DEF p, q
<1>2. ASSUME q + 1 <= p PROVE FALSE
  <2>1. (q + 1) * n <= p * n
    BY <1>1, <1>2
  <2>2. QED BY <1>1, <2>1
<1>3. QED BY <1>1, <1>2 DEF p, q

(* A quotient is known by its bounds. *)
LEMMA QuotientAt ==
  ASSUME NEW a \in Nat, NEW q \in Nat, NEW n \in Nat \ {0},
         q * n <= a, a < (q + 2) * n
  PROVE  a \div n \in {q, q + 1}
<1> DEFINE p == a \div n
<1>1. p \in Nat /\ p * n <= a /\ a < p * n + n
  BY Quotient
<1> HIDE DEF p
<1>2. ASSUME p < q PROVE FALSE
  <2>1. (p + 1) * n <= q * n
    BY <1>1, <1>2
  <2>2. QED BY <1>1, <2>1
<1>3. ASSUME p > q + 1 PROVE FALSE
  <2>1. (q + 2) * n <= p * n
    BY <1>1, <1>3
  <2>2. QED BY <1>1, <2>1
<1>4. p \in {q, q + 1}
  BY <1>1, <1>2, <1>3
<1>5. QED BY <1>4 DEF p

(* One byte less.                                                          *)
LEMMA Split ==
  ASSUME NEW q \in Nat, NEW r \in 0 .. 255
  PROVE  (q * 256 + r) \div 256 = q /\ (q * 256 + r) % 256 = r
BY SMT

LEMMA Joined ==
  ASSUME NEW v \in Nat
  PROVE  /\ v \div 256 \in Nat /\ v % 256 \in 0 .. 255
         /\ v = (v \div 256) * 256 + (v % 256)
BY SMT

LEMMA Divisions ==
  ASSUME NEW v \in Nat
  PROVE  /\ v \div 65536 = (v \div 256) \div 256
         /\ v \div 16777216 = ((v \div 256) \div 256) \div 256
BY SMT

-----------------------------------------------------------------------------
(* Addresses (inet_aton.c).  A word is determined by its four bytes. *)

(* The word whose bytes are ip, and its last 4 - n bytes.                  *)
Rest(ip, n) ==
  IF n = 0 THEN ip[1] * 16777216 + ip[2] * 65536 + ip[3] * 256 + ip[4]
  ELSE IF n = 1 THEN ip[2] * 65536 + ip[3] * 256 + ip[4]
  ELSE IF n = 2 THEN ip[3] * 256 + ip[4] ELSE ip[4]

LEMMA BytesOfWord ==
  ASSUME NEW a \in Byte, NEW b \in Byte, NEW c \in Byte, NEW d \in Byte
  PROVE  LET v == a * 16777216 + b * 65536 + c * 256 + d
         IN  /\ v \in Word
             /\ v \div 16777216 = a
             /\ (v \div 65536) % 256 = b
             /\ (v \div 256) % 256 = c
             /\ v % 256 = d
<1>1. /\ a \in Int /\ 0 <= a /\ a <= 255
      /\ b \in Int /\ 0 <= b /\ b <= 255
      /\ c \in Int /\ 0 <= c /\ c <= 255
      /\ d \in Int /\ 0 <= d /\ d <= 255
  BY SMT DEF Byte
<1>2. PICK x \in Nat : x = a * 256 + b
  BY <1>1, SMT
<1>3. PICK y \in Nat : y = x * 256 + c
  BY <1>1, <1>2, SMT
<1>4. PICK v \in Nat : v = y * 256 + d
  BY <1>1, <1>3, SMT
<1>5. v = a * 16777216 + b * 65536 + c * 256 + d
  BY <1>1, <1>2, <1>3, <1>4, SMT
<1>6. v <= 4294967295
  BY <1>1, <1>5, SMT
<1>7. v \in Word
  BY <1>4, <1>6, SMT DEF Word, ULONG_MAX
<1>8. v \div 256 = y /\ v % 256 = d
  BY <1>1, <1>4, Split, SMT
<1>9. y \div 256 = x /\ y % 256 = c
  BY <1>1, <1>3, Split, SMT
<1>10. x \div 256 = a /\ x % 256 = b
  BY <1>1, <1>2, Split, SMT
<1>11. v \div 65536 = x /\ v \div 16777216 = a
  BY <1>4, <1>8, <1>9, <1>10, Divisions, SMT
<1>12. QED
  BY <1>5, <1>7, <1>8, <1>9, <1>10, <1>11, SMT

LEMMA WordOfBytes ==
  ASSUME NEW v \in Word
  PROVE  /\ v \div 16777216 \in Byte
         /\ (v \div 65536) % 256 \in Byte
         /\ (v \div 256) % 256 \in Byte
         /\ v % 256 \in Byte
         /\ v = (v \div 16777216) * 16777216 + ((v \div 65536) % 256) * 65536
                  + ((v \div 256) % 256) * 256 + (v % 256)
<1>1. v \in Nat
  BY SMT DEF Word, ULONG_MAX
<1>2. v <= 4294967295
  BY SMT DEF Word, ULONG_MAX
<1>3. PICK y \in Nat : y = v \div 256
  BY <1>1, Joined, SMT
<1>4. PICK x \in Nat : x = y \div 256
  BY <1>3, Joined, SMT
<1>5. PICK a \in Nat : a = x \div 256
  BY <1>4, Joined, SMT
<1>6. v \div 65536 = x /\ v \div 16777216 = a
  BY <1>1, <1>3, <1>4, <1>5, Divisions, SMT
<1>7. PICK d \in 0 .. 255 : d = v % 256 /\ v = y * 256 + d
  BY <1>1, <1>3, Joined, SMT
<1>8. PICK c \in 0 .. 255 : c = y % 256 /\ y = x * 256 + c
  BY <1>3, <1>4, Joined, SMT
<1>9. PICK b \in 0 .. 255 : b = x % 256 /\ x = a * 256 + b
  BY <1>4, <1>5, Joined, SMT
<1>10. v = a * 16777216 + b * 65536 + c * 256 + d
  BY <1>7, <1>8, <1>9, SMT
<1>11. a <= 255
  BY <1>2, <1>10, SMT
<1>12. a \in Byte /\ b \in Byte /\ c \in Byte /\ d \in Byte
  BY <1>11, SMT DEF Byte
<1>13. /\ v \div 16777216 = a /\ (v \div 65536) % 256 = b
       /\ (v \div 256) % 256 = c /\ v % 256 = d
  BY <1>3, <1>6, <1>7, <1>8, <1>9
<1>14. QED
  BY <1>10, <1>12, <1>13

-----------------------------------------------------------------------------
(* Bytes and addresses.                                                    *)

LEMMA BytesOf ==
  ASSUME NEW a, NEW b, NEW c, NEW d
  PROVE  /\ Bytes(a, b, c, d)[1] = a /\ Bytes(a, b, c, d)[2] = b
         /\ Bytes(a, b, c, d)[3] = c /\ Bytes(a, b, c, d)[4] = d
BY SMT DEF Bytes

LEMMA SameBytes ==
  ASSUME NEW ip \in Address
  PROVE  Bytes(ip[1], ip[2], ip[3], ip[4]) = ip
<1>1. \A i \in 1 .. 4 : i = 1 \/ i = 2 \/ i = 3 \/ i = 4
  BY SMT
<1>2. \A i \in 1 .. 4 : Bytes(ip[1], ip[2], ip[3], ip[4])[i] = ip[i]
  BY <1>1, BytesOf
<1>3. QED
  BY <1>2, SMT DEF Bytes, Address

(* htonl puts the most significant byte first.                             *)
LEMMA HtonlOfBytes ==
  ASSUME NEW a \in Byte, NEW b \in Byte, NEW c \in Byte, NEW d \in Byte
  PROVE  htonl(a * 16777216 + b * 65536 + c * 256 + d) = Bytes(a, b, c, d)
BY BytesOfWord DEF htonl

LEMMA HtonlKeepsTheWord ==
  ASSUME NEW v \in Word
  PROVE  htonl(v) \in Address /\ Rest(htonl(v), 0) = v
<1>1. htonl(v) \in Address
  BY WordOfBytes, SMT DEF htonl, Bytes, Address
<1>2. QED
  BY <1>1, WordOfBytes, BytesOf, SMT DEF htonl, Rest

-----------------------------------------------------------------------------
(* Texts.                                                                  *)

LEMMA OneEnd ==
  ASSUME NEW text \in Text, NEW m \in 0 .. 3, NEW n \in 0 .. 3,
         GotEnd(text, m), GotEnd(text, n)
  PROVE  m = n
<1>1. ASSUME NEW k \in 0 .. 3, NEW l \in 0 .. 3, k < l, GotEnd(text, k), GotEnd(text, l)
      PROVE  FALSE
  <2>1. k + 1 \in 1 .. l
    BY <1>1, SMT
  <2>2. text[k + 1].next = "." /\ text[k + 1].next \in {"NUL", "space"}
    BY <1>1, <2>1 DEF GotEnd
  <2>3. QED
    BY <2>2, SMT
<1>2. m < n \/ n < m \/ m = n
  BY SMT
<1>3. QED
  BY <1>1, <1>2

LEMMA PrintedEnds ==
  ASSUME NEW ip \in Address
  PROVE  /\ Printed(ip) \in Text
         /\ GotEnd(Printed(ip), 3)
         /\ \A i \in 1 .. 4 : Printed(ip)[i].number = ip[i] /\ ip[i] \in Byte
<1>1. \A i \in 1 .. 4 : ip[i] \in Byte
  BY SMT DEF Address
<1>2. \A i \in 1 .. 4 : Printed(ip)[i].number = ip[i]
  BY SMT DEF Printed
<1>3. DOMAIN Printed(ip) = 1 .. 4
  BY DEF Printed
<1>4. \A b \in Byte : b \in Word /\ b # NoNumber /\ b # ULONG_MAX
  BY SMT DEF Byte, Word, ULONG_MAX, NoNumber
<1>5. Printed(ip) \in [1 .. 4 -> Item]
  BY <1>1, <1>4, SMT DEF Printed, Item
<1>6. Printed(ip) \in Text
  BY <1>5, SMT DEF Text
<1>7. \A i \in 1 .. 3 : Printed(ip)[i].next = "."
  BY SMT DEF Printed
<1>8. Printed(ip)[4].next = "NUL"
  BY SMT DEF Printed
<1>9. GotEnd(Printed(ip), 3)
  <2>1. 3 + 1 = 4 /\ 4 \in 1 .. 4
    BY SMT
  <2>2. QED
    BY <2>1, <1>1, <1>2, <1>3, <1>4, <1>7, <1>8 DEF GotEnd
<1>10. QED
  BY <1>1, <1>2, <1>6, <1>9

(* The cases of inet_aton.                                                 *)
LEMMA InetAton0 ==
  ASSUME NEW text \in Text, GotEnd(text, 0)
  PROVE  inet_aton(text) = htonl(text[1].number)
<1>1. ~GotEnd(text, 1) /\ ~GotEnd(text, 2) /\ ~GotEnd(text, 3)
  BY OneEnd, SMT
<1>2. QED
  BY <1>1 DEF inet_aton

LEMMA InetAton1 ==
  ASSUME NEW text \in Text, GotEnd(text, 1)
  PROVE  inet_aton(text) =
           IF text[2].number <= 16777215 /\ text[1].number <= 255
           THEN htonl(text[1].number * 16777216 + text[2].number)
           ELSE Rejected
<1>1. ~GotEnd(text, 0) /\ ~GotEnd(text, 2) /\ ~GotEnd(text, 3)
  BY OneEnd, SMT
<1>2. QED
  BY <1>1 DEF inet_aton

LEMMA InetAton2 ==
  ASSUME NEW text \in Text, GotEnd(text, 2)
  PROVE  inet_aton(text) =
           IF text[3].number <= 65535 /\ text[1].number <= 255 /\ text[2].number <= 255
           THEN htonl(text[1].number * 16777216 + text[2].number * 65536 + text[3].number)
           ELSE Rejected
<1>1. ~GotEnd(text, 0) /\ ~GotEnd(text, 1) /\ ~GotEnd(text, 3)
  BY OneEnd, SMT
<1>2. QED
  BY <1>1 DEF inet_aton

LEMMA InetAton3 ==
  ASSUME NEW text \in Text, GotEnd(text, 3)
  PROVE  inet_aton(text) =
           IF \A i \in 1 .. 4 : text[i].number <= 255
           THEN htonl(text[1].number * 16777216 + text[2].number * 65536
                        + text[3].number * 256 + text[4].number)
           ELSE Rejected
<1>1. ~GotEnd(text, 0) /\ ~GotEnd(text, 1) /\ ~GotEnd(text, 2)
  BY OneEnd, SMT
<1>2. QED
  BY <1>1 DEF inet_aton

-----------------------------------------------------------------------------

(* Printing an address and parsing the text is the identity: connect() is  *)
(* given the bytes the core has stored.                                    *)
THEOREM PrintedIsParsed ==
  ASSUME NEW ip \in Address
  PROVE  remote_addr(ip) = ip /\ relay_serv_addr(ip) = ip
<1> DEFINE text == Printed(ip)
<1>1. text \in Text /\ GotEnd(text, 3)
  BY PrintedEnds
<1>2. \A i \in 1 .. 4 : text[i].number = ip[i] /\ ip[i] \in Byte
  BY PrintedEnds
<1>3. ip[1] \in Byte /\ ip[2] \in Byte /\ ip[3] \in Byte /\ ip[4] \in Byte
  BY <1>2, SMT
<1>4. \A i \in 1 .. 4 : text[i].number <= 255
  BY <1>2, SMT DEF Byte
<1>5. /\ text[1].number = ip[1] /\ text[2].number = ip[2]
      /\ text[3].number = ip[3] /\ text[4].number = ip[4]
  BY <1>2, SMT
<1> HIDE DEF text
<1>6. inet_aton(text) = htonl(ip[1] * 16777216 + ip[2] * 65536 + ip[3] * 256 + ip[4])
  BY <1>1, <1>4, <1>5, InetAton3
<1>7. inet_aton(text) = ip
  BY <1>3, <1>6, HtonlOfBytes, SameBytes
<1>8. QED
  BY <1>7 DEF remote_addr, relay_serv_addr, text

(* The address an advert came from, as it lies in memory, is the address   *)
(* that a connection to its sender is opened to: no byte order is lost     *)
(* between read_wish_local_discovery and wish_open_connection.             *)
THEOREM AdvertSenderIsReached ==
  ASSUME NEW s_addr \in Address
  PROVE  remote_addr(read_wish_local_discovery(s_addr)) = s_addr
<1>1. read_wish_local_discovery(s_addr) = s_addr
  BY SMT DEF read_wish_local_discovery, Address
<1>2. QED
  BY <1>1, PrintedIsParsed

(* What wish_get_host_ip_str prints is the board's address: whoever parses *)
(* the text gets the driver's word in network byte order.                  *)
THEOREM HostAddressIsPrinted ==
  ASSUME NEW ipV4 \in Word
  PROVE  inet_aton(wish_get_host_ip_str(ipV4)) = htonl(ipV4)
<1> DEFINE ip == [i \in 1 .. 4 |-> NetworkConfig_Ipv4Byte(ipV4, 4 - i)]
<1>1. ipV4 # NoSettings
  BY SMT DEF Word, NoSettings
<1>2. /\ NetworkConfig_Ipv4Byte(ipV4, 3) = ipV4 \div 16777216
      /\ NetworkConfig_Ipv4Byte(ipV4, 2) = (ipV4 \div 65536) % 256
      /\ NetworkConfig_Ipv4Byte(ipV4, 1) = (ipV4 \div 256) % 256
      /\ NetworkConfig_Ipv4Byte(ipV4, 0) = ipV4 % 256
  BY SMT DEF NetworkConfig_Ipv4Byte
<1>3. /\ ip[1] = ipV4 \div 16777216 /\ ip[2] = (ipV4 \div 65536) % 256
      /\ ip[3] = (ipV4 \div 256) % 256 /\ ip[4] = ipV4 % 256
  <2>1. /\ ip[1] = NetworkConfig_Ipv4Byte(ipV4, 3) /\ ip[2] = NetworkConfig_Ipv4Byte(ipV4, 2)
        /\ ip[3] = NetworkConfig_Ipv4Byte(ipV4, 1) /\ ip[4] = NetworkConfig_Ipv4Byte(ipV4, 0)
    BY SMT
  <2>2. QED
    BY <2>1, <1>2
<1>4. ip = htonl(ipV4)
  <2>1. \A i \in 1 .. 4 : i = 1 \/ i = 2 \/ i = 3 \/ i = 4
    BY SMT
  <2>2. /\ htonl(ipV4)[1] = ip[1] /\ htonl(ipV4)[2] = ip[2]
        /\ htonl(ipV4)[3] = ip[3] /\ htonl(ipV4)[4] = ip[4]
    BY <1>3, BytesOf DEF htonl
  <2>3. DOMAIN htonl(ipV4) = 1 .. 4 /\ htonl(ipV4) = [i \in 1 .. 4 |-> htonl(ipV4)[i]]
    BY SMT DEF htonl, Bytes
  <2>4. QED
    BY <2>1, <2>2, <2>3
<1>5. htonl(ipV4) \in Address
  BY HtonlKeepsTheWord
<1>6. wish_get_host_ip_str(ipV4) = Printed(ip)
  BY <1>1 DEF wish_get_host_ip_str
<1>7. QED
  BY <1>4, <1>5, <1>6, PrintedIsParsed DEF remote_addr

(* Adverts are broadcast: the text in wish_send_advertizement is parsed,   *)
(* and no byte of the address is below 255.                                *)
THEOREM AdvertsAreBroadcast ==
  wish_send_advertizement = Bytes(255, 255, 255, 255)
<1>1. 255 \in Byte
  BY SMT DEF Byte
<1>2. Bytes(255, 255, 255, 255) \in Address
  BY <1>1, SMT DEF Bytes, Address
<1>3. QED
  BY <1>2, PrintedIsParsed DEF remote_addr, wish_send_advertizement

(* The bytes of a number that leaves room for the leading ones.            *)
LEMMA HasBytes ==
  ASSUME NEW v \in Word
  PROVE  \E a, b, c, d \in Byte : v = NetworkConfig_Ipv4Value(a, b, c, d)
<1> DEFINE a == v \div 16777216
           b == (v \div 65536) % 256
           c == (v \div 256) % 256
           d == v % 256
<1>1. /\ a \in Byte /\ b \in Byte /\ c \in Byte /\ d \in Byte
      /\ v = NetworkConfig_Ipv4Value(a, b, c, d)
  BY WordOfBytes, SMT DEF NetworkConfig_Ipv4Value
<1> HIDE DEF a, b, c, d
<1>2. QED
  BY <1>1

LEMMA LowBytes ==
  ASSUME NEW v \in Word,
         NEW a \in Byte, NEW b \in Byte, NEW c \in Byte, NEW d \in Byte,
         v = NetworkConfig_Ipv4Value(a, b, c, d)
  PROVE  /\ v <= 16777215 => a = 0 /\ v = b * 65536 + c * 256 + d
         /\ v <= 65535 => b = 0 /\ v = c * 256 + d
         /\ v <= 255 => c = 0 /\ v = d
<1>1. /\ a \in Int /\ 0 <= a /\ b \in Int /\ 0 <= b
      /\ c \in Int /\ 0 <= c /\ d \in Int /\ 0 <= d
  BY SMT DEF Byte
<1>2. v = a * 16777216 + b * 65536 + c * 256 + d
  BY SMT DEF NetworkConfig_Ipv4Value
<1>3. v <= 16777215 => a = 0 /\ v = b * 65536 + c * 256 + d
  BY <1>1, <1>2, SMT
<1>4. v <= 65535 => b = 0 /\ v = c * 256 + d
  BY <1>1, <1>2, SMT
<1>5. v <= 255 => c = 0 /\ v = d
  BY <1>1, <1>2, SMT
<1>6. QED
  BY <1>3, <1>4, <1>5, SMT

LEMMA NumbersRead ==
  ASSUME NEW text \in Text, NEW n \in 0 .. 3, GotEnd(text, n), NEW i \in 1 .. n + 1
  PROVE  text[i].number \in Word
<1>1. PICK k \in Nat \ {0} : text \in [1 .. k -> Item]
  BY SMT DEF Text
<1>2. n + 1 \in 1 .. k /\ text[i].number # NoNumber
  BY <1>1, SMT DEF GotEnd
<1>3. i \in 1 .. k
  BY <1>1, <1>2, SMT
<1>4. text[i] \in Item
  BY <1>1, <1>3, SMT
<1>5. QED
  BY <1>2, <1>4, SMT DEF Item

(* What the last number may be after n dots; strtoul's largest value is    *)
(* taken for an error.                                                     *)
Largest(n) ==
  IF n = 0 THEN ULONG_MAX - 1
  ELSE IF n = 1 THEN 16777215 ELSE IF n = 2 THEN 65535 ELSE 255

(* A text that ends after its nth dot and the number that follows is       *)
(* accepted exactly when the first n numbers fit a byte each and the last  *)
(* one the bytes that remain; the address then has them in that order, as  *)
(* in the class A, B and C notation inet_aton.c describes.                 *)
THEOREM InetAtonMeaning ==
  ASSUME NEW text \in Text, NEW n \in 0 .. 3, GotEnd(text, n)
  PROVE  IF (\A i \in 1 .. n : text[i].number <= 255) /\ text[n + 1].number <= Largest(n)
         THEN /\ inet_aton(text) \in Address
              /\ \A i \in 1 .. n : inet_aton(text)[i] = text[i].number
              /\ Rest(inet_aton(text), n) = text[n + 1].number
         ELSE inet_aton(text) = Rejected
<1>1. \A i \in 1 .. n + 1 : text[i].number \in Word
  BY NumbersRead, SMT
<1>2. \A v \in Word : v <= 255 => v \in Byte
  BY SMT DEF Word, Byte
<1>3. \A a, b, c, d \in Byte : Bytes(a, b, c, d) \in Address
  BY SMT DEF Bytes, Address
<1>4. 0 \in Byte
  BY SMT DEF Byte
<1>5. CASE n = 0
  <2>1. text[1].number \in Word /\ text[1].number <= ULONG_MAX - 1
    <3>1. text[1].number \in Word /\ text[1].number # ULONG_MAX
      BY <1>1, <1>5, SMT DEF GotEnd
    <3>2. QED
      BY <3>1, SMT DEF Word, ULONG_MAX
  <2>2. inet_aton(text) = htonl(text[1].number)
    BY <1>5, InetAton0, SMT
  <2>3. inet_aton(text) \in Address /\ Rest(inet_aton(text), 0) = text[1].number
    BY <2>1, <2>2, HtonlKeepsTheWord, SMT
  <2>4. n + 1 = 1 /\ 1 .. n = {} /\ Largest(n) = ULONG_MAX - 1
    BY <1>5, SMT DEF Largest
  <2>5. QED
    BY <1>5, <2>1, <2>3, <2>4, SMT
<1>6. CASE n = 1
  <2>1. text[1].number \in Word /\ text[2].number \in Word
    BY <1>1, <1>6, SMT
  <2>2. n + 1 = 2 /\ 1 .. n = {1} /\ Largest(n) = 16777215
    BY <1>6, SMT DEF Largest
  <2>3. ASSUME text[1].number <= 255, text[2].number <= 16777215
        PROVE  \E a, b, c, d \in Byte :
                 /\ inet_aton(text) = Bytes(a, b, c, d) /\ a = text[1].number
                 /\ b * 65536 + c * 256 + d = text[2].number
    <3>1. PICK z \in Byte, b \in Byte, c \in Byte, d \in Byte :
                 text[2].number = NetworkConfig_Ipv4Value(z, b, c, d)
      BY <2>1, HasBytes
    <3>2. PICK a \in Byte : a = text[1].number
      BY <1>2, <2>1, <2>3, SMT
    <3>3. b \in Int /\ c \in Int /\ d \in Int /\ a \in Int
      BY SMT DEF Byte
    <3>4. text[2].number = b * 65536 + c * 256 + d
      BY <2>1, <2>3, <3>1, LowBytes, SMT
    <3>5. inet_aton(text) = htonl(text[1].number * 16777216 + text[2].number)
      BY <1>6, <2>3, InetAton1, SMT
    <3>6. text[1].number * 16777216 + text[2].number = a * 16777216 + b * 65536 + c * 256 + d
      BY <3>2, <3>3, <3>4, SMT
    <3>7. QED
      BY <3>2, <3>4, <3>5, <3>6, HtonlOfBytes, SMT
  <2>4. CASE text[1].number <= 255 /\ text[2].number <= 16777215
    <3>1. /\ inet_aton(text) \in Address /\ inet_aton(text)[1] = text[1].number
          /\ Rest(inet_aton(text), 1) = text[2].number
      BY <1>3, <2>3, <2>4, BytesOf, SMT DEF Rest
    <3>2. QED
      BY <1>6, <2>2, <2>4, <3>1, SMT
  <2>5. CASE ~(text[1].number <= 255 /\ text[2].number <= 16777215)
    <3>1. inet_aton(text) = Rejected
      BY <1>6, <2>5, InetAton1, SMT
    <3>2. QED
      BY <2>2, <2>5, <3>1, SMT
  <2>6. QED
    BY <2>4, <2>5, SMT
<1>7. CASE n = 2
  <2>1. text[1].number \in Word /\ text[2].number \in Word /\ text[3].number \in Word
    BY <1>1, <1>7, SMT
  <2>2. n + 1 = 3 /\ 1 .. n = {1, 2} /\ Largest(n) = 65535
    BY <1>7, SMT DEF Largest
  <2>3. ASSUME text[1].number <= 255, text[2].number <= 255, text[3].number <= 65535
        PROVE  \E a, b, c, d \in Byte :
                 /\ inet_aton(text) = Bytes(a, b, c, d)
                 /\ a = text[1].number /\ b = text[2].number
                 /\ c * 256 + d = text[3].number
    <3>1. PICK z \in Byte, y \in Byte, c \in Byte, d \in Byte :
                 text[3].number = NetworkConfig_Ipv4Value(z, y, c, d)
      BY <2>1, HasBytes
    <3>3. PICK a \in Byte, b \in Byte : a = text[1].number /\ b = text[2].number
      BY <1>2, <2>1, <2>3, SMT
    <3>4. b \in Int /\ c \in Int /\ d \in Int /\ a \in Int
      BY SMT DEF Byte
    <3>5. text[3].number = c * 256 + d
      BY <2>1, <2>3, <3>1, LowBytes, SMT
    <3>6. inet_aton(text) =
            htonl(text[1].number * 16777216 + text[2].number * 65536 + text[3].number)
      BY <1>7, <2>3, InetAton2, SMT
    <3>7. text[1].number * 16777216 + text[2].number * 65536 + text[3].number
            = a * 16777216 + b * 65536 + c * 256 + d
      BY <3>3, <3>4, <3>5, SMT
    <3>8. QED
      BY <3>3, <3>5, <3>6, <3>7, HtonlOfBytes, SMT
  <2>4. CASE text[1].number <= 255 /\ text[2].number <= 255 /\ text[3].number <= 65535
    <3>1. /\ inet_aton(text) \in Address
          /\ inet_aton(text)[1] = text[1].number /\ inet_aton(text)[2] = text[2].number
          /\ Rest(inet_aton(text), 2) = text[3].number
      BY <1>3, <2>3, <2>4, BytesOf, SMT DEF Rest
    <3>2. QED
      BY <1>7, <2>2, <2>4, <3>1, SMT
  <2>5. CASE ~(text[1].number <= 255 /\ text[2].number <= 255 /\ text[3].number <= 65535)
    <3>1. inet_aton(text) = Rejected
      BY <1>7, <2>5, InetAton2, SMT
    <3>2. QED
      BY <2>2, <2>5, <3>1, SMT
  <2>6. QED
    BY <2>4, <2>5, SMT
<1>8. CASE n = 3
  <2>1. /\ text[1].number \in Word /\ text[2].number \in Word
        /\ text[3].number \in Word /\ text[4].number \in Word
    BY <1>1, <1>8, SMT
  <2>2. n + 1 = 4 /\ 1 .. n = {1, 2, 3} /\ Largest(n) = 255
    BY <1>8, SMT DEF Largest
  <2>3. (\A i \in 1 .. 4 : text[i].number <= 255) <=>
          ((\A i \in 1 .. n : text[i].number <= 255) /\ text[n + 1].number <= Largest(n))
    <3>1. 1 .. 4 = {1, 2, 3, 4}
      BY SMT
    <3>2. QED
      BY <2>2, <3>1, SMT
  <2>4. CASE \A i \in 1 .. 4 : text[i].number <= 255
    <3>1. PICK a \in Byte, b \in Byte, c \in Byte, d \in Byte :
                 /\ a = text[1].number /\ b = text[2].number
                 /\ c = text[3].number /\ d = text[4].number
      <4>1. 1 \in 1 .. 4 /\ 2 \in 1 .. 4 /\ 3 \in 1 .. 4 /\ 4 \in 1 .. 4
        BY SMT
      <4>2. QED
        BY <1>2, <2>1, <2>4, <4>1, SMT
    <3>2. inet_aton(text) = htonl(a * 16777216 + b * 65536 + c * 256 + d)
      BY <1>8, <2>4, <3>1, InetAton3, SMT
    <3>3. inet_aton(text) = Bytes(a, b, c, d)
      BY <3>2, HtonlOfBytes, SMT
    <3>4. /\ inet_aton(text) \in Address
          /\ inet_aton(text)[1] = a /\ inet_aton(text)[2] = b
          /\ inet_aton(text)[3] = c /\ Rest(inet_aton(text), 3) = d
      BY <1>3, <3>3, BytesOf, SMT DEF Rest
    <3>5. QED
      BY <1>8, <2>2, <2>3, <2>4, <3>1, <3>4, SMT
  <2>5. CASE ~(\A i \in 1 .. 4 : text[i].number <= 255)
    <3>1. inet_aton(text) = Rejected
      BY <1>8, <2>5, InetAton3, SMT
    <3>2. QED
      BY <2>3, <2>5, <3>1, SMT
  <2>6. QED
    BY <2>4, <2>5, SMT
<1>9. QED
  <2>1. n = 0 \/ n = 1 \/ n = 2 \/ n = 3
    BY SMT
  <2>2. QED
    BY <2>1, <1>5, <1>6, <1>7, <1>8, SMT

LEMMA TwoBytesKept ==
  ASSUME NEW w \in Nat, NEW c \in 0 .. 255, NEW d \in 0 .. 255,
         (w \div 256) % 256 = c, w % 256 = d
  PROVE  InMemory(htons(w)) = Bytes(c, d, 0, 0)
<1>1. PICK h \in Nat : h = d * 256 + c
  BY SMT
<1>2. htons(w) = h
  BY <1>1, SMT DEF htons
<1>3. h \div 256 = d /\ h % 256 = c
  BY <1>1, SMT
<1>4. d \div 256 = 0 /\ d % 256 = d /\ 0 \div 256 = 0
  BY SMT
<1>5. h \div 65536 = 0 /\ h \div 16777216 = 0
  BY <1>1, <1>3, <1>4, Divisions, SMT
<1>6. 0 % 256 = 0
  BY SMT
<1>7. QED
  BY <1>2, <1>3, <1>4, <1>5, <1>6, SMT DEF InMemory

(* port_main computes the address of a relay's second connect() with the   *)
(* driver's macro and htons, which keeps 16 of the 32 bits: the address is *)
(* the one the first call was given only if that was 0.0.0.0.              *)
THEOREM SecondAddressDiffers ==
  ASSUME NEW ip \in Address, repeated_serv_addr(ip) = relay_serv_addr(ip)
  PROVE  ip = Bytes(0, 0, 0, 0)
<1>1. ip[1] \in Byte /\ ip[2] \in Byte /\ ip[3] \in Byte /\ ip[4] \in Byte
  BY SMT DEF Address
<1>2. PICK w \in Word : /\ w = NetworkConfig_Ipv4Value(ip[1], ip[2], ip[3], ip[4])
                        /\ (w \div 256) % 256 = ip[3] /\ w % 256 = ip[4]
  BY <1>1, BytesOfWord, SMT DEF NetworkConfig_Ipv4Value
<1>3. w \in Nat
  BY SMT DEF Word
<1>4. repeated_serv_addr(ip) = Bytes(ip[3], ip[4], 0, 0)
  <2>1. ip[3] \in 0 .. 255 /\ ip[4] \in 0 .. 255
    BY <1>1 DEF Byte
  <2>2. InMemory(htons(w)) = Bytes(ip[3], ip[4], 0, 0)
    BY <1>2, <1>3, <2>1, TwoBytesKept
  <2>3. QED
    BY <1>2, <2>2 DEF repeated_serv_addr
<1>5. ip = Bytes(ip[3], ip[4], 0, 0)
  <2>1. relay_serv_addr(ip) = ip
    BY PrintedIsParsed
  <2>2. QED
    BY <1>4, <2>1
<1>6. ip[3] = 0 /\ ip[4] = 0
  BY <1>5, BytesOf, SMT
<1>7. QED
  BY <1>5, <1>6, SMT

-----------------------------------------------------------------------------
(* The layout of the flash (spiffs_integration.c). *)

(***************************************************************************)
(* The file system ends where the flash ends, and erasing a block erases   *)
(* this block only: its size and place are whole pages whatever the page   *)
(* size, so that the division loses nothing and neither the program below  *)
(* 0xFC000 nor another block is touched (spiffs_integration.c:38-46, 54-   *)
(* 65).                                                                    *)
(***************************************************************************)
THEOREM BlockIsErased ==
  ASSUME NEW page \in PageSizes, NEW b \in Blocks(page)
  PROVE  LET cfg == my_spiffs_mount(page)
         IN  /\ my_spiffs_erase(page, cfg.phys_addr + b * cfg.log_block_size,
                                cfg.phys_erase_block) = Block(page, b)
             /\ Block(page, b) \subseteq Area
             /\ cfg.phys_addr + cfg.phys_size = FlashSize
<1>1. b \in Int /\ 0 <= b
  BY SMT DEF Blocks
<1>2. CASE page = 512
  <2>1. b < 32
    BY <1>2, SMT DEF Blocks, SPIFFS_SIZE
  <2>2. /\ 512 \div 512 = 1
        /\ (1032192 + b * 512) \div 512 = 2016 + b
    BY <1>1, SMT
  <2>3. \A a \in Nat :
          (/\ a < 1048576
           /\ 2016 + b <= a \div 512
           /\ a \div 512 < 2016 + b + 1)
          <=> (/\ 1032192 + b * 512 <= a
               /\ a < 1032192 + (b + 1) * 512)
    BY <1>1, <2>1, SMT
  <2>4. \A a \in Nat : a < 1032192 + (b + 1) * 512 => a < 1048576
    BY <1>1, <2>1, SMT
  <2> QED
    BY <1>1, <1>2, <2>2, <2>3, <2>4, SMT
    DEF my_spiffs_mount, my_spiffs_erase, MCU_Flash_Erase, Block, Area,
        FlashSize, SPIFFS_FLASH_ADDR, SPIFFS_SIZE
<1>3. CASE page = 1024
  <2>1. b < 16
    BY <1>3, SMT DEF Blocks, SPIFFS_SIZE
  <2>2. /\ 1024 \div 1024 = 1
        /\ (1032192 + b * 1024) \div 1024 = 1008 + b
    BY <1>1, SMT
  <2>3. \A a \in Nat :
          (/\ a < 1048576
           /\ 1008 + b <= a \div 1024
           /\ a \div 1024 < 1008 + b + 1)
          <=> (/\ 1032192 + b * 1024 <= a
               /\ a < 1032192 + (b + 1) * 1024)
    BY <1>1, <2>1, SMT
  <2>4. \A a \in Nat : a < 1032192 + (b + 1) * 1024 => a < 1048576
    BY <1>1, <2>1, SMT
  <2> QED
    BY <1>1, <1>3, <2>2, <2>3, <2>4, SMT
    DEF my_spiffs_mount, my_spiffs_erase, MCU_Flash_Erase, Block, Area,
        FlashSize, SPIFFS_FLASH_ADDR, SPIFFS_SIZE
<1>4. CASE page = 2048
  <2>1. b < 8
    BY <1>4, SMT DEF Blocks, SPIFFS_SIZE
  <2>2. /\ 2048 \div 2048 = 1
        /\ (1032192 + b * 2048) \div 2048 = 504 + b
    BY <1>1, SMT
  <2>3. \A a \in Nat :
          (/\ a < 1048576
           /\ 504 + b <= a \div 2048
           /\ a \div 2048 < 504 + b + 1)
          <=> (/\ 1032192 + b * 2048 <= a
               /\ a < 1032192 + (b + 1) * 2048)
    BY <1>1, <2>1, SMT
  <2>4. \A a \in Nat : a < 1032192 + (b + 1) * 2048 => a < 1048576
    BY <1>1, <2>1, SMT
  <2> QED
    BY <1>1, <1>4, <2>2, <2>3, <2>4, SMT
    DEF my_spiffs_mount, my_spiffs_erase, MCU_Flash_Erase, Block, Area,
        FlashSize, SPIFFS_FLASH_ADDR, SPIFFS_SIZE
<1>5. CASE page = 4096
  <2>1. b < 4
    BY <1>5, SMT DEF Blocks, SPIFFS_SIZE
  <2>2. /\ 4096 \div 4096 = 1
        /\ (1032192 + b * 4096) \div 4096 = 252 + b
    BY <1>1, SMT
  <2>3. \A a \in Nat :
          (/\ a < 1048576
           /\ 252 + b <= a \div 4096
           /\ a \div 4096 < 252 + b + 1)
          <=> (/\ 1032192 + b * 4096 <= a
               /\ a < 1032192 + (b + 1) * 4096)
    BY <1>1, <2>1, SMT
  <2>4. \A a \in Nat : a < 1032192 + (b + 1) * 4096 => a < 1048576
    BY <1>1, <2>1, SMT
  <2> QED
    BY <1>1, <1>5, <2>2, <2>3, <2>4, SMT
    DEF my_spiffs_mount, my_spiffs_erase, MCU_Flash_Erase, Block, Area,
        FlashSize, SPIFFS_FLASH_ADDR, SPIFFS_SIZE
<1> QED
  BY <1>2, <1>3, <1>4, <1>5 DEF PageSizes

(***************************************************************************)
(* my_spiffs_erase_area erases the file system, all of it, and nothing     *)
(* else (spiffs_integration.c:119-126).                                    *)
(***************************************************************************)
THEOREM AreaIsErased ==
  ASSUME NEW page \in PageSizes
  PROVE  my_spiffs_erase_area(page) = Area
BY SMT
  DEF my_spiffs_erase_area, my_spiffs_erase, MCU_Flash_Erase, Area, PageSizes,
      FlashSize, SPIFFS_FLASH_ADDR, SPIFFS_SIZE

(***************************************************************************)
(* The types of SPIFFS's indices hold what spiffs_config.h:357-375 says    *)
(* they must, and the sizes respect its other limits (spiffs_config.h:162, *)
(* 172-174), for every page size; the constants are in different files and *)
(* no assertion of the build compares them.                                *)
(***************************************************************************)
THEOREM ConfigurationFits ==
  ASSUME NEW page \in PageSizes
  PROVE  LET cfg == my_spiffs_mount(page)
             pages == cfg.phys_size \div cfg.log_page_size
         IN  /\ cfg.phys_size \div cfg.log_block_size <= U16_MAX
             /\ pages <= U16_MAX
             /\ 2 + (cfg.phys_size \div (2 * cfg.log_page_size)) * 2 <= U16_MAX \div 2
             /\ pages - 1 <= U16_MAX
             /\ cfg.log_block_size % cfg.log_page_size = 0
             /\ SPIFFS_OBJ_META_LEN
                  <= cfg.log_page_size - (SPIFFS_OBJ_NAME_LEN + 64)
             /\ SPIFFS_COPY_BUFFER_STACK <= cfg.log_page_size
BY SMT
DEF my_spiffs_mount, PageSizes, SPIFFS_SIZE, SPIFFS_FLASH_ADDR, LOG_PAGE_SIZE,
    U16_MAX, SPIFFS_OBJ_META_LEN, SPIFFS_OBJ_NAME_LEN, SPIFFS_COPY_BUFFER_STACK

-----------------------------------------------------------------------------
(* The difference of two times (time_helper.c). *)

LEMMA CarryIsExact ==
  ASSUME NEW y \in Timeval, NEW n \in Int
  PROVE  Carry(y, n) \in Timeval /\ Microseconds(Carry(y, n)) = Microseconds(y)
<1>1. y.sec \in Int /\ y.usec \in Int
  BY DEF Timeval
<1>2. /\ Carry(y, n).sec = y.sec + n
      /\ Carry(y, n).usec = y.usec - 1000000 * n
      /\ Carry(y, n) = [sec |-> y.sec + n, usec |-> y.usec - 1000000 * n]
  BY SMT DEF Carry, Million
<1>3. (y.sec + n) * 1000000 + (y.usec - 1000000 * n) = y.sec * 1000000 + y.usec
  BY <1>1, SMT
<1>4. y.sec + n \in Int /\ y.usec - 1000000 * n \in Int
  BY <1>1, SMT
<1> QED
  BY <1>2, <1>3, <1>4, SMT DEF Timeval, Microseconds, Million

LEMMA BorrowedIsY ==
  ASSUME NEW x \in Timeval, NEW y \in Timeval
  PROVE  /\ Borrowed(x, y) \in Timeval
         /\ Microseconds(Borrowed(x, y)) = Microseconds(y)
         /\ Borrowed(x, y).usec <= x.usec
         /\ x.usec < y.usec => x.usec - Borrowed(x, y).usec <= 1000000
         /\ x.usec >= y.usec => Borrowed(x, y) = y
<1> DEFINE n == (y.usec - x.usec) \div 1000000 + 1
<1>1. x.usec \in Int /\ y.usec \in Int
  BY DEF Timeval
<1>2. CASE x.usec < y.usec
  <2>1. /\ n \in Int
        /\ y.usec - 1000000 * n <= x.usec
        /\ x.usec - (y.usec - 1000000 * n) <= 1000000
    BY <1>1, <1>2, SMT
  <2>2. Borrowed(x, y) = Carry(y, n)
    BY <1>2, SMT DEF Borrowed, Million
  <2>3. Carry(y, n).usec = y.usec - 1000000 * n
    BY SMT DEF Carry, Million
  <2> HIDE DEF n
  <2> QED
    BY <1>1, <1>2, <2>1, <2>2, <2>3, CarryIsExact, SMT
<1>3. CASE x.usec >= y.usec
  BY <1>1, <1>3, SMT DEF Borrowed
<1> QED
  BY <1>1, <1>2, <1>3, SMT

LEMMA BalancedIsY ==
  ASSUME NEW x \in Timeval, NEW y \in Timeval, y.usec <= x.usec
  PROVE  /\ Balanced(x, y) \in Timeval
         /\ Microseconds(Balanced(x, y)) = Microseconds(y)
         /\ Balanced(x, y).usec <= x.usec
         /\ x.usec - Balanced(x, y).usec <= 1000000
         /\ x.usec - y.usec <= 1000000 => Balanced(x, y) = y
<1> DEFINE n == -((x.usec - y.usec) \div 1000000)
<1>1. x.usec \in Int /\ y.usec \in Int
  BY DEF Timeval
<1>2. CASE x.usec - y.usec > 1000000
  <2>1. /\ n \in Int
        /\ y.usec - 1000000 * n <= x.usec
        /\ x.usec - (y.usec - 1000000 * n) <= 1000000
    BY <1>1, <1>2, SMT
  <2>2. Balanced(x, y) = Carry(y, n)
    BY <1>2, SMT DEF Balanced, Million
  <2>3. Carry(y, n).usec = y.usec - 1000000 * n
    BY SMT DEF Carry, Million
  <2> HIDE DEF n
  <2> QED
    BY <1>1, <1>2, <2>1, <2>2, <2>3, CarryIsExact, SMT
<1>3. CASE x.usec - y.usec <= 1000000
  BY <1>1, <1>3, SMT DEF Balanced, Million
<1> QED
  BY <1>1, <1>2, <1>3, SMT

(***************************************************************************)
(* The difference is exact for every two times, negative ones included,    *)
(* and however many microseconds they have (time_helper.c:15-29).  Its     *)
(* microseconds are never negative and at most a million: of a difference  *)
(* of whole seconds, one may be left among them.                           *)
(***************************************************************************)
THEOREM DifferenceIsExact ==
  ASSUME NEW x \in Timeval, NEW y \in Timeval
  PROVE  LET d == timeval_subtract(x, y)
         IN  /\ Microseconds(d) = Microseconds(x) - Microseconds(y)
             /\ 0 <= d.usec /\ d.usec <= Million
<1> DEFINE b == Borrowed(x, y)
           z == Balanced(x, b)
           d == timeval_subtract(x, y)
<1>1. b \in Timeval /\ Microseconds(b) = Microseconds(y) /\ b.usec <= x.usec
  BY BorrowedIsY
<1>2. /\ z \in Timeval /\ Microseconds(z) = Microseconds(b)
      /\ z.usec <= x.usec /\ x.usec - z.usec <= 1000000
  BY <1>1, BalancedIsY
<1>3. d.sec = x.sec - z.sec /\ d.usec = x.usec - z.usec
  BY SMT DEF timeval_subtract
<1>4. /\ x.sec \in Int /\ x.usec \in Int /\ z.sec \in Int /\ z.usec \in Int
  BY <1>2 DEF Timeval
<1> HIDE DEF b, z, d
<1>5. /\ (x.sec - z.sec) * 1000000 + (x.usec - z.usec)
           = (x.sec * 1000000 + x.usec) - (z.sec * 1000000 + z.usec)
      /\ 0 <= x.usec - z.usec
  BY <1>2, <1>4, SMT
<1>6. Microseconds(d) = Microseconds(x) - Microseconds(z)
  BY <1>3, <1>5, SMT DEF Microseconds, Million
<1>7. Microseconds(d) = Microseconds(x) - Microseconds(y)
  BY <1>1, <1>2, <1>6
<1>8. 0 <= d.usec /\ d.usec <= Million
  BY <1>2, <1>3, <1>5, SMT DEF Million
<1> QED
  BY <1>7, <1>8 DEF d

(***************************************************************************)
(* Of two times as the system gives them the difference is one, too: its   *)
(* microseconds are less than a second ("tv_usec is certainly positive",   *)
(* time_helper.c:27), also when the seconds are negative.                  *)
(***************************************************************************)
THEOREM DifferenceIsNormal ==
  ASSUME NEW x \in Timeval, NEW y \in Timeval, Normal(x), Normal(y)
  PROVE  Normal(timeval_subtract(x, y))
<1>1. /\ x.usec \in Int /\ 0 <= x.usec /\ x.usec <= 999999
      /\ y.usec \in Int /\ 0 <= y.usec /\ y.usec <= 999999
  BY SMT DEF Timeval, Normal, Million
<1>2. CASE x.usec < y.usec
  <2>1. (y.usec - x.usec) \div 1000000 + 1 = 1
    BY <1>1, <1>2, SMT
  <2>2. Borrowed(x, y) = Carry(y, 1)
    BY <1>2, <2>1, SMT DEF Borrowed, Million
  <2>3. Carry(y, 1).usec = y.usec - 1000000
    BY <1>1, SMT DEF Carry, Million
  <2>4. ~(x.usec - Carry(y, 1).usec > 1000000)
    BY <1>1, <1>2, <2>3, SMT
  <2>5. Balanced(x, Borrowed(x, y)) = Carry(y, 1)
    BY <2>2, <2>4, SMT DEF Balanced, Million
  <2>6. timeval_subtract(x, y).usec = x.usec - (y.usec - 1000000)
    BY <2>3, <2>5, SMT DEF timeval_subtract
  <2> QED
    BY <1>1, <1>2, <2>6, SMT DEF Normal, Million
<1>3. CASE x.usec >= y.usec
  <2>1. Borrowed(x, y) = y
    BY <1>1, <1>3, SMT DEF Borrowed
  <2>2. Balanced(x, y) = y
    BY <1>1, <1>3, SMT DEF Balanced, Million
  <2>3. timeval_subtract(x, y).usec = x.usec - y.usec
    BY <2>1, <2>2, SMT DEF timeval_subtract
  <2> QED
    BY <1>1, <1>3, <2>3, SMT DEF Normal, Million
<1> QED
  BY <1>1, <1>2, <1>3, SMT

-----------------------------------------------------------------------------
(* The seconds of the main loop (port_main.c:356-394). *)

USE PeriodicAssumption

(* Each report is of another second. *)
ClockTypes == ClockTypeOK /\ reports <= periodic_timestamp

(* Until the counter wraps, the seconds lag the ticks by the work of one   *)
(* pass at most, and one report at most is due.                            *)
ClockCounts ==
  ~wrapped =>
    /\ sec_cnt * Second <= ticks
    /\ reports = periodic_timestamp
    /\ at = "clock" => /\ periodic_timestamp = sec_cnt
                       /\ ticks < (sec_cnt + 1) * Second + MaxWork
    /\ at = "work" => /\ periodic_timestamp \in {sec_cnt - 1, sec_cnt}
                      /\ ticks < (sec_cnt + 1) * Second

LEMMA MaxSecondsType == MaxSeconds \in Nat
BY Quotient DEF MaxSeconds

LEMMA Ticking ==
  ASSUME ClockTypeOK, NEW d \in Nat, TimePasses(d)
  PROVE  /\ ticks' \in 0 .. TickModulus - 1
         /\ ticks' \div Second \in 0 .. MaxSeconds
         /\ wrapped' \in BOOLEAN
         /\ ~wrapped' => ~wrapped /\ ticks' = ticks + d
<1>1. ticks \in Nat /\ ticks + d \in Nat
  BY DEF ClockTypeOK
<1>2. ticks' \in 0 .. TickModulus - 1
  BY <1>1, Quotient DEF TimePasses
<1>3. ticks' \div Second \in 0 .. MaxSeconds
  <2>1. ticks' \in Nat /\ TickModulus - 1 \in Nat /\ ticks' <= TickModulus - 1
    BY <1>2
  <2>2. ticks' \div Second <= MaxSeconds
    BY <2>1, QuotientMonotonic DEF MaxSeconds
  <2>3. ticks' \div Second \in Nat
    BY <2>1, Quotient
  <2>4. QED BY <2>2, <2>3, MaxSecondsType
<1>4. ~wrapped' => ~wrapped /\ ticks + d < TickModulus
  <2>1. wrapped' = (wrapped \/ ticks + d >= TickModulus)
    BY DEF TimePasses
  <2>2. wrapped \in BOOLEAN
    BY DEF ClockTypeOK
  <2>3. ~wrapped' => ~wrapped /\ ~(ticks + d >= TickModulus)
    BY <2>1, <2>2, Zenon
  <2>4. ~(ticks + d >= TickModulus) => ticks + d < TickModulus
    BY <1>1
  <2>5. QED BY <2>3, <2>4
<1>5. ticks + d < TickModulus => ticks' = ticks + d
  BY <1>1, Quotient DEF TimePasses
<1>6. wrapped' \in BOOLEAN
  BY DEF TimePasses, ClockTypeOK
<1>7. QED BY <1>2, <1>3, <1>4, <1>5, <1>6

LEMMA StepClockTypes == ClockTypes /\ [ClockNext]_clockVars => ClockTypes'
<1>1. ASSUME ClockTypes, NEW d \in 0 .. MaxWait, ReadClock(d) PROVE ClockTypes'
  <2>1. d \in Nat /\ MaxSeconds \in Nat
    BY MaxSecondsType
  <2>2. /\ ticks' \in 0 .. TickModulus - 1
        /\ ticks' \div Second \in 0 .. MaxSeconds
        /\ wrapped' \in BOOLEAN
    BY <1>1, <2>1, Ticking DEF ClockTypes, ReadClock
  <2>3. sec_cnt' \in 0 .. MaxSeconds /\ timestamp' \in {sec_cnt', timestamp}
    BY <1>1, <2>2 DEF ReadClock
  <2>4. QED BY <1>1, <2>2, <2>3 DEF ClockTypes, ClockTypeOK, ReadClock
<1>2. ASSUME ClockTypes, NEW d \in 0 .. MaxWork, PeriodicWork(d) PROVE ClockTypes'
  <2>1. d \in Nat /\ MaxSeconds \in Nat
    BY MaxSecondsType
  <2>2. /\ ticks' \in 0 .. TickModulus - 1
        /\ wrapped' \in BOOLEAN
    BY <1>2, <2>1, Ticking DEF ClockTypes, PeriodicWork
  <2>3. /\ periodic_timestamp' \in 0 .. MaxSeconds
        /\ reports' \in Nat /\ reports' <= periodic_timestamp'
    BY <1>2, <2>1 DEF ClockTypes, ClockTypeOK, PeriodicWork
  <2>4. QED BY <1>2, <2>1, <2>2, <2>3 DEF ClockTypes, ClockTypeOK, PeriodicWork
<1>3. ASSUME ClockTypes, UNCHANGED clockVars PROVE ClockTypes'
  BY <1>3 DEF ClockTypes, ClockTypeOK, clockVars
<1>4. QED BY <1>1, <1>2, <1>3 DEF ClockNext

LEMMA StepClockCounts ==
  ASSUME MaxWait + MaxWork <= Second
  PROVE  ClockTypes /\ ClockCounts /\ [ClockNext]_clockVars => ClockCounts'
<1>1. ASSUME ClockTypes, ClockCounts, NEW d \in 0 .. MaxWait, ReadClock(d), ~wrapped'
      PROVE  ClockCounts'
  <2>0. /\ d \in Nat /\ d <= MaxWait /\ sec_cnt \in Nat /\ ticks \in Nat
    BY <1>1 DEF ClockTypes, ClockTypeOK
  <2>1. ~wrapped /\ ticks' = ticks + d /\ at = "clock" /\ at' = "work"
    BY <1>1, <2>0, Ticking DEF ClockTypes, ReadClock
  <2>2. /\ sec_cnt * Second <= ticks'
        /\ ticks' < (sec_cnt + 1) * Second + (MaxWork + MaxWait)
    BY <1>1, <2>0, <2>1 DEF ClockCounts
  <2>3. ticks' < (sec_cnt + 2) * Second
    BY <2>0, <2>1, <2>2
  <2>4. sec_cnt' \in {sec_cnt, sec_cnt + 1}
    BY <1>1, <2>0, <2>1, <2>2, <2>3, QuotientAt DEF ReadClock
  <2>5. sec_cnt' * Second <= ticks' /\ ticks' < sec_cnt' * Second + Second
    <3>1. ticks' \in Nat /\ Second \in Nat \ {0}
      BY <2>0, <2>1
    <3>2. /\ (ticks' \div Second) * Second <= ticks'
          /\ ticks' < (ticks' \div Second) * Second + Second
      BY <3>1, Quotient
    <3>3. sec_cnt' = ticks' \div Second
      BY <1>1 DEF ReadClock
    <3>4. QED BY <3>2, <3>3
  <2>6. ticks' < (sec_cnt' + 1) * Second
    BY <2>0, <2>4, <2>5
  <2>7. QED
    BY <1>1, <2>0, <2>1, <2>4, <2>5, <2>6 DEF ClockCounts, ReadClock
<1>2. ASSUME ClockTypes, ClockCounts, NEW d \in 0 .. MaxWork, PeriodicWork(d), ~wrapped'
      PROVE  ClockCounts'
  <2>0. /\ d \in Nat /\ d <= MaxWork /\ sec_cnt \in Nat /\ ticks \in Nat
        /\ periodic_timestamp \in Nat
    BY <1>2 DEF ClockTypes, ClockTypeOK
  <2>1. ~wrapped /\ ticks' = ticks + d /\ at = "work" /\ at' = "clock"
        /\ sec_cnt' = sec_cnt
    BY <1>2, <2>0, Ticking DEF ClockTypes, PeriodicWork
  <2>2. periodic_timestamp' = sec_cnt /\ reports' = periodic_timestamp'
    BY <1>2, <2>0, <2>1 DEF ClockCounts, PeriodicWork
  <2>3. /\ sec_cnt * Second <= ticks'
        /\ ticks' < (sec_cnt + 1) * Second + MaxWork
    BY <1>2, <2>0, <2>1 DEF ClockCounts
  <2>4. QED BY <2>1, <2>2, <2>3 DEF ClockCounts
<1>3. ASSUME ClockCounts, UNCHANGED clockVars PROVE ClockCounts'
  BY <1>3 DEF ClockCounts, clockVars
<1>4. wrapped' => ClockCounts'
  BY DEF ClockCounts
<1>5. QED BY <1>1, <1>2, <1>3, <1>4 DEF ClockNext

LEMMA InitClock == ClockInit => ClockTypes /\ ClockCounts
<1>1. MaxSeconds \in Nat
  BY MaxSecondsType
<1>2. ClockInit => ClockTypeOK /\ reports <= periodic_timestamp
  <2>1. 0 \in 0 .. MaxSeconds /\ 0 \in 0 .. TickModulus - 1 /\ 0 <= 0
    BY <1>1
  <2>2. ClockInit => wrapped \in BOOLEAN
    BY Zenon DEF ClockInit
  <2>3. QED BY <2>1, <2>2 DEF ClockInit, ClockTypeOK
<1>3. ClockInit => ClockCounts
  <2>1. 0 * Second <= 0 /\ 0 < (0 + 1) * Second + MaxWork
    OBVIOUS
  <2>2. QED BY <2>1 DEF ClockInit, ClockCounts
<1>4. QED BY <1>2, <1>3 DEF ClockTypes

(* Every variable of the clock keeps its type; in particular the core's    *)
(* second is reported at most MaxSeconds times in all, however long the    *)
(* board runs: after the tick counter has wrapped the reports run out.     *)
THEOREM ClockTypeCorrect == ClockSpec => []ClockTypeOK
<1>1. ClockTypes => ClockTypeOK
  BY DEF ClockTypes
<1>2. QED BY <1>1, InitClock, StepClockTypes, PTL DEF ClockSpec

(* wish_time_report_periodic is called once for every second until the     *)
(* tick counter wraps, whatever the width of the counter, if what the loop *)
(* waits and works in a pass is no longer than a second.                   *)
THEOREM SecondsCounted ==
  ASSUME MaxWait + MaxWork <= Second
  PROVE  ClockSpec => []CountsSeconds
<1>1. ClockTypes /\ ClockCounts => CountsSeconds
  BY DEF ClockTypes, ClockTypeOK, ClockCounts, CountsSeconds
<1>2. ClockTypes /\ ClockCounts /\ [ClockNext]_clockVars => ClockCounts'
  BY StepClockCounts
<1>3. QED BY <1>1, <1>2, InitClock, StepClockTypes, PTL DEF ClockSpec

-----------------------------------------------------------------------------
(* The ring of event.c: its cursors and its counter agree modulo its length. *)

USE EventQueueAssumption

Value == Event \cup {Blank}

(* The window of n slots that begins at slot r of the ring `ring`. *)

Window(ring, r, n) ==
  [k \in 1 .. n |-> ring[(r + k - 1) % EVENT_QUEUE_LEN]]

(* A window is a sequence of values. *)
LEMMA WindowSeq ==
  ASSUME NEW ring \in [Slot -> Value], NEW r \in Slot, NEW n \in Nat
  PROVE  /\ Window(ring, r, n) \in Seq(Value)
         /\ Len(Window(ring, r, n)) = n
<1>1. \A k \in 1 .. n : (r + k - 1) % EVENT_QUEUE_LEN \in Slot
  BY DivMod DEF Slot
<1>2. Window(ring, r, n) \in [1 .. n -> Value]
  BY <1>1 DEF Window
<1>3. Window(ring, r, n) \in Seq(Value)
  BY <1>2, SeqDef
<1>4. QED
  BY <1>2, <1>3, LenProperties

(* Storing one event behind a window that is not full appends it. *)
LEMMA WindowAppend ==
  ASSUME NEW ring \in [Slot -> Value], NEW r \in Slot, NEW n \in Nat,
         NEW e \in Value, n < EVENT_QUEUE_LEN,
         NEW w \in Slot, w = (r + n) % EVENT_QUEUE_LEN,
         NEW new \in [Slot -> Value], new[w] = e,
         \A v \in Slot \ {w} : new[v] = ring[v]
  PROVE  Window(new, r, n + 1) = Append(Window(ring, r, n), e)
<1> DEFINE s == Window(new, r, n + 1)
           t == Append(Window(ring, r, n), e)
<1>2. s \in Seq(Value) /\ Len(s) = n + 1
  <2>1. n + 1 \in Nat
    OBVIOUS
  <2>2. QED BY <2>1, WindowSeq
<1>3. /\ t \in Seq(Value) /\ Len(t) = n + 1
      /\ \A i \in 1 .. n : t[i] = Window(ring, r, n)[i]
      /\ t[n + 1] = e
  <2> DEFINE u == Window(ring, r, n)
  <2>1. u \in Seq(Value) /\ Len(u) = n
    BY WindowSeq
  <2> HIDE DEF u
  <2>2. /\ Append(u, e) \in Seq(Value) /\ Len(Append(u, e)) = n + 1
        /\ \A i \in 1 .. n : Append(u, e)[i] = u[i]
        /\ Append(u, e)[n + 1] = e
    BY <2>1, AppendProperties
  <2>3. QED BY <2>2 DEF u
<1>4. \A i \in 1 .. n + 1 : s[i] = t[i]
  <2> SUFFICES ASSUME NEW i \in 1 .. n + 1 PROVE s[i] = t[i]
    OBVIOUS
  <2>1. s[i] = new[(r + i - 1) % EVENT_QUEUE_LEN]
    BY DEF Window
  <2>2. (r + i - 1) % EVENT_QUEUE_LEN \in Slot
    BY DivMod DEF Slot
  <2>3. CASE i = n + 1
    <3>1. r + i - 1 = r + n
      BY <2>3 DEF Slot
    <3>2. QED BY <2>1, <2>3, <3>1, <1>3
  <2>4. CASE i \in 1 .. n
    <3>0. /\ r + i - 1 \in Int /\ r + n \in Int
          /\ r + i - 1 < r + n /\ r + n < r + i - 1 + EVENT_QUEUE_LEN
      <4>1. /\ r \in Int /\ i \in Int /\ 1 <= i /\ i <= n
            /\ EVENT_QUEUE_LEN \in Int /\ n < EVENT_QUEUE_LEN
        BY <2>4 DEF Slot
      <4>2. QED BY <4>1
    <3>1. (r + i - 1) % EVENT_QUEUE_LEN # (r + n) % EVENT_QUEUE_LEN
      BY <3>0, ModDistinct
    <3>2. s[i] = ring[(r + i - 1) % EVENT_QUEUE_LEN]
      BY <2>1, <2>2, <3>1
    <3>3. QED BY <2>4, <3>2, <1>3 DEF Window
  <2>5. i = n + 1 \/ i \in 1 .. n
    OBVIOUS
  <2>6. QED BY <2>3, <2>4, <2>5
<1> HIDE DEF s, t
<1>5. s = t
  BY <1>2, <1>3, <1>4, SeqEqual
<1>6. QED BY <1>5 DEF s, t

(* Moving the beginning of a window by one slot drops its head. *)
LEMMA WindowTail ==
  ASSUME NEW ring \in [Slot -> Value], NEW r \in Slot, NEW n \in Nat \ {0}
  PROVE  /\ Window(ring, r, n) # <<>>
         /\ ring[r] = Head(Window(ring, r, n))
         /\ Window(ring, (r + 1) % EVENT_QUEUE_LEN, n - 1)
              = Tail(Window(ring, r, n))
<1> DEFINE u == Window(ring, r, n)
           q == (r + 1) % EVENT_QUEUE_LEN
           s == Window(ring, q, n - 1)
           t == Tail(u)
<1>1. u \in Seq(Value) /\ Len(u) = n /\ u # <<>>
  BY WindowSeq, EmptySeq
<1>2. /\ t \in Seq(Value) /\ Len(t) = n - 1
      /\ \A i \in 1 .. n - 1 : t[i] = u[i + 1]
  <2> HIDE DEF u
  <2> QED BY <1>1, HeadTailProperties
<1>3. q \in Slot
  BY DivMod DEF Slot
<1>4. s \in Seq(Value) /\ Len(s) = n - 1
  <2> HIDE DEF q
  <2> QED BY <1>3, WindowSeq
<1>5. \A i \in 1 .. n - 1 : s[i] = t[i]
  <2> SUFFICES ASSUME NEW i \in 1 .. n - 1 PROVE s[i] = t[i]
    OBVIOUS
  <2>1. s[i] = ring[(q + i - 1) % EVENT_QUEUE_LEN]
    BY DEF Window
  <2>2. (q + (i - 1)) % EVENT_QUEUE_LEN = ((r + 1) + (i - 1)) % EVENT_QUEUE_LEN
    <3>1. r + 1 \in Int /\ i - 1 \in Int
      BY DEF Slot
    <3>2. QED BY <3>1, ModAdd
  <2>3. q + (i - 1) = q + i - 1 /\ (r + 1) + (i - 1) = r + (i + 1) - 1
    <3> HIDE DEF q
    <3> QED BY <1>3 DEF Slot
  <2>4. t[i] = ring[(r + (i + 1) - 1) % EVENT_QUEUE_LEN]
    BY <1>2 DEF Window
  <2>5. QED BY <2>1, <2>2, <2>3, <2>4
<1>6. s = t
  <2> HIDE DEF s, t
  <2> QED BY <1>2, <1>4, <1>5, SeqEqual
<1>7. ring[r] = Head(u)
  <2>1. Head(u) = u[1]
    <3> HIDE DEF u
    <3> QED BY <1>1
  <2>2. r + 1 - 1 = r /\ r % EVENT_QUEUE_LEN = r
    BY DEF Slot
  <2>3. QED BY <2>1, <2>2 DEF Window
<1>8. QED BY <1>1, <1>6, <1>7

-----------------------------------------------------------------------------

(* The inductive invariant. *)
IInv ==
  /\ TypeOK
  /\ CursorsAgree
  /\ Load =< MaxLoad

LEMMA InitIInv == Init => IInv
<1> SUFFICES ASSUME Init PROVE IInv
  OBVIOUS
<1>1. TypeOK
  BY DEF Init, TypeOK, Slot
<1>2. CursorsAgree
  BY DEF Init, CursorsAgree
<1>3. Load =< MaxLoad
  BY DEF Init, Load
<1>4. QED BY <1>1, <1>2, <1>3 DEF IInv

(* The ring's cursors agree after every operation, in whatever order they  *)
(* come and however far the ring has overflowed.                           *)
LEMMA StepIInv == IInv /\ [Next]_vars => IInv'
<1> SUFFICES ASSUME IInv, [Next]_vars PROVE IInv'
  OBVIOUS
<1> USE DEF IInv
<1>1. ASSUME NEW e \in Event, wish_message_processor_notify(e) PROVE IInv'
  <2>1. TypeOK'
    <3>1. event_write' \in Slot
      BY <1>1, DivMod DEF wish_message_processor_notify, TypeOK, Slot
    <3>2. QED
      BY <1>1, <3>1 DEF wish_message_processor_notify, TypeOK
  <2>2. CursorsAgree'
    <3>1. event_write = (event_read + num_curr_events) % EVENT_QUEUE_LEN
      BY DEF CursorsAgree
    <3>2. event_read + num_curr_events \in Int
      BY DEF TypeOK, Slot
    <3>3. (((event_read + num_curr_events) % EVENT_QUEUE_LEN) + 1) % EVENT_QUEUE_LEN
            = ((event_read + num_curr_events) + 1) % EVENT_QUEUE_LEN
      BY <3>2, ModAdd
    <3>4. event_write' = ((event_read + num_curr_events) + 1) % EVENT_QUEUE_LEN
      BY <1>1, <3>1, <3>3 DEF wish_message_processor_notify
    <3>5. (event_read + num_curr_events) + 1 = event_read' + num_curr_events'
      BY <1>1 DEF wish_message_processor_notify, TypeOK, Slot
    <3>6. QED
      BY <1>1, <3>4, <3>5 DEF wish_message_processor_notify, CursorsAgree
  <2>3. (Load =< MaxLoad)'
    BY <1>1 DEF wish_message_processor_notify, Load, TypeOK
  <2>4. QED BY <2>1, <2>2, <2>3
<1>2. ASSUME wish_get_next_event PROVE IInv'
  <2>1. TypeOK'
    <3>1. event_read' \in Slot
      BY <1>2, DivMod DEF wish_get_next_event, TypeOK, Slot
    <3>2. num_curr_events' \in Nat
      BY <1>2 DEF wish_get_next_event, TypeOK
    <3>3. QED
      BY <1>2, <3>1, <3>2 DEF wish_get_next_event, TypeOK
  <2>2. CursorsAgree'
    <3>1. event_read + 1 \in Int /\ num_curr_events - 1 \in Int
      BY DEF TypeOK, Slot
    <3>2. (((event_read + 1) % EVENT_QUEUE_LEN) + (num_curr_events - 1))
              % EVENT_QUEUE_LEN
            = ((event_read + 1) + (num_curr_events - 1)) % EVENT_QUEUE_LEN
      BY <3>1, ModAdd
    <3>3. (event_read + 1) + (num_curr_events - 1) = event_read + num_curr_events
      BY DEF TypeOK, Slot
    <3>4. event_write' = (event_read' + num_curr_events') % EVENT_QUEUE_LEN
      BY <1>2, <3>2, <3>3 DEF wish_get_next_event, CursorsAgree
    <3>5. QED
      BY <1>2, <3>4 DEF wish_get_next_event, CursorsAgree
  <2>3. (Load =< MaxLoad)'
    BY <1>2 DEF wish_get_next_event, Load, TypeOK, Slot
  <2>4. QED BY <2>1, <2>2, <2>3
<1>3. ASSUME TaskReturns PROVE IInv'
  <2>1. TypeOK' /\ CursorsAgree'
    BY <1>3 DEF TaskReturns, TypeOK, CursorsAgree
  <2>2. (Load =< MaxLoad)'
    BY <1>3 DEF TaskReturns, Load, TypeOK
  <2>3. QED BY <2>1, <2>2
<1>4. ASSUME UNCHANGED vars PROVE IInv'
  BY <1>4 DEF vars, TypeOK, CursorsAgree, Load
<1>5. QED BY <1>1, <1>2, <1>3, <1>4 DEF Next

(* The ring's cursors and counter agree after any sequence of calls of     *)
(* event.c, overflow included.                                             *)
THEOREM RingInvariant == Spec => [](TypeOK /\ CursorsAgree)
<1>1. IInv => TypeOK /\ CursorsAgree
  BY DEF IInv
<1>2. QED BY InitIInv, StepIInv, <1>1, PTL DEF Spec

(* The ring's variables keep their types: the cursors stay in its slots    *)
(* and the handler holds a slot or nothing (event.c:16-34).                *)
THEOREM TypeCorrect == Spec => []TypeOK
BY RingInvariant, PTL

-----------------------------------------------------------------------------

LEMMA StepLoss ==
  IInv /\ [Next]_vars =>
    [\A s \in PendingSlots : events'[s] # events[s] => ReportsOverflow]_vars
<1> SUFFICES ASSUME IInv, Next,
                    NEW s \in PendingSlots, events'[s] # events[s]
             PROVE  ReportsOverflow
  OBVIOUS
<1>1. PICK e \in Event : wish_message_processor_notify(e)
  BY DEF Next, wish_get_next_event, TaskReturns
<1>2. PICK k \in 0 .. num_curr_events - 1 :
        s = (event_read + k) % EVENT_QUEUE_LEN
  BY DEF PendingSlots
<1>3. /\ event_read + k \in Int /\ event_read + num_curr_events \in Int
      /\ event_read + k < event_read + num_curr_events
  BY <1>2 DEF IInv, TypeOK, Slot
<1>4. s \in Slot
  BY <1>2, <1>3, DivMod DEF Slot
<1>5. s = (event_read + num_curr_events) % EVENT_QUEUE_LEN
  BY <1>1, <1>4 DEF wish_message_processor_notify, IInv, TypeOK, CursorsAgree
<1>6. ~(event_read + num_curr_events < event_read + k + EVENT_QUEUE_LEN)
  <2>1. SUFFICES ASSUME event_read + num_curr_events
                          < event_read + k + EVENT_QUEUE_LEN
                 PROVE  FALSE
    OBVIOUS
  <2>2. (event_read + k) % EVENT_QUEUE_LEN
          # (event_read + num_curr_events) % EVENT_QUEUE_LEN
    BY <1>3, <2>1, ModDistinct
  <2>3. QED BY <1>2, <1>5, <2>2
<1>7. num_curr_events >= EVENT_QUEUE_LEN
  BY <1>2, <1>6 DEF IInv, TypeOK, Slot
<1>8. QED
  BY <1>1, <1>7 DEF wish_message_processor_notify, ReportsOverflow, IInv, TypeOK

(* An event that waits in the ring is overwritten only by a call that      *)
(* reports the overflow.                                                   *)
THEOREM NoSilentLoss == Spec => LossIsReported
<1>1. QED BY InitIInv, StepIInv, StepLoss, PTL DEF Spec, LossIsReported

-----------------------------------------------------------------------------
(* The ring implements EventFifo, if it is never asked to hold more than   *)
(* it has slots.                                                           *)

Serving == IF ev = NoEvent THEN NoEvent ELSE events[ev]

LEMMA PendingIsWindow == PendingEvents = Window(events, event_read, num_curr_events)
BY DEF PendingEvents, Window

LEMMA FifoInit == Init => Fifo!Init
<1> SUFFICES ASSUME Init PROVE Fifo!Init
  OBVIOUS
<1>1. events \in [Slot -> Value] /\ event_read \in Slot /\ num_curr_events = 0
  BY DEF Init, Slot, Value
<1>2. PendingEvents \in Seq(Value) /\ Len(PendingEvents) = 0
  BY <1>1, WindowSeq, PendingIsWindow
<1>3. PendingEvents = <<>>
  BY <1>2, EmptySeq
<1>4. QED
  BY <1>3 DEF Init, Fifo!Init

LEMMA FifoStep == IInv /\ Next /\ FitsRing => Fifo!Next
<1> SUFFICES ASSUME IInv, Next, FitsRing PROVE Fifo!Next
  OBVIOUS
<1>0. /\ events \in [Slot -> Value] /\ event_read \in Slot
      /\ num_curr_events \in Nat /\ event_write \in Slot
      /\ ev \in Slot \cup {NoEvent}
  BY DEF IInv, TypeOK, Value
<1>1. ASSUME NEW e \in Event, wish_message_processor_notify(e)
      PROVE  Fifo!Raise(e)
  <2>1. /\ event_write = (event_read + num_curr_events) % EVENT_QUEUE_LEN
        /\ num_curr_events < EVENT_QUEUE_LEN
        /\ e \in Value
    BY <1>0, <1>1
       DEF wish_message_processor_notify, IInv, CursorsAgree, FitsRing, Load, Value
  <2>2. Window(events', event_read, num_curr_events + 1)
          = Append(Window(events, event_read, num_curr_events), e)
    <3>1. /\ events' \in [Slot -> Value]
          /\ events'[event_write] = e
          /\ \A v \in Slot \ {event_write} : events'[v] = events[v]
      BY <1>0, <1>1, <2>1 DEF wish_message_processor_notify
    <3>2. QED BY <1>0, <2>1, <3>1, WindowAppend
  <2>3. PendingEvents' = Append(PendingEvents, e)
    BY <1>1, <2>2, PendingIsWindow
       DEF wish_message_processor_notify, PendingEvents, Window
  <2>4. Serving' = Serving
    <3>1. CASE ev = NoEvent
      BY <1>1, <3>1 DEF wish_message_processor_notify, Serving
    <3>2. CASE ev # NoEvent
      <4>1. /\ ev \in Slot /\ event_read = (ev + 1) % EVENT_QUEUE_LEN
            /\ num_curr_events + 1 < EVENT_QUEUE_LEN
        BY <1>0, <1>1, <3>2
           DEF wish_message_processor_notify, IInv, CursorsAgree, FitsRing, Load
      <4>2. (((ev + 1) % EVENT_QUEUE_LEN) + num_curr_events) % EVENT_QUEUE_LEN
              = ((ev + 1) + num_curr_events) % EVENT_QUEUE_LEN
        <5>1. ev + 1 \in Int
          BY <4>1 DEF Slot
        <5>2. QED BY <5>1, <1>0, ModAdd
      <4>3. event_write = ((ev + 1) + num_curr_events) % EVENT_QUEUE_LEN
        BY <2>1, <4>1, <4>2
      <4>4. ev % EVENT_QUEUE_LEN # ((ev + 1) + num_curr_events) % EVENT_QUEUE_LEN
        <5>1. /\ ev \in Int /\ (ev + 1) + num_curr_events \in Int
              /\ ev < (ev + 1) + num_curr_events
              /\ (ev + 1) + num_curr_events < ev + EVENT_QUEUE_LEN
          BY <1>0, <4>1 DEF Slot
        <5>2. QED BY <5>1, ModDistinct
      <4>5. ev % EVENT_QUEUE_LEN = ev
        BY <4>1 DEF Slot
      <4>6. ev # event_write
        BY <4>3, <4>4, <4>5
      <4>7. QED
        BY <1>0, <1>1, <3>2, <4>1, <4>6 DEF wish_message_processor_notify, Serving
    <3>3. QED BY <3>1, <3>2
  <2>5. QED BY <2>3, <2>4 DEF Fifo!Raise, Serving
<1>2. ASSUME wish_get_next_event PROVE Fifo!Serve
  <2>1. ev = NoEvent /\ num_curr_events \in Nat \ {0}
    BY <1>0, <1>2 DEF wish_get_next_event
  <2>2. /\ Window(events, event_read, num_curr_events) # <<>>
        /\ events[event_read]
             = Head(Window(events, event_read, num_curr_events))
        /\ Window(events, (event_read + 1) % EVENT_QUEUE_LEN, num_curr_events - 1)
             = Tail(Window(events, event_read, num_curr_events))
    BY <1>0, <2>1, WindowTail
  <2>3. PendingEvents # <<>> /\ PendingEvents' = Tail(PendingEvents)
    BY <1>2, <2>2, PendingIsWindow
       DEF wish_get_next_event, PendingEvents, Window
  <2>4. Serving = NoEvent /\ Serving' = Head(PendingEvents)
    <3>1. event_read # NoEvent
      BY <1>0 DEF Slot
    <3>2. QED
      BY <1>2, <2>1, <2>2, <3>1, PendingIsWindow DEF wish_get_next_event, Serving
  <2>5. QED BY <2>3, <2>4 DEF Fifo!Serve, Serving
<1>3. ASSUME TaskReturns PROVE Fifo!Done
  <2>1. PendingEvents' = PendingEvents
    BY <1>3 DEF TaskReturns, PendingEvents
  <2>2. ev \in Slot /\ events[ev] \in Value
    BY <1>0, <1>3 DEF TaskReturns
  <2>3. Serving # NoEvent /\ Serving' = NoEvent
    BY <1>3, <2>2 DEF TaskReturns, Serving, Value
  <2>4. QED BY <2>1, <2>3 DEF Fifo!Done, Serving
<1>4. QED BY <1>1, <1>2, <1>3 DEF Next, Fifo!Next

(* While at most EVENT_QUEUE_LEN events are pending or in service, the     *)
(* ring delivers every event once, in order and unchanged, even if it has  *)
(* overflowed before.                                                      *)
THEOREM RingKeepsOrder == Spec => RingIsFifo
<1>1. IInv /\ [Next]_vars => [FitsRing => Fifo!Next]_vars
  BY FifoStep
<1>2. QED
  BY InitIInv, StepIInv, FifoInit, <1>1, PTL DEF Spec, RingIsFifo

(* MaxLoad bounds the load before and after every step. *)
LEMMA LoadFits ==
  ASSUME MaxLoad =< EVENT_QUEUE_LEN, IInv
  PROVE  Load =< EVENT_QUEUE_LEN
<1>1. Load \in Nat /\ Load =< MaxLoad
  BY DEF IInv, TypeOK, Load
<1>2. QED BY <1>1

LEMMA LoadFitsNext ==
  ASSUME MaxLoad =< EVENT_QUEUE_LEN, IInv'
  PROVE  Load' =< EVENT_QUEUE_LEN
<1>1. \A n \in Nat, e \in Slot \cup {NoEvent} :
        n + (IF e = NoEvent THEN 0 ELSE 1) =< MaxLoad
          => n + (IF e = NoEvent THEN 0 ELSE 1) =< EVENT_QUEUE_LEN
  OBVIOUS
<1>2. /\ num_curr_events' \in Nat /\ ev' \in Slot \cup {NoEvent}
      /\ num_curr_events' + (IF ev' = NoEvent THEN 0 ELSE 1) =< MaxLoad
  BY DEF IInv, TypeOK, Load, Slot
<1>3. QED BY <1>1, <1>2 DEF Load

(* A ring that is never asked to hold more than it has slots implements    *)
(* the abstract queue: RingIsFifo without its condition.                   *)
THEOREM RingImplementsFifo ==
  ASSUME MaxLoad =< EVENT_QUEUE_LEN
  PROVE  Spec => Fifo!Spec
<1>1. IInv /\ IInv' /\ Next => FitsRing
  BY LoadFits, LoadFitsNext DEF FitsRing
<1>2. UNCHANGED vars => UNCHANGED Fifo!vars
  BY DEF vars, Fifo!vars, PendingEvents
<1>3. IInv /\ [Next]_vars => [Fifo!Next]_(Fifo!vars)
  BY StepIInv, FifoStep, <1>1, <1>2
<1>4. QED
  BY InitIInv, StepIInv, FifoInit, <1>3, PTL DEF Spec, Fifo!Spec
=============================================================================
