------------------------ MODULE LinkProtocolsProofs -------------------------
(***************************************************************************)
(* Proofs about the opening of links and their protocols: that openings    *)
(* keep account of what they take, that the port of a link is what its     *)
(* platform makes of what its calls have asked, and that a CASIOLINK       *)
(* sender takes for received what was, for any platforms, devices, speeds, *)
(* items and faults; and the invariants of CASIOLINK sessions and of       *)
(* detection that LinkSessionsProofs goes on from.                         *)
(***************************************************************************)
EXTENDS LinkProtocols, TLAPS

-----------------------------------------------------------------------------
(* What openings hold.                                                     *)

Openings ==
  {"posix", "amigaos", "win32", "win16", "libusb_bulk", "libusb_ums", "cesg", "winusb",
   "volmgr", "libusb_search", "win32_search"}

(* What one of Windows has while it goes through the hubs.                 *)
HasAtHub(i, r) ==
  \/ r = "hub" /\ i > 3
  \/ r = "request" /\ i > 5 /\ i < 8

(* What an opening has of its own before a call.                           *)
Has(o, i, r) ==
  CASE o \in {"posix", "win16"} -> r = "port" /\ i > 1
    [] o = "amigaos" ->
         \/ r = "read_port" /\ i > 1
         \/ r = "write_port" /\ i > 2
         \/ r = "read_request" /\ i > 3
         \/ r = "write_request" /\ i > 4
         \/ r = "device" /\ i > 5
    [] o = "win32" ->
         \/ r = "port" /\ i > 1
         \/ r \in {"read_event", "write_event"} /\ i > 5
    [] o \in {"libusb_bulk", "libusb_ums"} ->
         \/ r = "list" /\ i > 2 /\ i < 6
         \/ r = "config" /\ i > 3 /\ i < 6
         \/ r = "handle" /\ i > 4
    [] o = "cesg" ->
         \/ HasAtHub(i, r)
         \/ r = "handle" /\ i > 10
         \/ r \in {"read_event", "write_event"} /\ i > 11
    [] o = "winusb" ->
         \/ HasAtHub(i, r)
         \/ r = "handle" /\ i > 11
         \/ r = "interface" /\ i > 12
         \/ r \in {"read_event", "write_event"} /\ i > 15
    [] o = "volmgr" ->
         \/ HasAtHub(i, r)
         \/ r = "disks" /\ i > 8 /\ i < 13
         \/ r = "volumes" /\ i > 9 /\ i < 13
         \/ r = "handle" /\ i > 13
    [] o = "libusb_search" -> r = "list" /\ i > 2 /\ i < 5
    [] o = "win32_search" ->
         \/ HasAtHub(i, r) /\ i < 10
         \/ r = "list" /\ i > 2 /\ i < 10

(* Where a long path is kept in memory.                                    *)
PathAt(o, i) == (o \in {"cesg", "winusb"} /\ i > 8) \/ (o = "volmgr" /\ i > 10)

(* What the functions around an opening give back, besides the memory of   *)
(* the path and of the name.                                               *)
Around(o) ==
  IF o \in Opening!ThroughHubs THEN {"list", "hub", "request", "disks", "volumes"} ELSE {}

(* Its own resources, that are neither the context's nor its callers'.     *)
Own == Opening!Resources \ (Opening!ContextPointers \union {"name", "path", "link"})

(* A call takes what is not held and gives back what is.                   *)
CallIsBalanced(o, i) ==
  LET c == Opening!CallsOf(o)[i] IN
  /\ c.keeps \subseteq Opening!ContextPointers
  /\ c.takes \subseteq Own \union {"path"} /\ \A r \in c.takes : ~Has(o, i, r)
  /\ "path" \in c.takes => ~PathAt(o, i) /\ PathAt(o, i + 1)
  /\ PathAt(o, i) => PathAt(o, i + 1)
  /\ \A r \in c.drops : Has(o, i, r)
  /\ \A r \in Own : Has(o, i + 1, r) <=> (Has(o, i, r) \/ r \in c.takes) /\ r \notin c.drops
  /\ c.frees \subseteq Opening!GivenBackTwice(o, i)
  /\ "path" \in c.frees => i > 1 /\ \A r : Has(o, i - 1, r) <=> Has(o, i, r)

(* An opening starts with nothing; when it fails, it gives back all it has *)
(* with what is around it; when it succeeds, it has what its closing gives *)
(* back, and what is around it.                                            *)
Balanced(o, n) ==
  /\ Len(Opening!CallsOf(o)) = n
  /\ \A r : ~Has(o, 1, r)
  /\ \A i \in 1 .. n : CallIsBalanced(o, i)
  /\ \A i \in 1 .. n : \A r :
       Opening!CallsOf(o)[i].fails /\ Has(o, i, r) => r \in Opening!GivenBackBy(o) \union Around(o)
  /\ \A r : r \in Opening!ClosedBy(o) <=> Has(o, n + 1, r) /\ r \notin Around(o)

LEMMA ConcatAt ==
  ASSUME NEW S, NEW s \in Seq(S), NEW t \in Seq(S)
  PROVE  /\ Len(s \o t) = Len(s) + Len(t)
         /\ \A i \in 1 .. Len(s) + Len(t) :
              (s \o t)[i] = IF i <= Len(s) THEN s[i] ELSE t[i - Len(s)]
OBVIOUS

LEMMA AppendAt ==
  ASSUME NEW S, NEW s \in Seq(S), NEW e \in S
  PROVE  /\ Len(Append(s, e)) = Len(s) + 1
         /\ \A i \in 1 .. Len(s) : Append(s, e)[i] = s[i]
         /\ Append(s, e)[Len(s) + 1] = e
OBVIOUS

LEMMA ThreeAndTwo ==
  ASSUME NEW a, NEW b, NEW c, NEW d, NEW e
  PROVE  /\ Len(<<a, b, c>> \o <<d, e>>) = 5
         /\ (<<a, b, c>> \o <<d, e>>)[1] = a
         /\ (<<a, b, c>> \o <<d, e>>)[2] = b
         /\ (<<a, b, c>> \o <<d, e>>)[3] = c
         /\ (<<a, b, c>> \o <<d, e>>)[4] = d
         /\ (<<a, b, c>> \o <<d, e>>)[5] = e
<1> DEFINE S == {a, b, c, d, e}
           s == <<a, b, c>>
           t == <<d, e>>
<1>1. s \in Seq(S) /\ t \in Seq(S)
  OBVIOUS
<1>2. Len(s) = 3 /\ Len(t) = 2
  OBVIOUS
<1>3. s[1] = a /\ s[2] = b /\ s[3] = c
  OBVIOUS
<1>4. t[1] = d /\ t[2] = e
  OBVIOUS
<1> HIDE DEF S, s, t
<1>5. /\ Len(s \o t) = Len(s) + Len(t)
      /\ \A j \in 1 .. Len(s) + Len(t) : (s \o t)[j] = IF j <= Len(s) THEN s[j] ELSE t[j - Len(s)]
  BY <1>1, ConcatAt
<1>6. (s \o t)[1] = a /\ (s \o t)[2] = b /\ (s \o t)[3] = c /\ (s \o t)[4] = d /\ (s \o t)[5] = e
  BY <1>2, <1>3, <1>4, <1>5
<1> QED
  BY <1>2, <1>5, <1>6 DEF s, t

LEMMA ThreeAndThree ==
  ASSUME NEW a, NEW b, NEW c, NEW d, NEW e, NEW f
  PROVE  /\ Len(<<a, b, c>> \o <<d, e, f>>) = 6
         /\ (<<a, b, c>> \o <<d, e, f>>)[1] = a
         /\ (<<a, b, c>> \o <<d, e, f>>)[2] = b
         /\ (<<a, b, c>> \o <<d, e, f>>)[3] = c
         /\ (<<a, b, c>> \o <<d, e, f>>)[4] = d
         /\ (<<a, b, c>> \o <<d, e, f>>)[5] = e
         /\ (<<a, b, c>> \o <<d, e, f>>)[6] = f
<1> DEFINE S == {a, b, c, d, e, f}
           s == <<a, b, c>>
           t == <<d, e, f>>
<1>1. s \in Seq(S) /\ t \in Seq(S)
  OBVIOUS
<1>2. Len(s) = 3 /\ Len(t) = 3
  OBVIOUS
<1>3. s[1] = a /\ s[2] = b /\ s[3] = c
  OBVIOUS
<1>4. t[1] = d /\ t[2] = e /\ t[3] = f
  OBVIOUS
<1> HIDE DEF S, s, t
<1>5. /\ Len(s \o t) = Len(s) + Len(t)
      /\ \A j \in 1 .. Len(s) + Len(t) : (s \o t)[j] = IF j <= Len(s) THEN s[j] ELSE t[j - Len(s)]
  BY <1>1, ConcatAt
<1>6. (s \o t)[1] = a /\ (s \o t)[2] = b /\ (s \o t)[3] = c /\ (s \o t)[4] = d /\ (s \o t)[5] = e /\ (s \o t)[6] = f
  BY <1>2, <1>3, <1>4, <1>5
<1> QED
  BY <1>2, <1>5, <1>6 DEF s, t

LEMMA SearchSequence ==
  ASSUME NEW e1, NEW e2, NEW e3, NEW e4, NEW e5, NEW e6, NEW e7, NEW e8, NEW e9,
         NEW q, q = (<<e1, e2, e3>> \o <<e4, e5, e6, e7>>) \o <<e8, e9>>
  PROVE  /\ Len(q) = 9
         /\ q[1] = e1
         /\ q[2] = e2
         /\ q[3] = e3
         /\ q[4] = e4
         /\ q[5] = e5
         /\ q[6] = e6
         /\ q[7] = e7
         /\ q[8] = e8
         /\ q[9] = e9
<1> DEFINE S == {e1, e2, e3, e4, e5, e6, e7, e8, e9}
           s == <<e1, e2, e3>>
           u == <<e4, e5, e6, e7>>
           t == <<e8, e9>>
<1>1. s \in Seq(S) /\ u \in Seq(S) /\ t \in Seq(S)
  OBVIOUS
<1>2. Len(s) = 3 /\ Len(u) = 4 /\ Len(t) = 2
  OBVIOUS
<1>3. s[1] = e1 /\ s[2] = e2 /\ s[3] = e3
  OBVIOUS
<1>4. u[1] = e4 /\ u[2] = e5 /\ u[3] = e6 /\ u[4] = e7
  OBVIOUS
<1>5. t[1] = e8 /\ t[2] = e9
  OBVIOUS
<1>6. q = (s \o u) \o t
  OBVIOUS
<1> HIDE DEF S, s, t, u
<1>7. s \o u \in Seq(S)
  BY <1>1
<1>8. /\ Len(s \o u) = Len(s) + Len(u)
      /\ \A j \in 1 .. Len(s) + Len(u) : (s \o u)[j] = IF j <= Len(s) THEN s[j] ELSE u[j - Len(s)]
  BY <1>1, ConcatAt
<1>9. /\ Len(s \o u) = 7
      /\ (s \o u)[1] = e1
      /\ (s \o u)[2] = e2
      /\ (s \o u)[3] = e3
      /\ (s \o u)[4] = e4
      /\ (s \o u)[5] = e5
      /\ (s \o u)[6] = e6
      /\ (s \o u)[7] = e7
  BY <1>2, <1>3, <1>4, <1>8
<1>p. PICK p : p = s \o u
  OBVIOUS
<1>b. p \in Seq(S) /\ q = p \o t
  BY <1>6, <1>7, <1>p
<1>c. /\ Len(p) = 7
      /\ p[1] = e1
      /\ p[2] = e2
      /\ p[3] = e3
      /\ p[4] = e4
      /\ p[5] = e5
      /\ p[6] = e6
      /\ p[7] = e7
  BY <1>9, <1>p
<1>10. /\ Len(q) = Len(p) + Len(t)
       /\ \A j \in 1 .. Len(p) + Len(t) : q[j] = IF j <= Len(p) THEN p[j] ELSE t[j - Len(p)]
  BY <1>1, <1>b, ConcatAt
<1> QED
  BY <1>2, <1>5, <1>c, <1>10

LEMMA CesgSequence ==
  ASSUME NEW e1, NEW e2, NEW e3, NEW e4, NEW e5, NEW e6, NEW e7, NEW e8, NEW e9, NEW e10,
         NEW e11, NEW q, q = (<<e1, e2, e3>> \o <<e4, e5, e6, e7>>) \o <<e8, e9, e10, e11>>
  PROVE  /\ Len(q) = 11
         /\ q[1] = e1
         /\ q[2] = e2
         /\ q[3] = e3
         /\ q[4] = e4
         /\ q[5] = e5
         /\ q[6] = e6
         /\ q[7] = e7
         /\ q[8] = e8
         /\ q[9] = e9
         /\ q[10] = e10
         /\ q[11] = e11
<1> DEFINE S == {e1, e2, e3, e4, e5, e6, e7, e8, e9, e10, e11}
           s == <<e1, e2, e3>>
           u == <<e4, e5, e6, e7>>
           t == <<e8, e9, e10, e11>>
<1>1. s \in Seq(S) /\ u \in Seq(S) /\ t \in Seq(S)
  OBVIOUS
<1>2. Len(s) = 3 /\ Len(u) = 4 /\ Len(t) = 4
  OBVIOUS
<1>3. s[1] = e1 /\ s[2] = e2 /\ s[3] = e3
  OBVIOUS
<1>4. u[1] = e4 /\ u[2] = e5 /\ u[3] = e6 /\ u[4] = e7
  OBVIOUS
<1>5. t[1] = e8 /\ t[2] = e9 /\ t[3] = e10 /\ t[4] = e11
  OBVIOUS
<1>6. q = (s \o u) \o t
  OBVIOUS
<1> HIDE DEF S, s, t, u
<1>7. s \o u \in Seq(S)
  BY <1>1
<1>8. /\ Len(s \o u) = Len(s) + Len(u)
      /\ \A j \in 1 .. Len(s) + Len(u) : (s \o u)[j] = IF j <= Len(s) THEN s[j] ELSE u[j - Len(s)]
  BY <1>1, ConcatAt
<1>9. /\ Len(s \o u) = 7
      /\ (s \o u)[1] = e1
      /\ (s \o u)[2] = e2
      /\ (s \o u)[3] = e3
      /\ (s \o u)[4] = e4
      /\ (s \o u)[5] = e5
      /\ (s \o u)[6] = e6
      /\ (s \o u)[7] = e7
  BY <1>2, <1>3, <1>4, <1>8
<1>p. PICK p : p = s \o u
  OBVIOUS
<1>b. p \in Seq(S) /\ q = p \o t
  BY <1>6, <1>7, <1>p
<1>c. /\ Len(p) = 7
      /\ p[1] = e1
      /\ p[2] = e2
      /\ p[3] = e3
      /\ p[4] = e4
      /\ p[5] = e5
      /\ p[6] = e6
      /\ p[7] = e7
  BY <1>9, <1>p
<1>10. /\ Len(q) = Len(p) + Len(t)
       /\ \A j \in 1 .. Len(p) + Len(t) : q[j] = IF j <= Len(p) THEN p[j] ELSE t[j - Len(p)]
  BY <1>1, <1>b, ConcatAt
<1> QED
  BY <1>2, <1>5, <1>c, <1>10

LEMMA LongSequence ==
  ASSUME NEW e1, NEW e2, NEW e3, NEW e4, NEW e5, NEW e6, NEW e7, NEW e8, NEW e9, NEW e10,
         NEW e11, NEW e12, NEW e13, NEW e14, NEW e15,
         NEW q, q = (<<e1, e2, e3>> \o <<e4, e5, e6, e7>>) \o <<e8, e9, e10, e11, e12, e13, e14, e15>>
  PROVE  /\ Len(q) = 15
         /\ q[1] = e1
         /\ q[2] = e2
         /\ q[3] = e3
         /\ q[4] = e4
         /\ q[5] = e5
         /\ q[6] = e6
         /\ q[7] = e7
         /\ q[8] = e8
         /\ q[9] = e9
         /\ q[10] = e10
         /\ q[11] = e11
         /\ q[12] = e12
         /\ q[13] = e13
         /\ q[14] = e14
         /\ q[15] = e15
<1> DEFINE S == {e1, e2, e3, e4, e5, e6, e7, e8, e9, e10, e11, e12, e13, e14, e15}
           s == <<e1, e2, e3>>
           u == <<e4, e5, e6, e7>>
           t == <<e8, e9, e10, e11, e12, e13, e14, e15>>
<1>1. s \in Seq(S) /\ u \in Seq(S) /\ t \in Seq(S)
  OBVIOUS
<1>2. Len(s) = 3 /\ Len(u) = 4 /\ Len(t) = 8
  OBVIOUS
<1>3. s[1] = e1 /\ s[2] = e2 /\ s[3] = e3
  OBVIOUS
<1>4. u[1] = e4 /\ u[2] = e5 /\ u[3] = e6 /\ u[4] = e7
  OBVIOUS
<1>5. t[1] = e8 /\ t[2] = e9 /\ t[3] = e10 /\ t[4] = e11 /\ t[5] = e12 /\ t[6] = e13 /\
      t[7] = e14 /\ t[8] = e15
  OBVIOUS
<1>6. q = (s \o u) \o t
  OBVIOUS
<1> HIDE DEF S, s, t, u
<1>7. s \o u \in Seq(S)
  BY <1>1
<1>8. /\ Len(s \o u) = Len(s) + Len(u)
      /\ \A j \in 1 .. Len(s) + Len(u) : (s \o u)[j] = IF j <= Len(s) THEN s[j] ELSE u[j - Len(s)]
  BY <1>1, ConcatAt
<1>9. /\ Len(s \o u) = 7
      /\ (s \o u)[1] = e1
      /\ (s \o u)[2] = e2
      /\ (s \o u)[3] = e3
      /\ (s \o u)[4] = e4
      /\ (s \o u)[5] = e5
      /\ (s \o u)[6] = e6
      /\ (s \o u)[7] = e7
  BY <1>2, <1>3, <1>4, <1>8
<1>p. PICK p : p = s \o u
  OBVIOUS
<1>b. p \in Seq(S) /\ q = p \o t
  BY <1>6, <1>7, <1>p
<1>c. /\ Len(p) = 7
      /\ p[1] = e1
      /\ p[2] = e2
      /\ p[3] = e3
      /\ p[4] = e4
      /\ p[5] = e5
      /\ p[6] = e6
      /\ p[7] = e7
  BY <1>9, <1>p
<1>10. /\ Len(q) = Len(p) + Len(t)
       /\ \A j \in 1 .. Len(p) + Len(t) : q[j] = IF j <= Len(p) THEN p[j] ELSE t[j - Len(p)]
  BY <1>1, <1>b, ConcatAt
<1> QED
  BY <1>2, <1>5, <1>c, <1>10

LEMMA BulkCalls ==
  /\ Len(Opening!CallsOf("libusb_bulk")) = 8
  /\ \A i \in 1 .. 7 : Opening!CallsOf("libusb_bulk")[i] = Opening!CallsOf("libusb_ums")[i]
  /\ Opening!CallsOf("libusb_bulk")[8] = Opening!Nothing
<1> DEFINE s == Opening!LibusbCalls
           n == Opening!Nothing
           S == {s[i] : i \in 1 .. 7} \union {n}
<1>1. Len(s) = 7
  BY DEF Opening!LibusbCalls
<1>2. s \in Seq({s[i] : i \in 1 .. 7})
  BY DEF Opening!LibusbCalls
<1>3. s \in Seq(S) /\ n \in S
  BY <1>2
<1> HIDE DEF s, n, S
<1>4. /\ Len(Append(s, n)) = Len(s) + 1 /\ Append(s, n)[Len(s) + 1] = n
      /\ \A i \in 1 .. Len(s) : Append(s, n)[i] = s[i]
  BY <1>3, AppendAt
<1>5. Len(Append(s, n)) = 8 /\ Append(s, n)[8] = n /\ \A i \in 1 .. 7 : Append(s, n)[i] = s[i]
  BY <1>1, <1>4
<1>6. Opening!CallsOf("libusb_bulk") = Append(s, n) /\ Opening!CallsOf("libusb_ums") = s
  BY DEF Opening!CallsOf, s, n
<1> QED
  BY <1>5, <1>6 DEF n

LEMMA OwnResources ==
  /\ "path" \notin Own
  /\ \A r \in {"port", "read_port", "write_port", "read_request", "write_request", "device",
               "read_event", "write_event", "list", "config", "handle", "hub", "request",
               "disks", "volumes", "interface"} :
       r \in Own
BY DEF Own, Opening!Resources, Opening!ContextPointers

LEMMA CallFields ==
  /\ LET c == Opening!Nothing IN
     c.takes = {} /\ c.drops = {} /\ c.keeps = {} /\ c.frees = {}
  /\ \A x : LET c == Opening!Takes(x) IN
            c.takes = x /\ c.drops = {} /\ c.keeps = {} /\ c.frees = {}
  /\ \A x : LET c == Opening!Drops(x) IN
            c.takes = {} /\ c.drops = x /\ c.keeps = {} /\ c.frees = {}
  /\ \A x : LET c == Opening!Ends(x) IN
            c.takes = {} /\ c.drops = x /\ c.keeps = {} /\ c.frees = {} /\ ~c.fails
  /\ \A x : LET c == Opening!Keeps(x) IN
            c.takes = {} /\ c.drops = {} /\ c.keeps = {x} /\ c.frees = {}
  /\ \A x : LET c == Opening!Frees(x) IN
            c.takes = {} /\ c.drops = {} /\ c.keeps = {} /\ c.frees = x
BY DEF Opening!Nothing, Opening!Takes, Opening!Drops, Opening!Ends, Opening!Keeps, Opening!Frees

LEMMA PosixIsBalanced == Balanced("posix", 2)
<1>1. /\ Len(Opening!CallsOf("posix")) = 2
      /\ Opening!CallsOf("posix")[1] = Opening!Takes({"port"})
      /\ Opening!CallsOf("posix")[2] = Opening!Nothing
  BY DEF Opening!CallsOf, Opening!PosixCalls
<1>2. \A i \in 1 .. 2 : CallIsBalanced("posix", i)
  <2>1. CallIsBalanced("posix", 1)
    BY <1>1, CallFields, OwnResources
    DEF CallIsBalanced, Has, HasAtHub, PathAt, Opening!GivenBackTwice, Opening!ThroughHubs, Opening!ContextPointers
  <2>2. CallIsBalanced("posix", 2)
    BY <1>1, CallFields, OwnResources
    DEF CallIsBalanced, Has, HasAtHub, PathAt, Opening!GivenBackTwice, Opening!ThroughHubs, Opening!ContextPointers
  <2> QED
    BY <2>1, <2>2
<1>3. \A i \in 1 .. 2 : \A r :
        Opening!CallsOf("posix")[i].fails /\ Has("posix", i, r) =>
          r \in Opening!GivenBackBy("posix") \union Around("posix")
  BY <1>1, CallFields DEF Has, HasAtHub, Opening!GivenBackBy, Opening!Searches, Around, Opening!ThroughHubs
<1>4. \A r : r \in Opening!ClosedBy("posix") <=> Has("posix", 2 + 1, r) /\ r \notin Around("posix")
  BY DEF Has, HasAtHub, Opening!ClosedBy, Opening!Searches, Around, Opening!ThroughHubs
<1> QED
  BY <1>1, <1>2, <1>3, <1>4 DEF Balanced, Has, HasAtHub

LEMMA Win16IsBalanced == Balanced("win16", 1)
<1>1. /\ Len(Opening!CallsOf("win16")) = 1
      /\ Opening!CallsOf("win16")[1] = Opening!Takes({"port"})
  BY DEF Opening!CallsOf, Opening!Win16Calls
<1>2. \A i \in 1 .. 1 : CallIsBalanced("win16", i)
  <2>1. CallIsBalanced("win16", 1)
    BY <1>1, CallFields, OwnResources
    DEF CallIsBalanced, Has, HasAtHub, PathAt, Opening!GivenBackTwice, Opening!ThroughHubs, Opening!ContextPointers
  <2> QED
    BY <2>1
<1>3. \A i \in 1 .. 1 : \A r :
        Opening!CallsOf("win16")[i].fails /\ Has("win16", i, r) =>
          r \in Opening!GivenBackBy("win16") \union Around("win16")
  BY <1>1, CallFields DEF Has, HasAtHub, Opening!GivenBackBy, Opening!Searches, Around, Opening!ThroughHubs
<1>4. \A r : r \in Opening!ClosedBy("win16") <=> Has("win16", 1 + 1, r) /\ r \notin Around("win16")
  BY DEF Has, HasAtHub, Opening!ClosedBy, Opening!Searches, Around, Opening!ThroughHubs
<1> QED
  BY <1>1, <1>2, <1>3, <1>4 DEF Balanced, Has, HasAtHub

LEMMA Win32IsBalanced == Balanced("win32", 5)
<1>1. /\ Len(Opening!CallsOf("win32")) = 5
      /\ Opening!CallsOf("win32")[1] = Opening!Takes({"port"})
      /\ Opening!CallsOf("win32")[2] = Opening!Nothing
      /\ Opening!CallsOf("win32")[3] = Opening!Nothing
      /\ Opening!CallsOf("win32")[4] = Opening!Nothing
      /\ Opening!CallsOf("win32")[5] = Opening!Takes({"read_event", "write_event"})
  BY DEF Opening!CallsOf, Opening!Win32Calls, Opening!Events
<1>2. \A i \in 1 .. 5 : CallIsBalanced("win32", i)
  <2>1. CallIsBalanced("win32", 1)
    BY <1>1, CallFields, OwnResources
    DEF CallIsBalanced, Has, HasAtHub, PathAt, Opening!GivenBackTwice, Opening!ThroughHubs, Opening!ContextPointers
  <2>2. CallIsBalanced("win32", 2)
    BY <1>1, CallFields, OwnResources
    DEF CallIsBalanced, Has, HasAtHub, PathAt, Opening!GivenBackTwice, Opening!ThroughHubs, Opening!ContextPointers
  <2>3. CallIsBalanced("win32", 3)
    BY <1>1, CallFields, OwnResources
    DEF CallIsBalanced, Has, HasAtHub, PathAt, Opening!GivenBackTwice, Opening!ThroughHubs, Opening!ContextPointers
  <2>4. CallIsBalanced("win32", 4)
    BY <1>1, CallFields, OwnResources
    DEF CallIsBalanced, Has, HasAtHub, PathAt, Opening!GivenBackTwice, Opening!ThroughHubs, Opening!ContextPointers
  <2>5. CallIsBalanced("win32", 5)
    BY <1>1, CallFields, OwnResources
    DEF CallIsBalanced, Has, HasAtHub, PathAt, Opening!GivenBackTwice, Opening!ThroughHubs, Opening!ContextPointers
  <2> QED
    BY <2>1, <2>2, <2>3, <2>4, <2>5
<1>3. \A i \in 1 .. 5 : \A r :
        Opening!CallsOf("win32")[i].fails /\ Has("win32", i, r) =>
          r \in Opening!GivenBackBy("win32") \union Around("win32")
  BY <1>1, CallFields DEF Has, HasAtHub, Opening!GivenBackBy, Opening!Searches, Around, Opening!ThroughHubs
<1>4. \A r : r \in Opening!ClosedBy("win32") <=> Has("win32", 5 + 1, r) /\ r \notin Around("win32")
  BY DEF Has, HasAtHub, Opening!ClosedBy, Opening!Searches, Around, Opening!ThroughHubs
<1> QED
  BY <1>1, <1>2, <1>3, <1>4 DEF Balanced, Has, HasAtHub

LEMMA AmigaosIsBalanced == Balanced("amigaos", 5)
<1>1. /\ Len(Opening!CallsOf("amigaos")) = 5
      /\ Opening!CallsOf("amigaos")[1] = Opening!Takes({"read_port"})
      /\ Opening!CallsOf("amigaos")[2] = Opening!Takes({"write_port"})
      /\ Opening!CallsOf("amigaos")[3] = Opening!Takes({"read_request"})
      /\ Opening!CallsOf("amigaos")[4] = Opening!Takes({"write_request"})
      /\ Opening!CallsOf("amigaos")[5] = Opening!Takes({"device"})
  BY DEF Opening!CallsOf, Opening!AmigaosCalls
<1>2. \A i \in 1 .. 5 : CallIsBalanced("amigaos", i)
  <2>1. CallIsBalanced("amigaos", 1)
    BY <1>1, CallFields, OwnResources
    DEF CallIsBalanced, Has, HasAtHub, PathAt, Opening!GivenBackTwice, Opening!ThroughHubs, Opening!ContextPointers
  <2>2. CallIsBalanced("amigaos", 2)
    BY <1>1, CallFields, OwnResources
    DEF CallIsBalanced, Has, HasAtHub, PathAt, Opening!GivenBackTwice, Opening!ThroughHubs, Opening!ContextPointers
  <2>3. CallIsBalanced("amigaos", 3)
    BY <1>1, CallFields, OwnResources
    DEF CallIsBalanced, Has, HasAtHub, PathAt, Opening!GivenBackTwice, Opening!ThroughHubs, Opening!ContextPointers
  <2>4. CallIsBalanced("amigaos", 4)
    BY <1>1, CallFields, OwnResources
    DEF CallIsBalanced, Has, HasAtHub, PathAt, Opening!GivenBackTwice, Opening!ThroughHubs, Opening!ContextPointers
  <2>5. CallIsBalanced("amigaos", 5)
    BY <1>1, CallFields, OwnResources
    DEF CallIsBalanced, Has, HasAtHub, PathAt, Opening!GivenBackTwice, Opening!ThroughHubs, Opening!ContextPointers
  <2> QED
    BY <2>1, <2>2, <2>3, <2>4, <2>5
<1>3. \A i \in 1 .. 5 : \A r :
        Opening!CallsOf("amigaos")[i].fails /\ Has("amigaos", i, r) =>
          r \in Opening!GivenBackBy("amigaos") \union Around("amigaos")
  BY <1>1, CallFields DEF Has, HasAtHub, Opening!GivenBackBy, Opening!Searches, Around, Opening!ThroughHubs
<1>4. \A r : r \in Opening!ClosedBy("amigaos") <=> Has("amigaos", 5 + 1, r) /\ r \notin Around("amigaos")
  BY DEF Has, HasAtHub, Opening!ClosedBy, Opening!Searches, Around, Opening!ThroughHubs
<1> QED
  BY <1>1, <1>2, <1>3, <1>4 DEF Balanced, Has, HasAtHub

LEMMA LibusbUmsIsBalanced == Balanced("libusb_ums", 7)
<1>1. /\ Len(Opening!CallsOf("libusb_ums")) = 7
      /\ Opening!CallsOf("libusb_ums")[1] = Opening!Keeps("libusb")
      /\ Opening!CallsOf("libusb_ums")[2] = Opening!Takes({"list"})
      /\ Opening!CallsOf("libusb_ums")[3] = Opening!Takes({"config"})
      /\ Opening!CallsOf("libusb_ums")[4] = Opening!Takes({"handle"})
      /\ Opening!CallsOf("libusb_ums")[5] = Opening!Ends({"list", "config"})
      /\ Opening!CallsOf("libusb_ums")[6] = Opening!Nothing
      /\ Opening!CallsOf("libusb_ums")[7] = Opening!Nothing
  BY DEF Opening!CallsOf, Opening!LibusbCalls, Opening!CreatesLibusb
<1>2. \A i \in 1 .. 7 : CallIsBalanced("libusb_ums", i)
  <2>1. CallIsBalanced("libusb_ums", 1)
    BY <1>1, CallFields, OwnResources
    DEF CallIsBalanced, Has, HasAtHub, PathAt, Opening!GivenBackTwice, Opening!ThroughHubs, Opening!ContextPointers
  <2>2. CallIsBalanced("libusb_ums", 2)
    BY <1>1, CallFields, OwnResources
    DEF CallIsBalanced, Has, HasAtHub, PathAt, Opening!GivenBackTwice, Opening!ThroughHubs, Opening!ContextPointers
  <2>3. CallIsBalanced("libusb_ums", 3)
    BY <1>1, CallFields, OwnResources
    DEF CallIsBalanced, Has, HasAtHub, PathAt, Opening!GivenBackTwice, Opening!ThroughHubs, Opening!ContextPointers
  <2>4. CallIsBalanced("libusb_ums", 4)
    BY <1>1, CallFields, OwnResources
    DEF CallIsBalanced, Has, HasAtHub, PathAt, Opening!GivenBackTwice, Opening!ThroughHubs, Opening!ContextPointers
  <2>5. CallIsBalanced("libusb_ums", 5)
    BY <1>1, CallFields, OwnResources
    DEF CallIsBalanced, Has, HasAtHub, PathAt, Opening!GivenBackTwice, Opening!ThroughHubs, Opening!ContextPointers
  <2>6. CallIsBalanced("libusb_ums", 6)
    BY <1>1, CallFields, OwnResources
    DEF CallIsBalanced, Has, HasAtHub, PathAt, Opening!GivenBackTwice, Opening!ThroughHubs, Opening!ContextPointers
  <2>7. CallIsBalanced("libusb_ums", 7)
    BY <1>1, CallFields, OwnResources
    DEF CallIsBalanced, Has, HasAtHub, PathAt, Opening!GivenBackTwice, Opening!ThroughHubs, Opening!ContextPointers
  <2> QED
    BY <2>1, <2>2, <2>3, <2>4, <2>5, <2>6, <2>7
<1>3. \A i \in 1 .. 7 : \A r :
        Opening!CallsOf("libusb_ums")[i].fails /\ Has("libusb_ums", i, r) =>
          r \in Opening!GivenBackBy("libusb_ums") \union Around("libusb_ums")
  BY <1>1, CallFields DEF Has, HasAtHub, Opening!GivenBackBy, Opening!Searches, Around, Opening!ThroughHubs
<1>4. \A r : r \in Opening!ClosedBy("libusb_ums") <=> Has("libusb_ums", 7 + 1, r) /\ r \notin Around("libusb_ums")
  BY DEF Has, HasAtHub, Opening!ClosedBy, Opening!Searches, Around, Opening!ThroughHubs
<1> QED
  BY <1>1, <1>2, <1>3, <1>4 DEF Balanced, Has, HasAtHub

LEMMA LibusbBulkIsBalanced == Balanced("libusb_bulk", 8)
<1>1. /\ Len(Opening!CallsOf("libusb_bulk")) = 8
      /\ Opening!CallsOf("libusb_bulk")[1] = Opening!Keeps("libusb")
      /\ Opening!CallsOf("libusb_bulk")[2] = Opening!Takes({"list"})
      /\ Opening!CallsOf("libusb_bulk")[3] = Opening!Takes({"config"})
      /\ Opening!CallsOf("libusb_bulk")[4] = Opening!Takes({"handle"})
      /\ Opening!CallsOf("libusb_bulk")[5] = Opening!Ends({"list", "config"})
      /\ Opening!CallsOf("libusb_bulk")[6] = Opening!Nothing
      /\ Opening!CallsOf("libusb_bulk")[7] = Opening!Nothing
      /\ Opening!CallsOf("libusb_bulk")[8] = Opening!Nothing
  BY BulkCalls DEF Opening!CallsOf, Opening!LibusbCalls, Opening!CreatesLibusb
<1>2. \A i \in 1 .. 8 : CallIsBalanced("libusb_bulk", i)
  <2>1. CallIsBalanced("libusb_bulk", 1)
    BY <1>1, CallFields, OwnResources
    DEF CallIsBalanced, Has, HasAtHub, PathAt, Opening!GivenBackTwice, Opening!ThroughHubs, Opening!ContextPointers
  <2>2. CallIsBalanced("libusb_bulk", 2)
    BY <1>1, CallFields, OwnResources
    DEF CallIsBalanced, Has, HasAtHub, PathAt, Opening!GivenBackTwice, Opening!ThroughHubs, Opening!ContextPointers
  <2>3. CallIsBalanced("libusb_bulk", 3)
    BY <1>1, CallFields, OwnResources
    DEF CallIsBalanced, Has, HasAtHub, PathAt, Opening!GivenBackTwice, Opening!ThroughHubs, Opening!ContextPointers
  <2>4. CallIsBalanced("libusb_bulk", 4)
    BY <1>1, CallFields, OwnResources
    DEF CallIsBalanced, Has, HasAtHub, PathAt, Opening!GivenBackTwice, Opening!ThroughHubs, Opening!ContextPointers
  <2>5. CallIsBalanced("libusb_bulk", 5)
    BY <1>1, CallFields, OwnResources
    DEF CallIsBalanced, Has, HasAtHub, PathAt, Opening!GivenBackTwice, Opening!ThroughHubs, Opening!ContextPointers
  <2>6. CallIsBalanced("libusb_bulk", 6)
    BY <1>1, CallFields, OwnResources
    DEF CallIsBalanced, Has, HasAtHub, PathAt, Opening!GivenBackTwice, Opening!ThroughHubs, Opening!ContextPointers
  <2>7. CallIsBalanced("libusb_bulk", 7)
    BY <1>1, CallFields, OwnResources
    DEF CallIsBalanced, Has, HasAtHub, PathAt, Opening!GivenBackTwice, Opening!ThroughHubs, Opening!ContextPointers
  <2>8. CallIsBalanced("libusb_bulk", 8)
    BY <1>1, CallFields, OwnResources
    DEF CallIsBalanced, Has, HasAtHub, PathAt, Opening!GivenBackTwice, Opening!ThroughHubs, Opening!ContextPointers
  <2> QED
    BY <2>1, <2>2, <2>3, <2>4, <2>5, <2>6, <2>7, <2>8
<1>3. \A i \in 1 .. 8 : \A r :
        Opening!CallsOf("libusb_bulk")[i].fails /\ Has("libusb_bulk", i, r) =>
          r \in Opening!GivenBackBy("libusb_bulk") \union Around("libusb_bulk")
  BY <1>1, CallFields DEF Has, HasAtHub, Opening!GivenBackBy, Opening!Searches, Around, Opening!ThroughHubs
<1>4. \A r : r \in Opening!ClosedBy("libusb_bulk") <=> Has("libusb_bulk", 8 + 1, r) /\ r \notin Around("libusb_bulk")
  BY DEF Has, HasAtHub, Opening!ClosedBy, Opening!Searches, Around, Opening!ThroughHubs
<1> QED
  BY <1>1, <1>2, <1>3, <1>4 DEF Balanced, Has, HasAtHub

LEMMA LibusbSearchIsBalanced == Balanced("libusb_search", 4)
<1>1. /\ Len(Opening!CallsOf("libusb_search")) = 4
      /\ Opening!CallsOf("libusb_search")[1] = Opening!Keeps("libusb")
      /\ Opening!CallsOf("libusb_search")[2] = Opening!Takes({"list"})
      /\ Opening!CallsOf("libusb_search")[3] = Opening!Ends({})
      /\ Opening!CallsOf("libusb_search")[4] = Opening!Ends({"list"})
  BY DEF Opening!CallsOf, Opening!LibusbSearch, Opening!CreatesLibusb
<1>2. \A i \in 1 .. 4 : CallIsBalanced("libusb_search", i)
  <2>1. CallIsBalanced("libusb_search", 1)
    BY <1>1, CallFields, OwnResources
    DEF CallIsBalanced, Has, HasAtHub, PathAt, Opening!GivenBackTwice, Opening!ThroughHubs, Opening!ContextPointers
  <2>2. CallIsBalanced("libusb_search", 2)
    BY <1>1, CallFields, OwnResources
    DEF CallIsBalanced, Has, HasAtHub, PathAt, Opening!GivenBackTwice, Opening!ThroughHubs, Opening!ContextPointers
  <2>3. CallIsBalanced("libusb_search", 3)
    BY <1>1, CallFields, OwnResources
    DEF CallIsBalanced, Has, HasAtHub, PathAt, Opening!GivenBackTwice, Opening!ThroughHubs, Opening!ContextPointers
  <2>4. CallIsBalanced("libusb_search", 4)
    BY <1>1, CallFields, OwnResources
    DEF CallIsBalanced, Has, HasAtHub, PathAt, Opening!GivenBackTwice, Opening!ThroughHubs, Opening!ContextPointers
  <2> QED
    BY <2>1, <2>2, <2>3, <2>4
<1>3. \A i \in 1 .. 4 : \A r :
        Opening!CallsOf("libusb_search")[i].fails /\ Has("libusb_search", i, r) =>
          r \in Opening!GivenBackBy("libusb_search") \union Around("libusb_search")
  BY <1>1, CallFields DEF Has, HasAtHub, Opening!GivenBackBy, Opening!Searches, Around, Opening!ThroughHubs
<1>4. \A r : r \in Opening!ClosedBy("libusb_search") <=> Has("libusb_search", 4 + 1, r) /\ r \notin Around("libusb_search")
  BY DEF Has, HasAtHub, Opening!ClosedBy, Opening!Searches, Around, Opening!ThroughHubs
<1> QED
  BY <1>1, <1>2, <1>3, <1>4 DEF Balanced, Has, HasAtHub

LEMMA CesgIsBalanced == Balanced("cesg", 11)
<1> DEFINE e1 == Opening!Keeps("cfgmgr32")
           e2 == Opening!Nothing
           e3 == Opening!Takes({"hub"})
           e4 == Opening!Nothing
           e5 == Opening!Takes({"request"})
           e6 == Opening!Frees({"request"})
           e7 == Opening!Drops({"request"})
           e8 == Opening!Takes({"path"})
           e9 == Opening!Frees({"path"})
           e10 == Opening!Takes({"handle"})
           e11 == Opening!Takes({"read_event", "write_event"})
<1>0. Opening!CallsOf("cesg") = (<<e1, e2, e3>> \o <<e4, e5, e6, e7>>) \o <<e8, e9, e10, e11>>
  BY DEF Opening!CallsOf, Opening!CesgCalls, Opening!Events, Opening!WindowsLookup,
         Opening!LoadsCfgmgr32, Opening!LocatesDevice, Opening!OpensHub, Opening!Describes,
         Opening!AsksHub, Opening!RequestsConfiguration, Opening!ChecksConfiguration,
         Opening!SizesPath, Opening!GetsPath
<1> HIDE DEF e1, e2, e3, e4, e5, e6, e7, e8, e9, e10, e11
<1>a. /\ Len(Opening!CallsOf("cesg")) = 11
      /\ Opening!CallsOf("cesg")[1] = e1
      /\ Opening!CallsOf("cesg")[2] = e2
      /\ Opening!CallsOf("cesg")[3] = e3
      /\ Opening!CallsOf("cesg")[4] = e4
      /\ Opening!CallsOf("cesg")[5] = e5
      /\ Opening!CallsOf("cesg")[6] = e6
      /\ Opening!CallsOf("cesg")[7] = e7
      /\ Opening!CallsOf("cesg")[8] = e8
      /\ Opening!CallsOf("cesg")[9] = e9
      /\ Opening!CallsOf("cesg")[10] = e10
      /\ Opening!CallsOf("cesg")[11] = e11
  BY <1>0, CesgSequence
<1>1. /\ Len(Opening!CallsOf("cesg")) = 11
      /\ Opening!CallsOf("cesg")[1] = Opening!Keeps("cfgmgr32")
      /\ Opening!CallsOf("cesg")[2] = Opening!Nothing
      /\ Opening!CallsOf("cesg")[3] = Opening!Takes({"hub"})
      /\ Opening!CallsOf("cesg")[4] = Opening!Nothing
      /\ Opening!CallsOf("cesg")[5] = Opening!Takes({"request"})
      /\ Opening!CallsOf("cesg")[6] = Opening!Frees({"request"})
      /\ Opening!CallsOf("cesg")[7] = Opening!Drops({"request"})
      /\ Opening!CallsOf("cesg")[8] = Opening!Takes({"path"})
      /\ Opening!CallsOf("cesg")[9] = Opening!Frees({"path"})
      /\ Opening!CallsOf("cesg")[10] = Opening!Takes({"handle"})
      /\ Opening!CallsOf("cesg")[11] = Opening!Takes({"read_event", "write_event"})
  BY <1>a DEF e1, e2, e3, e4, e5, e6, e7, e8, e9, e10, e11
<1>2. \A i \in 1 .. 11 : CallIsBalanced("cesg", i)
  <2>1. CallIsBalanced("cesg", 1)
    BY <1>1, CallFields, OwnResources
    DEF CallIsBalanced, Has, HasAtHub, PathAt, Opening!GivenBackTwice, Opening!ThroughHubs, Opening!ContextPointers
  <2>2. CallIsBalanced("cesg", 2)
    BY <1>1, CallFields, OwnResources
    DEF CallIsBalanced, Has, HasAtHub, PathAt, Opening!GivenBackTwice, Opening!ThroughHubs, Opening!ContextPointers
  <2>3. CallIsBalanced("cesg", 3)
    BY <1>1, CallFields, OwnResources
    DEF CallIsBalanced, Has, HasAtHub, PathAt, Opening!GivenBackTwice, Opening!ThroughHubs, Opening!ContextPointers
  <2>4. CallIsBalanced("cesg", 4)
    BY <1>1, CallFields, OwnResources
    DEF CallIsBalanced, Has, HasAtHub, PathAt, Opening!GivenBackTwice, Opening!ThroughHubs, Opening!ContextPointers
  <2>5. CallIsBalanced("cesg", 5)
    BY <1>1, CallFields, OwnResources
    DEF CallIsBalanced, Has, HasAtHub, PathAt, Opening!GivenBackTwice, Opening!ThroughHubs, Opening!ContextPointers
  <2>6. CallIsBalanced("cesg", 6)
    BY <1>1, CallFields, OwnResources
    DEF CallIsBalanced, Has, HasAtHub, PathAt, Opening!GivenBackTwice, Opening!ThroughHubs, Opening!ContextPointers
  <2>7. CallIsBalanced("cesg", 7)
    BY <1>1, CallFields, OwnResources
    DEF CallIsBalanced, Has, HasAtHub, PathAt, Opening!GivenBackTwice, Opening!ThroughHubs, Opening!ContextPointers
  <2>8. CallIsBalanced("cesg", 8)
    BY <1>1, CallFields, OwnResources
    DEF CallIsBalanced, Has, HasAtHub, PathAt, Opening!GivenBackTwice, Opening!ThroughHubs, Opening!ContextPointers
  <2>9. CallIsBalanced("cesg", 9)
    BY <1>1, CallFields, OwnResources
    DEF CallIsBalanced, Has, HasAtHub, PathAt, Opening!GivenBackTwice, Opening!ThroughHubs, Opening!ContextPointers
  <2>10. CallIsBalanced("cesg", 10)
    BY <1>1, CallFields, OwnResources
    DEF CallIsBalanced, Has, HasAtHub, PathAt, Opening!GivenBackTwice, Opening!ThroughHubs, Opening!ContextPointers
  <2>11. CallIsBalanced("cesg", 11)
    BY <1>1, CallFields, OwnResources
    DEF CallIsBalanced, Has, HasAtHub, PathAt, Opening!GivenBackTwice, Opening!ThroughHubs, Opening!ContextPointers
  <2> QED
    BY <2>1, <2>2, <2>3, <2>4, <2>5, <2>6, <2>7, <2>8, <2>9, <2>10, <2>11
<1>3. \A i \in 1 .. 11 : \A r :
        Opening!CallsOf("cesg")[i].fails /\ Has("cesg", i, r) =>
          r \in Opening!GivenBackBy("cesg") \union Around("cesg")
  BY <1>1, CallFields DEF Has, HasAtHub, Opening!GivenBackBy, Opening!Searches, Around, Opening!ThroughHubs
<1>4. \A r : r \in Opening!ClosedBy("cesg") <=> Has("cesg", 11 + 1, r) /\ r \notin Around("cesg")
  BY DEF Has, HasAtHub, Opening!ClosedBy, Opening!Searches, Around, Opening!ThroughHubs
<1> QED
  BY <1>1, <1>2, <1>3, <1>4 DEF Balanced, Has, HasAtHub

LEMMA WinusbIsBalanced == Balanced("winusb", 15)
<1> DEFINE e1 == Opening!Keeps("cfgmgr32")
           e2 == Opening!Nothing
           e3 == Opening!Takes({"hub"})
           e4 == Opening!Nothing
           e5 == Opening!Takes({"request"})
           e6 == Opening!Frees({"request"})
           e7 == Opening!Drops({"request"})
           e8 == Opening!Takes({"path"})
           e9 == Opening!Frees({"path"})
           e10 == Opening!Keeps("winusb")
           e11 == Opening!Takes({"handle"})
           e12 == Opening!Takes({"interface"})
           e13 == Opening!Nothing
           e14 == Opening!Nothing
           e15 == Opening!Takes({"read_event", "write_event"})
<1>0. Opening!CallsOf("winusb") = (<<e1, e2, e3>> \o <<e4, e5, e6, e7>>) \o <<e8, e9, e10, e11, e12, e13, e14, e15>>
  BY DEF Opening!CallsOf, Opening!WinusbCalls, Opening!LoadsWinusb, Opening!FindsBulkPipes,
         Opening!Events, Opening!WindowsLookup, Opening!LoadsCfgmgr32, Opening!LocatesDevice,
         Opening!OpensHub, Opening!Describes, Opening!AsksHub, Opening!RequestsConfiguration,
         Opening!ChecksConfiguration, Opening!SizesPath, Opening!GetsPath
<1> HIDE DEF e1, e2, e3, e4, e5, e6, e7, e8, e9, e10, e11, e12, e13, e14, e15
<1>a. /\ Len(Opening!CallsOf("winusb")) = 15
      /\ Opening!CallsOf("winusb")[1] = e1
      /\ Opening!CallsOf("winusb")[2] = e2
      /\ Opening!CallsOf("winusb")[3] = e3
      /\ Opening!CallsOf("winusb")[4] = e4
      /\ Opening!CallsOf("winusb")[5] = e5
      /\ Opening!CallsOf("winusb")[6] = e6
      /\ Opening!CallsOf("winusb")[7] = e7
      /\ Opening!CallsOf("winusb")[8] = e8
      /\ Opening!CallsOf("winusb")[9] = e9
      /\ Opening!CallsOf("winusb")[10] = e10
      /\ Opening!CallsOf("winusb")[11] = e11
      /\ Opening!CallsOf("winusb")[12] = e12
      /\ Opening!CallsOf("winusb")[13] = e13
      /\ Opening!CallsOf("winusb")[14] = e14
      /\ Opening!CallsOf("winusb")[15] = e15
  BY <1>0, LongSequence
<1>1. /\ Len(Opening!CallsOf("winusb")) = 15
      /\ Opening!CallsOf("winusb")[1] = Opening!Keeps("cfgmgr32")
      /\ Opening!CallsOf("winusb")[2] = Opening!Nothing
      /\ Opening!CallsOf("winusb")[3] = Opening!Takes({"hub"})
      /\ Opening!CallsOf("winusb")[4] = Opening!Nothing
      /\ Opening!CallsOf("winusb")[5] = Opening!Takes({"request"})
      /\ Opening!CallsOf("winusb")[6] = Opening!Frees({"request"})
      /\ Opening!CallsOf("winusb")[7] = Opening!Drops({"request"})
      /\ Opening!CallsOf("winusb")[8] = Opening!Takes({"path"})
      /\ Opening!CallsOf("winusb")[9] = Opening!Frees({"path"})
      /\ Opening!CallsOf("winusb")[10] = Opening!Keeps("winusb")
      /\ Opening!CallsOf("winusb")[11] = Opening!Takes({"handle"})
      /\ Opening!CallsOf("winusb")[12] = Opening!Takes({"interface"})
      /\ Opening!CallsOf("winusb")[13] = Opening!Nothing
      /\ Opening!CallsOf("winusb")[14] = Opening!Nothing
      /\ Opening!CallsOf("winusb")[15] = Opening!Takes({"read_event", "write_event"})
  BY <1>a DEF e1, e2, e3, e4, e5, e6, e7, e8, e9, e10, e11, e12, e13, e14, e15
<1>2. \A i \in 1 .. 15 : CallIsBalanced("winusb", i)
  <2>1. CallIsBalanced("winusb", 1)
    BY <1>1, CallFields, OwnResources
    DEF CallIsBalanced, Has, HasAtHub, PathAt, Opening!GivenBackTwice, Opening!ThroughHubs, Opening!ContextPointers
  <2>2. CallIsBalanced("winusb", 2)
    BY <1>1, CallFields, OwnResources
    DEF CallIsBalanced, Has, HasAtHub, PathAt, Opening!GivenBackTwice, Opening!ThroughHubs, Opening!ContextPointers
  <2>3. CallIsBalanced("winusb", 3)
    BY <1>1, CallFields, OwnResources
    DEF CallIsBalanced, Has, HasAtHub, PathAt, Opening!GivenBackTwice, Opening!ThroughHubs, Opening!ContextPointers
  <2>4. CallIsBalanced("winusb", 4)
    BY <1>1, CallFields, OwnResources
    DEF CallIsBalanced, Has, HasAtHub, PathAt, Opening!GivenBackTwice, Opening!ThroughHubs, Opening!ContextPointers
  <2>5. CallIsBalanced("winusb", 5)
    BY <1>1, CallFields, OwnResources
    DEF CallIsBalanced, Has, HasAtHub, PathAt, Opening!GivenBackTwice, Opening!ThroughHubs, Opening!ContextPointers
  <2>6. CallIsBalanced("winusb", 6)
    BY <1>1, CallFields, OwnResources
    DEF CallIsBalanced, Has, HasAtHub, PathAt, Opening!GivenBackTwice, Opening!ThroughHubs, Opening!ContextPointers
  <2>7. CallIsBalanced("winusb", 7)
    BY <1>1, CallFields, OwnResources
    DEF CallIsBalanced, Has, HasAtHub, PathAt, Opening!GivenBackTwice, Opening!ThroughHubs, Opening!ContextPointers
  <2>8. CallIsBalanced("winusb", 8)
    BY <1>1, CallFields, OwnResources
    DEF CallIsBalanced, Has, HasAtHub, PathAt, Opening!GivenBackTwice, Opening!ThroughHubs, Opening!ContextPointers
  <2>9. CallIsBalanced("winusb", 9)
    BY <1>1, CallFields, OwnResources
    DEF CallIsBalanced, Has, HasAtHub, PathAt, Opening!GivenBackTwice, Opening!ThroughHubs, Opening!ContextPointers
  <2>10. CallIsBalanced("winusb", 10)
    BY <1>1, CallFields, OwnResources
    DEF CallIsBalanced, Has, HasAtHub, PathAt, Opening!GivenBackTwice, Opening!ThroughHubs, Opening!ContextPointers
  <2>11. CallIsBalanced("winusb", 11)
    BY <1>1, CallFields, OwnResources
    DEF CallIsBalanced, Has, HasAtHub, PathAt, Opening!GivenBackTwice, Opening!ThroughHubs, Opening!ContextPointers
  <2>12. CallIsBalanced("winusb", 12)
    BY <1>1, CallFields, OwnResources
    DEF CallIsBalanced, Has, HasAtHub, PathAt, Opening!GivenBackTwice, Opening!ThroughHubs, Opening!ContextPointers
  <2>13. CallIsBalanced("winusb", 13)
    BY <1>1, CallFields, OwnResources
    DEF CallIsBalanced, Has, HasAtHub, PathAt, Opening!GivenBackTwice, Opening!ThroughHubs, Opening!ContextPointers
  <2>14. CallIsBalanced("winusb", 14)
    BY <1>1, CallFields, OwnResources
    DEF CallIsBalanced, Has, HasAtHub, PathAt, Opening!GivenBackTwice, Opening!ThroughHubs, Opening!ContextPointers
  <2>15. CallIsBalanced("winusb", 15)
    BY <1>1, CallFields, OwnResources
    DEF CallIsBalanced, Has, HasAtHub, PathAt, Opening!GivenBackTwice, Opening!ThroughHubs, Opening!ContextPointers
  <2> QED
    BY <2>1, <2>2, <2>3, <2>4, <2>5, <2>6, <2>7, <2>8, <2>9, <2>10, <2>11, <2>12, <2>13, <2>14,
       <2>15
<1>3. \A i \in 1 .. 15 : \A r :
        Opening!CallsOf("winusb")[i].fails /\ Has("winusb", i, r) =>
          r \in Opening!GivenBackBy("winusb") \union Around("winusb")
  BY <1>1, CallFields DEF Has, HasAtHub, Opening!GivenBackBy, Opening!Searches, Around, Opening!ThroughHubs
<1>4. \A r : r \in Opening!ClosedBy("winusb") <=> Has("winusb", 15 + 1, r) /\ r \notin Around("winusb")
  BY DEF Has, HasAtHub, Opening!ClosedBy, Opening!Searches, Around, Opening!ThroughHubs
<1> QED
  BY <1>1, <1>2, <1>3, <1>4 DEF Balanced, Has, HasAtHub

LEMMA VolmgrIsBalanced == Balanced("volmgr", 15)
<1> DEFINE e1 == Opening!Keeps("cfgmgr32")
           e2 == Opening!Nothing
           e3 == Opening!Takes({"hub"})
           e4 == Opening!Nothing
           e5 == Opening!Takes({"request"})
           e6 == Opening!Frees({"request"})
           e7 == Opening!Drops({"request"})
           e8 == Opening!Takes({"disks"})
           e9 == Opening!Takes({"volumes"})
           e10 == Opening!Takes({"path"})
           e11 == Opening!Frees({"path"})
           e12 == Opening!Ends({"disks", "volumes"})
           e13 == Opening!Takes({"handle"})
           e14 == Opening!Nothing
           e15 == Opening!Nothing
<1>0. Opening!CallsOf("volmgr") = (<<e1, e2, e3>> \o <<e4, e5, e6, e7>>) \o <<e8, e9, e10, e11, e12, e13, e14, e15>>
  BY DEF Opening!CallsOf, Opening!VolmgrCalls, Opening!AsksForProperties, Opening!WindowsLookup,
         Opening!LoadsCfgmgr32, Opening!LocatesDevice, Opening!OpensHub, Opening!Describes,
         Opening!AsksHub, Opening!RequestsConfiguration, Opening!ChecksConfiguration,
         Opening!SizesPath, Opening!GetsPath
<1> HIDE DEF e1, e2, e3, e4, e5, e6, e7, e8, e9, e10, e11, e12, e13, e14, e15
<1>a. /\ Len(Opening!CallsOf("volmgr")) = 15
      /\ Opening!CallsOf("volmgr")[1] = e1
      /\ Opening!CallsOf("volmgr")[2] = e2
      /\ Opening!CallsOf("volmgr")[3] = e3
      /\ Opening!CallsOf("volmgr")[4] = e4
      /\ Opening!CallsOf("volmgr")[5] = e5
      /\ Opening!CallsOf("volmgr")[6] = e6
      /\ Opening!CallsOf("volmgr")[7] = e7
      /\ Opening!CallsOf("volmgr")[8] = e8
      /\ Opening!CallsOf("volmgr")[9] = e9
      /\ Opening!CallsOf("volmgr")[10] = e10
      /\ Opening!CallsOf("volmgr")[11] = e11
      /\ Opening!CallsOf("volmgr")[12] = e12
      /\ Opening!CallsOf("volmgr")[13] = e13
      /\ Opening!CallsOf("volmgr")[14] = e14
      /\ Opening!CallsOf("volmgr")[15] = e15
  BY <1>0, LongSequence
<1>1. /\ Len(Opening!CallsOf("volmgr")) = 15
      /\ Opening!CallsOf("volmgr")[1] = Opening!Keeps("cfgmgr32")
      /\ Opening!CallsOf("volmgr")[2] = Opening!Nothing
      /\ Opening!CallsOf("volmgr")[3] = Opening!Takes({"hub"})
      /\ Opening!CallsOf("volmgr")[4] = Opening!Nothing
      /\ Opening!CallsOf("volmgr")[5] = Opening!Takes({"request"})
      /\ Opening!CallsOf("volmgr")[6] = Opening!Frees({"request"})
      /\ Opening!CallsOf("volmgr")[7] = Opening!Drops({"request"})
      /\ Opening!CallsOf("volmgr")[8] = Opening!Takes({"disks"})
      /\ Opening!CallsOf("volmgr")[9] = Opening!Takes({"volumes"})
      /\ Opening!CallsOf("volmgr")[10] = Opening!Takes({"path"})
      /\ Opening!CallsOf("volmgr")[11] = Opening!Frees({"path"})
      /\ Opening!CallsOf("volmgr")[12] = Opening!Ends({"disks", "volumes"})
      /\ Opening!CallsOf("volmgr")[13] = Opening!Takes({"handle"})
      /\ Opening!CallsOf("volmgr")[14] = Opening!Nothing
      /\ Opening!CallsOf("volmgr")[15] = Opening!Nothing
  BY <1>a DEF e1, e2, e3, e4, e5, e6, e7, e8, e9, e10, e11, e12, e13, e14, e15
<1>2. \A i \in 1 .. 15 : CallIsBalanced("volmgr", i)
  <2>1. CallIsBalanced("volmgr", 1)
    BY <1>1, CallFields, OwnResources
    DEF CallIsBalanced, Has, HasAtHub, PathAt, Opening!GivenBackTwice, Opening!ThroughHubs, Opening!ContextPointers
  <2>2. CallIsBalanced("volmgr", 2)
    BY <1>1, CallFields, OwnResources
    DEF CallIsBalanced, Has, HasAtHub, PathAt, Opening!GivenBackTwice, Opening!ThroughHubs, Opening!ContextPointers
  <2>3. CallIsBalanced("volmgr", 3)
    BY <1>1, CallFields, OwnResources
    DEF CallIsBalanced, Has, HasAtHub, PathAt, Opening!GivenBackTwice, Opening!ThroughHubs, Opening!ContextPointers
  <2>4. CallIsBalanced("volmgr", 4)
    BY <1>1, CallFields, OwnResources
    DEF CallIsBalanced, Has, HasAtHub, PathAt, Opening!GivenBackTwice, Opening!ThroughHubs, Opening!ContextPointers
  <2>5. CallIsBalanced("volmgr", 5)
    BY <1>1, CallFields, OwnResources
    DEF CallIsBalanced, Has, HasAtHub, PathAt, Opening!GivenBackTwice, Opening!ThroughHubs, Opening!ContextPointers
  <2>6. CallIsBalanced("volmgr", 6)
    BY <1>1, CallFields, OwnResources
    DEF CallIsBalanced, Has, HasAtHub, PathAt, Opening!GivenBackTwice, Opening!ThroughHubs, Opening!ContextPointers
  <2>7. CallIsBalanced("volmgr", 7)
    BY <1>1, CallFields, OwnResources
    DEF CallIsBalanced, Has, HasAtHub, PathAt, Opening!GivenBackTwice, Opening!ThroughHubs, Opening!ContextPointers
  <2>8. CallIsBalanced("volmgr", 8)
    BY <1>1, CallFields, OwnResources
    DEF CallIsBalanced, Has, HasAtHub, PathAt, Opening!GivenBackTwice, Opening!ThroughHubs, Opening!ContextPointers
  <2>9. CallIsBalanced("volmgr", 9)
    BY <1>1, CallFields, OwnResources
    DEF CallIsBalanced, Has, HasAtHub, PathAt, Opening!GivenBackTwice, Opening!ThroughHubs, Opening!ContextPointers
  <2>10. CallIsBalanced("volmgr", 10)
    BY <1>1, CallFields, OwnResources
    DEF CallIsBalanced, Has, HasAtHub, PathAt, Opening!GivenBackTwice, Opening!ThroughHubs, Opening!ContextPointers
  <2>11. CallIsBalanced("volmgr", 11)
    BY <1>1, CallFields, OwnResources
    DEF CallIsBalanced, Has, HasAtHub, PathAt, Opening!GivenBackTwice, Opening!ThroughHubs, Opening!ContextPointers
  <2>12. CallIsBalanced("volmgr", 12)
    BY <1>1, CallFields, OwnResources
    DEF CallIsBalanced, Has, HasAtHub, PathAt, Opening!GivenBackTwice, Opening!ThroughHubs, Opening!ContextPointers
  <2>13. CallIsBalanced("volmgr", 13)
    BY <1>1, CallFields, OwnResources
    DEF CallIsBalanced, Has, HasAtHub, PathAt, Opening!GivenBackTwice, Opening!ThroughHubs, Opening!ContextPointers
  <2>14. CallIsBalanced("volmgr", 14)
    BY <1>1, CallFields, OwnResources
    DEF CallIsBalanced, Has, HasAtHub, PathAt, Opening!GivenBackTwice, Opening!ThroughHubs, Opening!ContextPointers
  <2>15. CallIsBalanced("volmgr", 15)
    BY <1>1, CallFields, OwnResources
    DEF CallIsBalanced, Has, HasAtHub, PathAt, Opening!GivenBackTwice, Opening!ThroughHubs, Opening!ContextPointers
  <2> QED
    BY <2>1, <2>2, <2>3, <2>4, <2>5, <2>6, <2>7, <2>8, <2>9, <2>10, <2>11, <2>12, <2>13, <2>14,
       <2>15
<1>3. \A i \in 1 .. 15 : \A r :
        Opening!CallsOf("volmgr")[i].fails /\ Has("volmgr", i, r) =>
          r \in Opening!GivenBackBy("volmgr") \union Around("volmgr")
  BY <1>1, CallFields DEF Has, HasAtHub, Opening!GivenBackBy, Opening!Searches, Around, Opening!ThroughHubs
<1>4. \A r : r \in Opening!ClosedBy("volmgr") <=> Has("volmgr", 15 + 1, r) /\ r \notin Around("volmgr")
  BY DEF Has, HasAtHub, Opening!ClosedBy, Opening!Searches, Around, Opening!ThroughHubs
<1> QED
  BY <1>1, <1>2, <1>3, <1>4 DEF Balanced, Has, HasAtHub

LEMMA Win32SearchIsBalanced == Balanced("win32_search", 9)
<1> DEFINE e1 == Opening!Keeps("cfgmgr32")
           e2 == Opening!Takes({"list"})
           e3 == Opening!Takes({"hub"})
           e4 == Opening!Nothing
           e5 == Opening!Takes({"request"})
           e6 == Opening!Frees({"request"})
           e7 == Opening!Drops({"request"})
           e8 == Opening!Nothing
           e9 == Opening!Ends({"list", "hub"})
<1>0. Opening!CallsOf("win32_search") = (<<e1, e2, e3>> \o <<e4, e5, e6, e7>>) \o <<e8, e9>>
  BY DEF Opening!CallsOf, Opening!Win32Search, Opening!WindowsLookup, Opening!LoadsCfgmgr32,
         Opening!LocatesDevice, Opening!OpensHub, Opening!Describes, Opening!AsksHub,
         Opening!RequestsConfiguration, Opening!ChecksConfiguration, Opening!SizesPath,
         Opening!GetsPath
<1> HIDE DEF e1, e2, e3, e4, e5, e6, e7, e8, e9
<1>a. /\ Len(Opening!CallsOf("win32_search")) = 9
      /\ Opening!CallsOf("win32_search")[1] = e1
      /\ Opening!CallsOf("win32_search")[2] = e2
      /\ Opening!CallsOf("win32_search")[3] = e3
      /\ Opening!CallsOf("win32_search")[4] = e4
      /\ Opening!CallsOf("win32_search")[5] = e5
      /\ Opening!CallsOf("win32_search")[6] = e6
      /\ Opening!CallsOf("win32_search")[7] = e7
      /\ Opening!CallsOf("win32_search")[8] = e8
      /\ Opening!CallsOf("win32_search")[9] = e9
  BY <1>0, SearchSequence
<1>1. /\ Len(Opening!CallsOf("win32_search")) = 9
      /\ Opening!CallsOf("win32_search")[1] = Opening!Keeps("cfgmgr32")
      /\ Opening!CallsOf("win32_search")[2] = Opening!Takes({"list"})
      /\ Opening!CallsOf("win32_search")[3] = Opening!Takes({"hub"})
      /\ Opening!CallsOf("win32_search")[4] = Opening!Nothing
      /\ Opening!CallsOf("win32_search")[5] = Opening!Takes({"request"})
      /\ Opening!CallsOf("win32_search")[6] = Opening!Frees({"request"})
      /\ Opening!CallsOf("win32_search")[7] = Opening!Drops({"request"})
      /\ Opening!CallsOf("win32_search")[8] = Opening!Nothing
      /\ Opening!CallsOf("win32_search")[9] = Opening!Ends({"list", "hub"})
  BY <1>a DEF e1, e2, e3, e4, e5, e6, e7, e8, e9
<1>2. \A i \in 1 .. 9 : CallIsBalanced("win32_search", i)
  <2>1. CallIsBalanced("win32_search", 1)
    BY <1>1, CallFields, OwnResources
    DEF CallIsBalanced, Has, HasAtHub, PathAt, Opening!GivenBackTwice, Opening!ThroughHubs, Opening!ContextPointers
  <2>2. CallIsBalanced("win32_search", 2)
    BY <1>1, CallFields, OwnResources
    DEF CallIsBalanced, Has, HasAtHub, PathAt, Opening!GivenBackTwice, Opening!ThroughHubs, Opening!ContextPointers
  <2>3. CallIsBalanced("win32_search", 3)
    BY <1>1, CallFields, OwnResources
    DEF CallIsBalanced, Has, HasAtHub, PathAt, Opening!GivenBackTwice, Opening!ThroughHubs, Opening!ContextPointers
  <2>4. CallIsBalanced("win32_search", 4)
    BY <1>1, CallFields, OwnResources
    DEF CallIsBalanced, Has, HasAtHub, PathAt, Opening!GivenBackTwice, Opening!ThroughHubs, Opening!ContextPointers
  <2>5. CallIsBalanced("win32_search", 5)
    BY <1>1, CallFields, OwnResources
    DEF CallIsBalanced, Has, HasAtHub, PathAt, Opening!GivenBackTwice, Opening!ThroughHubs, Opening!ContextPointers
  <2>6. CallIsBalanced("win32_search", 6)
    BY <1>1, CallFields, OwnResources
    DEF CallIsBalanced, Has, HasAtHub, PathAt, Opening!GivenBackTwice, Opening!ThroughHubs, Opening!ContextPointers
  <2>7. CallIsBalanced("win32_search", 7)
    BY <1>1, CallFields, OwnResources
    DEF CallIsBalanced, Has, HasAtHub, PathAt, Opening!GivenBackTwice, Opening!ThroughHubs, Opening!ContextPointers
  <2>8. CallIsBalanced("win32_search", 8)
    BY <1>1, CallFields, OwnResources
    DEF CallIsBalanced, Has, HasAtHub, PathAt, Opening!GivenBackTwice, Opening!ThroughHubs, Opening!ContextPointers
  <2>9. CallIsBalanced("win32_search", 9)
    BY <1>1, CallFields, OwnResources
    DEF CallIsBalanced, Has, HasAtHub, PathAt, Opening!GivenBackTwice, Opening!ThroughHubs, Opening!ContextPointers
  <2> QED
    BY <2>1, <2>2, <2>3, <2>4, <2>5, <2>6, <2>7, <2>8, <2>9
<1>3. \A i \in 1 .. 9 : \A r :
        Opening!CallsOf("win32_search")[i].fails /\ Has("win32_search", i, r) =>
          r \in Opening!GivenBackBy("win32_search") \union Around("win32_search")
  BY <1>1, CallFields DEF Has, HasAtHub, Opening!GivenBackBy, Opening!Searches, Around, Opening!ThroughHubs
<1>4. \A r : r \in Opening!ClosedBy("win32_search") <=> Has("win32_search", 9 + 1, r) /\ r \notin Around("win32_search")
  BY DEF Has, HasAtHub, Opening!ClosedBy, Opening!Searches, Around, Opening!ThroughHubs
<1> QED
  BY <1>1, <1>2, <1>3, <1>4 DEF Balanced, Has, HasAtHub

(* What an opening has of its own is neither the context's nor its         *)
(* callers'.                                                               *)
LEMMA OfItsOwn ==
  ASSUME NEW o \in Openings
  PROVE  /\ \A i, r : Has(o, i, r) => r \in Own
         /\ \A r \in Opening!GivenBackBy(o) \union Opening!ClosedBy(o) \union Around(o) : r \in Own
<1>1. ASSUME NEW i, NEW r, Has(o, i, r) PROVE r \in Own
  BY <1>1, OwnResources DEF Openings, Has, HasAtHub
<1>2. ASSUME NEW r \in Opening!GivenBackBy(o) PROVE r \in Own
  BY <1>2, OwnResources DEF Openings, Opening!GivenBackBy, Opening!Searches
<1>3. ASSUME NEW r \in Opening!ClosedBy(o) PROVE r \in Own
  BY <1>3, OwnResources DEF Openings, Opening!ClosedBy, Opening!Searches
<1>4. ASSUME NEW r \in Around(o) PROVE r \in Own
  BY <1>4, OwnResources DEF Around
<1> QED
  BY <1>1, <1>2, <1>3, <1>4

LEMMA OpeningsAreBalanced ==
  ASSUME NEW o \in Openings
  PROVE  Len(Opening!CallsOf(o)) \in 1 .. 15 /\ Balanced(o, Len(Opening!CallsOf(o)))
<1>1. \E n \in 1 .. 15 : Balanced(o, n)
  BY PosixIsBalanced, Win16IsBalanced, Win32IsBalanced, AmigaosIsBalanced, LibusbUmsIsBalanced,
     LibusbBulkIsBalanced, LibusbSearchIsBalanced, CesgIsBalanced, WinusbIsBalanced,
     VolmgrIsBalanced, Win32SearchIsBalanced DEF Openings
<1> QED
  BY <1>1 DEF Balanced

LEMMA OpeningsAreOpenings ==
  /\ Systems \subseteq Openings /\ Opening!Searches \subseteq Openings
  /\ \A interface : Opening!OpeningsFor(interface) \subseteq Openings \ Opening!Searches
<1>1. Systems \subseteq Openings
  BY SystemsAssumption DEF Openings
<1>2. ASSUME NEW interface PROVE Opening!OpeningsFor(interface) \subseteq Openings \ Opening!Searches
  BY DEF Openings, Opening!OpeningsFor, Opening!Searches
<1> QED
  BY <1>1, <1>2 DEF Openings, Opening!Searches

(* What a link or a caller has besides the context.                        *)
Taken == Opening!Resources \ Opening!ContextPointers

(* What an opening that runs holds: what it has of its own, the memory of  *)
(* a long path, the link it has made, and the name of a device it has      *)
(* looked for.                                                             *)
OpeningHolds ==
  pc \in {"calls", "init"} =>
    /\ opening \in Openings /\ step \in 1 .. Len(Opening!CallsOf(opening)) + 1
    /\ \A r \in Own : held[r] = 1 <=> Has(opening, step, r)
    /\ held["link"] = 1 <=> pc = "init"
    /\ held["path"] = 1 => PathAt(opening, step)
    /\ pc = "init" => step = Len(Opening!CallsOf(opening)) + 1
    /\ result = "none"

SearchHolds ==
  Opening!Searching => attempts >= 1 /\ (found = Opening!Nowhere => held["name"] = 0)

(* What has been given back twice.                                         *)
TwiceKnown ==
  /\ pc \in {"calls", "init", "given"} => twice = {}
  /\ twice \subseteq Opening!GivenBackTwice(opening, step)
  /\ twice # {} => result = "error"

(* The resources held at each point of the program.                        *)
OInv ==
  /\ Opening!TypeOK
  /\ held \in [Opening!Resources -> {0, 1}]
  /\ pc \in {"idle", "stopped"} => \A r \in Taken : held[r] = 0
  /\ OpeningHolds
  /\ SearchHolds
  /\ pc = "given" =>
       /\ opening \in Openings
       /\ \A r \in Taken : held[r] = 1 <=> r \in Opening!HeldByLink
  /\ pc = "destroyed" => \A r \in Opening!Resources : held[r] = 0
  /\ TwiceKnown
  /\ pc = "idle" /\ result = "OK" => Opening!ListsDevices

LEMMA TakenIsOwn ==
  /\ \A r : r \in Taken <=> r \in Own \/ r \in {"name", "path", "link"}
  /\ "name" \notin Own /\ "link" \notin Own /\ "path" \notin Own
  /\ \A r : r \in Opening!Resources <=> r \in Taken \/ r \in Opening!ContextPointers
  /\ \A r \in Taken : r \notin Opening!ContextPointers
BY DEF Taken, Own, Opening!Resources, Opening!ContextPointers

LEMMA OpeningsAreCounted == MaxOpenings \in Nat /\ MaxPlugs \in Nat /\ SearchAttempts \in Nat \ {0}
BY BoundsAssumption, SearchAssumption

(* The search is a sequence of calls too: it lists the devices, and goes   *)
(* on to the next from a call before which it has the same.                *)
LEMMA SearchesHave ==
  ASSUME NEW o \in Opening!Searches
  PROVE  /\ o \in {"libusb_search", "win32_search"} /\ o \in Openings
         /\ Len(Opening!CallsOf(o)) = IF o = "win32_search" THEN 9 ELSE 4
         /\ \A r : Has(o, Len(Opening!CallsOf(o)) - 1, r) <=> Has(o, IF o = "win32_search" THEN 4 ELSE 3, r)
         /\ \A r : ~Has(o, Len(Opening!CallsOf(o)) + 1, r)
         /\ \A i \in {3, 4} : \A r : o = "win32_search" /\ Has(o, i, r) => r \in {"list", "hub"}
         /\ \A i : ~PathAt(o, i)
<1>1. o \in {"libusb_search", "win32_search"} /\ o \in Openings
  BY DEF Opening!Searches, Openings
<1>2. Len(Opening!CallsOf(o)) = IF o = "win32_search" THEN 9 ELSE 4
  BY <1>1, LibusbSearchIsBalanced, Win32SearchIsBalanced DEF Balanced
<1>3. CASE o = "win32_search"
  <2>1. Len(Opening!CallsOf(o)) = 9 /\ 9 - 1 = 8 /\ 9 + 1 = 10
    BY <1>2, <1>3
  <2>2. \A r : Has(o, 8, r) <=> Has(o, 4, r)
    BY <1>3 DEF Has, HasAtHub
  <2>3. \A r : ~Has(o, 10, r)
    BY <1>3 DEF Has, HasAtHub
  <2>4. \A r : (Has(o, 3, r) \/ Has(o, 4, r)) => r \in {"list", "hub"}
    BY <1>3 DEF Has, HasAtHub
  <2>5. \A i : ~PathAt(o, i)
    BY <1>3 DEF PathAt
  <2> QED
    BY <1>1, <1>3, <2>1, <2>2, <2>3, <2>4, <2>5
<1>4. CASE o = "libusb_search"
  <2>1. Len(Opening!CallsOf(o)) = 4 /\ 4 - 1 = 3 /\ 4 + 1 = 5
    BY <1>2, <1>4
  <2>2. \A r : ~Has(o, 5, r)
    BY <1>4 DEF Has
  <2>3. \A i : ~PathAt(o, i)
    BY <1>4 DEF PathAt
  <2> QED
    BY <1>1, <1>4, <2>1, <2>2, <2>3
<1> QED
  BY <1>1, <1>3, <1>4

(* An opening that begins, or that the search goes over to, over nothing   *)
(* but perhaps the name of its device.                                     *)
LEMMA OpeningStarts ==
  ASSUME NEW o \in Openings
  PROVE  /\ 1 \in 1 .. Len(Opening!CallsOf(o)) + 1
         /\ \A r : ~Has(o, 1, r)
         /\ ~PathAt(o, 1)
<1>1. Len(Opening!CallsOf(o)) \in 1 .. 15 /\ \A r : ~Has(o, 1, r)
  BY OpeningsAreBalanced DEF Balanced
<1> QED
  BY <1>1 DEF PathAt

LEMMA BeginsAnew ==
  ASSUME OInv, Opening!Begins, opening' \in Openings, Opening!TypeOK',
         opening' \in Opening!Searches => attempts' >= 1
  PROVE  OInv'
<1>1. /\ step' = 1 /\ held' = held /\ result' = "none" /\ pc = "idle" /\ pc' = "calls"
      /\ twice' = {}
  BY DEF Opening!Begins
<1>2. /\ 1 \in 1 .. Len(Opening!CallsOf(opening')) + 1
      /\ \A r : ~Has(opening', 1, r)
  BY OpeningStarts
<1>3. held \in [Opening!Resources -> {0, 1}] /\ \A r \in Taken : held[r] = 0
  BY <1>1 DEF OInv
<1>4. (\A r \in Own : held[r] = 0) /\ held["link"] = 0 /\ held["path"] = 0 /\ held["name"] = 0
  BY <1>3, TakenIsOwn
<1>5. OpeningHolds'
  BY <1>1, <1>2, <1>4 DEF OpeningHolds
<1>6. SearchHolds'
  BY <1>1, <1>4 DEF SearchHolds, Opening!Searching
<1>7. TwiceKnown'
  BY <1>1 DEF TwiceKnown
<1> HIDE DEF OpeningHolds, SearchHolds, TwiceKnown
<1> QED
  BY <1>1, <1>3, <1>5, <1>6, <1>7 DEF OInv

LEMMA CallsBegin == OInv /\ Opening!Call => OInv'
<1> SUFFICES ASSUME OInv, Opening!Call PROVE OInv'
  OBVIOUS
<1>0. Opening!TypeOK
  BY DEF OInv
<1>b. ASSUME Opening!Begins
      PROVE  /\ calls' \in 0 .. MaxOpenings /\ step' \in 1 .. 16 /\ pc' = "calls"
             /\ UNCHANGED <<system, held, bus, plugs>> /\ result' = "none" /\ linkp' = "unset"
             /\ failed' = FALSE /\ twice' = {}
  <2>1. calls' \in 0 .. MaxOpenings
    BY <1>0, <1>b, OpeningsAreCounted DEF Opening!Begins, Opening!TypeOK
  <2> QED
    BY <1>b, <2>1 DEF Opening!Begins, Opening!busVars
<1>1. CASE Opening!OpenSerial
  <2>1. Opening!Begins /\ opening' = system /\ UNCHANGED <<filter, found, attempts>>
    BY <1>1 DEF Opening!OpenSerial, Opening!searchVars
  <2>2. Opening!TypeOK'
    BY <1>0, <1>b, <2>1 DEF Opening!TypeOK
  <2>3. opening' \in Openings /\ opening' \notin Opening!Searches
    BY <1>0, <2>1, OpeningsAreOpenings, SystemsAssumption DEF Opening!TypeOK, Opening!Searches
  <2> QED
    BY <2>1, <2>2, <2>3, BeginsAnew
<1>2. ASSUME NEW d \in Opening!Devices, Opening!OpenUsb(d) PROVE OInv'
  <2>1. /\ Opening!Begins /\ found' = d /\ opening' \in Opening!OpeningsFor(Opening!Interface(d))
        /\ UNCHANGED <<filter, attempts>>
    BY <1>2 DEF Opening!OpenUsb
  <2>2. Opening!TypeOK'
    BY <1>0, <1>b, <2>1 DEF Opening!TypeOK
  <2>3. opening' \in Openings /\ opening' \notin Opening!Searches
    BY <2>1, OpeningsAreOpenings
  <2> QED
    BY <2>1, <2>2, <2>3, BeginsAnew
<1>3. ASSUME NEW interfaces \in {{"serial", "ums"}, {"serial"}, {"ums"}},
             Opening!OpenSimpleUsb(interfaces)
      PROVE  OInv'
  <2>1. /\ Opening!Begins /\ filter' = interfaces /\ found' = Opening!Nowhere
        /\ attempts' = SearchAttempts /\ opening' \in Opening!Searches
    BY <1>3 DEF Opening!OpenSimpleUsb, Opening!Searches
  <2>2. interfaces \subseteq {"serial", "ums"} /\ attempts' \in 0 .. SearchAttempts /\ attempts' >= 1
    BY <1>3, <2>1, OpeningsAreCounted
  <2>3. Opening!TypeOK'
    BY <1>0, <1>b, <2>1, <2>2 DEF Opening!TypeOK
  <2> QED
    BY <2>1, <2>2, <2>3, OpeningsAreOpenings, BeginsAnew
<1>4. CASE Opening!Close
  <2>1. /\ pc = "given" /\ pc' = "idle" /\ result' = "none" /\ linkp' = "unset"
        /\ held' = [r \in Opening!Resources |->
                      IF r \in Opening!HeldByLink THEN held[r] - 1 ELSE held[r]]
        /\ UNCHANGED <<system, calls, opening, step, filter, found, attempts, bus, plugs, failed, twice>>
    BY <1>4 DEF Opening!Close, Opening!Less, Opening!HeldByLink, Opening!searchVars, Opening!busVars
  <2>2. /\ opening \in Openings /\ held \in [Opening!Resources -> {0, 1}] /\ twice = {}
        /\ \A r \in Taken : held[r] = 1 <=> r \in Opening!HeldByLink
    BY <2>1 DEF OInv, TwiceKnown
  <2>3. \A r \in Opening!HeldByLink : r \in Taken /\ held[r] = 1
    BY <2>2, OfItsOwn, TakenIsOwn DEF Opening!HeldByLink
  <2>4. held' \in [Opening!Resources -> {0, 1}] /\ \A r \in Taken : held'[r] = 0
    BY <2>1, <2>2, <2>3, TakenIsOwn
  <2>5. Opening!TypeOK'
    BY <1>0, <2>1, <2>4 DEF Opening!TypeOK
  <2> QED
    BY <2>1, <2>2, <2>4, <2>5 DEF OInv, OpeningHolds, SearchHolds, TwiceKnown, Opening!Searching
<1>5. CASE Opening!Destroy
  <2>1. /\ pc = "idle" /\ pc' = "destroyed"
        /\ held' = [r \in Opening!Resources |->
                      IF r \in Opening!HasSome(Opening!ContextPointers) THEN held[r] - 1 ELSE held[r]]
        /\ UNCHANGED <<system, calls, result, opening, step, linkp, filter, found, attempts, bus, plugs,
                       failed, twice>>
    BY <1>5 DEF Opening!Destroy, Opening!Less, Opening!linkVars, Opening!searchVars, Opening!busVars
  <2>2. held \in [Opening!Resources -> {0, 1}] /\ \A r \in Taken : held[r] = 0
    BY <2>1 DEF OInv
  <2>3. held' \in [Opening!Resources -> {0, 1}] /\ \A r \in Opening!Resources : held'[r] = 0
    BY <2>1, <2>2, TakenIsOwn DEF Opening!HasSome
  <2>4. Opening!TypeOK'
    BY <1>0, <2>1, <2>3 DEF Opening!TypeOK
  <2>5. TwiceKnown'
    BY <2>1 DEF OInv, TwiceKnown
  <2> QED
    BY <2>1, <2>3, <2>4, <2>5 DEF OInv, OpeningHolds, SearchHolds, Opening!Searching
<1> QED
  BY <1>1, <1>2, <1>3, <1>4, <1>5 DEF Opening!Call

(* A search that goes on holds what it has.                                *)
LEMMA SearchGoesOn ==
  ASSUME OInv, Opening!Searching, pc' = pc, opening' = opening, result' = result, twice' = twice,
         Opening!TypeOK', held' \in [Opening!Resources -> {0, 1}],
         step' \in 1 .. Len(Opening!CallsOf(opening)) + 1,
         \A r \in Own : held'[r] = 1 <=> Has(opening, step', r),
         held'["link"] = held["link"], held'["path"] = held["path"],
         attempts' >= 1, found' = Opening!Nowhere => held'["name"] = 0
  PROVE  OInv'
<1>1. pc = "calls" /\ opening \in Opening!Searches
  BY DEF Opening!Searching
<1>2. /\ opening \in Openings /\ result = "none" /\ twice = {}
      /\ held["link"] = 1 <=> pc = "init"
      /\ held["path"] = 1 => PathAt(opening, step)
  BY <1>1 DEF OInv, OpeningHolds, TwiceKnown
<1>3. ~PathAt(opening, step)
  BY <1>1, SearchesHave
<1>4. OpeningHolds'
  BY <1>1, <1>2, <1>3 DEF OpeningHolds
<1>5. SearchHolds' /\ TwiceKnown'
  BY <1>2 DEF SearchHolds, TwiceKnown
<1> QED
  BY <1>1, <1>4, <1>5 DEF OInv

LEMMA ADeviceIsFound ==
  ASSUME OInv, NEW d \in Opening!Devices, Opening!Finds(d)
  PROVE  OInv'
<1>0. Opening!TypeOK
  BY DEF OInv
<1>1. /\ Opening!Searching /\ step = Len(Opening!CallsOf(opening)) - 1 /\ found = Opening!Nowhere
      /\ found' = d /\ step' = IF opening = "win32_search" THEN 4 ELSE 3
      /\ held' = held \/ held' = [held EXCEPT !["name"] = @ + 1]
      /\ UNCHANGED <<system, pc, calls, result, opening, linkp, filter, attempts, bus, plugs, failed, twice>>
  BY DEF Opening!Finds, Opening!Reports, Opening!NextDevice, Opening!busVars
<1>2. opening \in Opening!Searches /\ pc = "calls"
  BY <1>1 DEF Opening!Searching
<1>3. /\ held \in [Opening!Resources -> {0, 1}] /\ held["name"] = 0 /\ attempts >= 1
      /\ \A r \in Own : held[r] = 1 <=> Has(opening, step, r)
  BY <1>1, <1>2 DEF OInv, OpeningHolds, SearchHolds
<1>4. "name" \in Opening!Resources /\ "name" \notin Own
  BY TakenIsOwn
<1>5. /\ held' \in [Opening!Resources -> {0, 1}]
      /\ \A r \in Opening!Resources : r # "name" => held'[r] = held[r]
  BY <1>1, <1>3, <1>4
<1>6. \A r \in Own : r \in Opening!Resources /\ r # "name"
  BY TakenIsOwn
<1>7. \A r : Has(opening, step', r) <=> Has(opening, step, r)
  BY <1>1, <1>2, SearchesHave
<1>8. \A r \in Own : held'[r] = 1 <=> Has(opening, step', r)
  BY <1>3, <1>5, <1>6, <1>7
<1>9. step' \in 1 .. Len(Opening!CallsOf(opening)) + 1 /\ step' \in 1 .. 16
  BY <1>1, <1>2, SearchesHave
<1>10. Opening!TypeOK'
  BY <1>0, <1>1, <1>5, <1>9 DEF Opening!TypeOK
<1>11. held'["link"] = held["link"] /\ held'["path"] = held["path"]
  BY <1>5, TakenIsOwn
<1>12. found' # Opening!Nowhere
  BY <1>1, DevicesAssumption DEF Opening!Devices, Opening!Nowhere
<1> QED
  BY <1>1, <1>3, <1>5, <1>8, <1>9, <1>10, <1>11, <1>12, SearchGoesOn

LEMMA DevicesArePassedOver == OInv /\ Opening!PassesOver => OInv'
<1> SUFFICES ASSUME OInv, Opening!PassesOver PROVE OInv'
  OBVIOUS
<1>0. Opening!TypeOK
  BY DEF OInv
<1>1. /\ Opening!Searching /\ opening = "win32_search" /\ step \in {3, 4}
      /\ step' = Len(Opening!CallsOf(opening)) + 1
      /\ held' = [r \in Opening!Resources |->
                    IF r \in Opening!HasSome({"list", "hub"}) THEN held[r] - 1 ELSE held[r]]
      /\ failed' \in BOOLEAN
      /\ UNCHANGED <<system, pc, calls, result, opening, linkp, filter, found, attempts, bus, plugs, twice>>
  BY <1>0 DEF Opening!PassesOver, Opening!Less, Opening!searchVars, Opening!busVars, Opening!TypeOK
<1>2. opening \in Opening!Searches /\ pc = "calls"
  BY <1>1 DEF Opening!Searching
<1>3. /\ held \in [Opening!Resources -> {0, 1}] /\ attempts >= 1
      /\ found = Opening!Nowhere => held["name"] = 0
      /\ \A r \in Own : held[r] = 1 <=> Has(opening, step, r)
  BY <1>1, <1>2 DEF OInv, OpeningHolds, SearchHolds
<1>4. \A r : r \in Opening!HasSome({"list", "hub"}) <=> r \in {"list", "hub"} /\ held[r] > 0
  BY DEF Opening!HasSome
<1>5. \A r \in {"list", "hub"} : r \in Own /\ r \in Opening!Resources
  BY OwnResources, TakenIsOwn
<1>6. held' \in [Opening!Resources -> {0, 1}]
  BY <1>1, <1>3, <1>4, <1>5
<1>7. /\ \A r : Has(opening, step, r) => r \in {"list", "hub"}
      /\ \A r : ~Has(opening, step', r)
      /\ step' \in 1 .. Len(Opening!CallsOf(opening)) + 1 /\ step' \in 1 .. 16
  <2>1. /\ Len(Opening!CallsOf(opening)) = 9
        /\ \A r : ~Has(opening, Len(Opening!CallsOf(opening)) + 1, r)
        /\ \A i \in {3, 4} : \A r : Has(opening, i, r) => r \in {"list", "hub"}
    <3>1. opening = "win32_search" /\ opening \in Opening!Searches
      BY <1>1, <1>2
    <3>2. Len(Opening!CallsOf(opening)) = 9
      BY <3>1, SearchesHave
    <3>3. \A r : ~Has(opening, Len(Opening!CallsOf(opening)) + 1, r)
      BY <3>1, SearchesHave
    <3>4. \A i \in {3, 4} : \A r : Has(opening, i, r) => r \in {"list", "hub"}
      BY <3>1, SearchesHave
    <3> QED
      BY <3>2, <3>3, <3>4
  <2>2. step' = 10
    <3>1. step' = Len(Opening!CallsOf(opening)) + 1
      BY <1>1
    <3>2. Len(Opening!CallsOf(opening)) = 9 /\ 9 + 1 = 10
      BY <2>1
    <3> QED
      BY <3>1, <3>2
  <2>3. 10 \in 1 .. 9 + 1 /\ 10 \in 1 .. 16
    OBVIOUS
  <2> QED
    BY <1>1, <2>1, <2>2, <2>3
<1>8. ASSUME NEW r \in Own PROVE held'[r] = 0
  <2>1. r \in Opening!Resources /\ held[r] \in {0, 1} /\ (held[r] = 1 => r \in {"list", "hub"})
    BY <1>3, <1>7, TakenIsOwn
  <2> QED
    BY <1>1, <1>4, <2>1
<1>9. Opening!TypeOK'
  BY <1>0, <1>1, <1>6, <1>7 DEF Opening!TypeOK
<1>10. held'["link"] = held["link"] /\ held'["path"] = held["path"] /\ held'["name"] = held["name"]
  BY <1>1, <1>4, TakenIsOwn
<1>11. \A r \in Own : held'[r] = 1 <=> Has(opening, step', r)
  BY <1>7, <1>8
<1>12. attempts' >= 1 /\ (found' = Opening!Nowhere => held'["name"] = 0)
  BY <1>1, <1>3, <1>10
<1> QED
  BY <1>1, <1>6, <1>7, <1>9, <1>10, <1>11, <1>12, SearchGoesOn

(* A search that has gone through the devices holds nothing but perhaps    *)
(* the name of the one it has found.                                       *)
LEMMA SearchIsOver ==
  ASSUME OInv, Opening!Searching, step = Len(Opening!CallsOf(opening)) + 1
  PROVE  /\ pc = "calls" /\ opening \in Opening!Searches /\ opening \in Openings
         /\ held \in [Opening!Resources -> {0, 1}] /\ result = "none" /\ twice = {}
         /\ \A r \in Taken : r # "name" => held[r] = 0
         /\ attempts >= 1 /\ (found = Opening!Nowhere => held["name"] = 0)
<1>1. pc = "calls" /\ opening \in Opening!Searches
  BY DEF Opening!Searching
<1>2. /\ opening \in Openings /\ result = "none" /\ twice = {}
      /\ \A r \in Own : held[r] = 1 <=> Has(opening, step, r)
      /\ held["link"] = 1 <=> pc = "init"
      /\ held["path"] = 1 => PathAt(opening, step)
      /\ attempts >= 1 /\ (found = Opening!Nowhere => held["name"] = 0)
      /\ held \in [Opening!Resources -> {0, 1}]
  BY <1>1 DEF OInv, OpeningHolds, SearchHolds, TwiceKnown
<1>3. (\A r : ~Has(opening, step, r)) /\ ~PathAt(opening, step)
  BY <1>1, SearchesHave
<1>4. \A r \in Own \union {"link", "path"} : held[r] = 0
  BY <1>1, <1>2, <1>3, TakenIsOwn
<1> QED
  BY <1>1, <1>2, <1>4, TakenIsOwn

(* What a call without a link returns with, when it has given all back.    *)
LEMMA CallIsOver ==
  ASSUME OInv, pc' \in {"idle", "stopped"}, Opening!TypeOK',
         held' \in [Opening!Resources -> {0, 1}], \A r \in Taken : held'[r] = 0,
         TwiceKnown', pc' = "idle" /\ result' = "OK" => Opening!ListsDevices'
  PROVE  OInv'
BY DEF OInv, OpeningHolds, SearchHolds, Opening!Searching

LEMMA SearchReturns == OInv /\ Opening!Search => OInv'
<1> SUFFICES ASSUME OInv, Opening!Search PROVE OInv'
  OBVIOUS
<1>0. Opening!TypeOK /\ Opening!Searching /\ step = Len(Opening!CallsOf(opening)) + 1
  BY DEF OInv, Opening!Search
<1>1. /\ pc = "calls" /\ opening \in Opening!Searches /\ opening \in Openings
      /\ held \in [Opening!Resources -> {0, 1}] /\ result = "none" /\ twice = {}
      /\ \A r \in Taken : r # "name" => held[r] = 0
      /\ attempts >= 1 /\ (found = Opening!Nowhere => held["name"] = 0)
  BY <1>0, SearchIsOver
<1>2. CASE Opening!OpensFound
  <2>1. /\ found # Opening!Nowhere /\ opening' \in Opening!OpeningsFor(Opening!Interface(found))
        /\ step' = 1 /\ failed' \in BOOLEAN
        /\ UNCHANGED <<system, pc, calls, result, linkp, held, filter, found, attempts, bus, plugs, twice>>
    BY <1>0, <1>2 DEF Opening!OpensFound, Opening!searchVars, Opening!busVars, Opening!TypeOK
  <2>2. opening' \in Openings /\ opening' \notin Opening!Searches
    BY <2>1, OpeningsAreOpenings
  <2>3. 1 \in 1 .. Len(Opening!CallsOf(opening')) + 1 /\ \A r : ~Has(opening', 1, r)
    BY <2>2, OpeningStarts
  <2>4. (\A r \in Own : held[r] = 0) /\ held["link"] = 0 /\ held["path"] = 0
    BY <1>1, TakenIsOwn
  <2>5. Opening!TypeOK'
    BY <1>0, <2>1 DEF Opening!TypeOK
  <2>6. OpeningHolds'
    BY <1>1, <2>1, <2>2, <2>3, <2>4 DEF OpeningHolds
  <2>7. SearchHolds' /\ TwiceKnown'
    BY <1>1, <2>1, <2>2 DEF SearchHolds, TwiceKnown, Opening!Searching
  <2> QED
    BY <1>1, <2>1, <2>5, <2>6, <2>7 DEF OInv
<1>3. CASE Opening!FindsMany
  <2>1. /\ pc' = "idle" /\ result' = "TOO_MANY"
        /\ held' = [r \in Opening!Resources |->
                      IF r \in {} \union Opening!HasSome(Opening!GivenBackAround)
                      THEN held[r] - 1 ELSE held[r]]
        /\ UNCHANGED <<system, calls, opening, step, linkp, filter, found, attempts, bus, plugs, failed, twice>>
    BY <1>3 DEF Opening!FindsMany, Opening!Returns, Opening!Less, Opening!searchVars, Opening!busVars
  <2>2. /\ \A r \in Opening!HasSome(Opening!GivenBackAround) : held[r] > 0
        /\ held["name"] > 0 => "name" \in Opening!HasSome(Opening!GivenBackAround)
    BY DEF Opening!HasSome, Opening!GivenBackAround
  <2>3. held' \in [Opening!Resources -> {0, 1}]
    BY <1>1, <2>1, <2>2
  <2>4. ASSUME NEW r \in Taken PROVE held'[r] = 0
    <3>1. r \in Opening!Resources /\ held[r] \in {0, 1} /\ (r # "name" => held[r] = 0)
      BY <1>1, TakenIsOwn
    <3> QED
      BY <2>1, <2>2, <3>1
  <2>5. Opening!TypeOK' /\ TwiceKnown'
    BY <1>0, <1>1, <2>1, <2>3 DEF Opening!TypeOK, TwiceKnown
  <2> QED
    BY <2>1, <2>3, <2>4, <2>5, CallIsOver
<1>4. CASE Opening!FindsNone
  <2>1. /\ found = Opening!Nowhere /\ failed' \in BOOLEAN /\ attempts' = attempts - 1
        /\ \/ attempts = 1 /\ pc' = "idle" /\ result' = "NOT_FOUND" /\ step' = step
           \/ attempts # 1 /\ step' = 1 /\ pc' = pc /\ result' = result
        /\ UNCHANGED <<system, calls, opening, linkp, held, filter, found, bus, plugs, twice>>
    BY <1>0, <1>4 DEF Opening!FindsNone, Opening!busVars, Opening!TypeOK
  <2>2. /\ attempts' \in 0 .. SearchAttempts
        /\ attempts # 1 => attempts' >= 1
    BY <1>0, <1>1, <2>1, OpeningsAreCounted DEF Opening!TypeOK
  <2>3. step' \in 1 .. 16 /\ result' \in {"none", "NOT_FOUND"} /\ pc' \in {"idle", "calls"}
    BY <1>0, <1>1, <2>1 DEF Opening!TypeOK
  <2>4. Opening!TypeOK'
    BY <1>0, <2>1, <2>2, <2>3 DEF Opening!TypeOK
  <2>5. \A r \in Taken : held'[r] = 0
    BY <1>1, <2>1
  <2>6. CASE pc' = "idle"
    <3>1. TwiceKnown'
      BY <1>1, <2>1, <2>6 DEF TwiceKnown
    <3> QED
      BY <1>1, <2>1, <2>4, <2>5, <2>6, <3>1, CallIsOver
  <2>7. CASE pc' = "calls"
    <3>1. step' = 1 /\ pc' = pc /\ result' = result /\ attempts' >= 1
      BY <1>1, <2>1, <2>2, <2>7
    <3>2. 1 \in 1 .. Len(Opening!CallsOf(opening)) + 1 /\ \A r : ~Has(opening, 1, r)
      BY <1>1, OpeningStarts
    <3>3. (\A r \in Own : held'[r] = 0) /\ held'["name"] = 0
      BY <2>5, TakenIsOwn
    <3> QED
      BY <1>0, <1>1, <2>1, <2>4, <3>1, <3>2, <3>3, SearchGoesOn
  <2> QED
    BY <2>3, <2>6, <2>7
<1> QED
  BY <1>2, <1>3, <1>4 DEF Opening!Search

LEMMA SearchStops == OInv /\ Opening!SearchFails => OInv'
<1> SUFFICES ASSUME OInv, Opening!SearchFails PROVE OInv'
  OBVIOUS
<1>1. /\ Opening!Searching /\ step = 1 /\ pc' = "idle" /\ result' = "error" /\ failed' = TRUE
      /\ held' = [r \in Opening!Resources |->
                    IF r \in {} \union Opening!HasSome(Opening!GivenBackAround)
                    THEN held[r] - 1 ELSE held[r]]
      /\ UNCHANGED <<system, calls, opening, step, linkp, filter, found, attempts, bus, plugs, twice>>
  BY DEF Opening!SearchFails, Opening!Returns, Opening!Less, Opening!searchVars, Opening!busVars
<1>2. pc = "calls" /\ opening \in Opening!Searches
  BY <1>1 DEF Opening!Searching
<1>3. /\ opening \in Openings /\ held \in [Opening!Resources -> {0, 1}] /\ twice = {}
      /\ \A r \in Own : held[r] = 1 <=> Has(opening, step, r)
      /\ held["link"] = 1 <=> pc = "init"
      /\ held["path"] = 1 => PathAt(opening, step)
  BY <1>1, <1>2 DEF OInv, OpeningHolds, TwiceKnown
<1>4. (\A r : ~Has(opening, step, r)) /\ ~PathAt(opening, step)
  BY <1>1, <1>3, OpeningStarts
<1>5. /\ \A r \in Opening!HasSome(Opening!GivenBackAround) : held[r] > 0
      /\ held["name"] > 0 => "name" \in Opening!HasSome(Opening!GivenBackAround)
  BY DEF Opening!HasSome, Opening!GivenBackAround
<1>6. held' \in [Opening!Resources -> {0, 1}]
  BY <1>1, <1>3, <1>5
<1>7. ASSUME NEW r \in Taken PROVE held'[r] = 0
  <2>1. r \in Opening!Resources /\ held[r] \in {0, 1}
    BY <1>3, TakenIsOwn
  <2>2. r # "name" => held[r] = 0
    BY <1>2, <1>3, <1>4, <2>1, TakenIsOwn
  <2> QED
    BY <1>1, <1>5, <2>1, <2>2
<1>8. Opening!TypeOK' /\ TwiceKnown'
  BY <1>1, <1>3, <1>6 DEF OInv, Opening!TypeOK, TwiceKnown
<1> QED
  BY <1>1, <1>6, <1>7, <1>8, CallIsOver

LEMMA PlugTakesNothing ==
  ASSUME OInv, NEW d \in Opening!Devices, Opening!Plug(d)
  PROVE  OInv'
<1>1. /\ bus' \subseteq Opening!Devices /\ plugs' \in 0 .. MaxPlugs
      /\ failed' = TRUE
      /\ UNCHANGED <<system, pc, calls, result, opening, step, linkp, held, filter, found, attempts, twice>>
  BY OpeningsAreCounted DEF OInv, Opening!TypeOK, Opening!Plug, Opening!linkVars, Opening!searchVars
<1>2. Opening!TypeOK'
  BY <1>1 DEF OInv, Opening!TypeOK
<1>3. OpeningHolds' /\ SearchHolds' /\ TwiceKnown'
  BY <1>1 DEF OInv, OpeningHolds, SearchHolds, TwiceKnown, Opening!Searching
<1> QED
  BY <1>1, <1>2, <1>3 DEF OInv, Opening!HeldByLink, Opening!ListsDevices

-----------------------------------------------------------------------------
(* The calls of the system.                                                *)
LEMMA NextIsWithin ==
  ASSUME NEW n \in 1 .. 15, NEW i \in 1 .. n
  PROVE  i + 1 \in 1 .. n + 1 /\ i + 1 \in 1 .. 16
OBVIOUS

LEMMA NextCallSucceeds == OInv /\ Opening!CallSucceeds => OInv'
<1> SUFFICES ASSUME OInv, Opening!CallSucceeds PROVE OInv'
  OBVIOUS
<1> DEFINE c == Opening!CallsOf(opening)[step]
<1>1. /\ pc = "calls" /\ pc' = pc /\ step' = step + 1 /\ step <= Len(Opening!CallsOf(opening))
      /\ \E taken \in {c.takes, c.takes \ {"path"}} :
           held' = [r \in Opening!Resources |->
                      CASE r \in c.keeps -> 1
                        [] r \in taken   -> held[r] + 1
                        [] r \in c.drops -> held[r] - 1
                        [] OTHER         -> held[r]]
      /\ UNCHANGED <<system, calls, result, opening, linkp, filter, found, attempts, bus, plugs, failed, twice>>
  BY DEF Opening!CallSucceeds, Opening!searchVars, Opening!busVars
<1>2. PICK taken \in {c.takes, c.takes \ {"path"}} :
        held' = [r \in Opening!Resources |->
                   CASE r \in c.keeps -> 1
                     [] r \in taken   -> held[r] + 1
                     [] r \in c.drops -> held[r] - 1
                     [] OTHER         -> held[r]]
  BY <1>1
<1>3. /\ opening \in Openings /\ step \in 1 .. Len(Opening!CallsOf(opening))
      /\ result = "none" /\ twice = {}
      /\ held \in [Opening!Resources -> {0, 1}]
      /\ \A r \in Own : held[r] = 1 <=> Has(opening, step, r)
      /\ held["link"] = 1 <=> pc = "init"
      /\ held["path"] = 1 => PathAt(opening, step)
  <2>1. step \in 1 .. 16
    BY DEF OInv, Opening!TypeOK
  <2>2. Len(Opening!CallsOf(opening)) \in Int
    BY <1>1, OpeningsAreBalanced DEF OInv, OpeningHolds
  <2> QED
    BY <1>1, <2>1, <2>2 DEF OInv, OpeningHolds, TwiceKnown
<1>4. Len(Opening!CallsOf(opening)) \in 1 .. 15 /\ CallIsBalanced(opening, step)
  BY <1>3, OpeningsAreBalanced DEF Balanced
<1>5. /\ c.keeps \subseteq Opening!ContextPointers
      /\ c.takes \subseteq Own \union {"path"} /\ \A r \in c.takes : ~Has(opening, step, r)
      /\ "path" \in c.takes => ~PathAt(opening, step) /\ PathAt(opening, step + 1)
      /\ PathAt(opening, step) => PathAt(opening, step + 1)
      /\ \A r \in c.drops : Has(opening, step, r)
      /\ \A r \in Own : Has(opening, step + 1, r) <=> (Has(opening, step, r) \/ r \in c.takes) /\ r \notin c.drops
  BY <1>4 DEF CallIsBalanced
<1>6. c.drops \subseteq Own
  BY <1>3, <1>5, OfItsOwn
<1> HIDE DEF c
<1>7. /\ taken \subseteq Own \union {"path"}
      /\ \A r \in Own : r \in taken <=> r \in c.takes
      /\ "path" \in taken => "path" \in c.takes
  BY <1>2, <1>5, TakenIsOwn
<1>8. held' \in [Opening!Resources -> {0, 1}]
  <2>1. ASSUME NEW r \in Opening!Resources PROVE held'[r] \in {0, 1}
    <3>1. held[r] \in {0, 1}
      BY <1>3
    <3>2. r \in c.drops => held[r] = 1
      BY <1>3, <1>5, <1>6
    <3>3. r \in taken /\ r \in Own => held[r] = 0
      BY <1>3, <1>5, <1>7, <3>1
    <3>4. r \in taken /\ r \notin Own => held[r] = 0
      BY <1>3, <1>5, <1>7, <3>1
    <3> QED
      BY <1>2, <3>1, <3>2, <3>3, <3>4
  <2> QED
    BY <1>2, <2>1
<1>9. ASSUME NEW r \in Own PROVE held'[r] = 1 <=> Has(opening, step + 1, r)
  <2>1. r \in Opening!Resources /\ r \notin c.keeps /\ held[r] \in {0, 1}
    BY <1>3, <1>5, TakenIsOwn
  <2>2. held[r] = 1 <=> Has(opening, step, r)
    BY <1>3
  <2>3. r \in c.takes => ~Has(opening, step, r)
    BY <1>5
  <2>4. r \in c.drops => Has(opening, step, r)
    BY <1>5
  <2>5. Has(opening, step + 1, r) <=> (Has(opening, step, r) \/ r \in c.takes) /\ r \notin c.drops
    BY <1>5
  <2>6. r \in taken <=> r \in c.takes
    BY <1>7
  <2> QED
    BY <1>2, <2>1, <2>2, <2>3, <2>4, <2>5, <2>6
<1>10. ASSUME NEW r \in {"name", "link"} PROVE held'[r] = held[r]
  BY <1>2, <1>5, <1>6, <1>7, <1>10, TakenIsOwn
<1>11. held'["path"] = 1 => PathAt(opening, step + 1)
  <2>1. "path" \notin c.keeps /\ "path" \notin c.drops /\ "path" \in Opening!Resources
    BY <1>5, <1>6, TakenIsOwn
  <2>2. "path" \notin taken => held'["path"] = held["path"]
    BY <1>2, <2>1
  <2> QED
    BY <1>3, <1>5, <1>7, <2>2
<1>12. step' \in 1 .. Len(Opening!CallsOf(opening)) + 1 /\ step' \in 1 .. 16
  BY <1>1, <1>3, <1>4, NextIsWithin
<1>13. Opening!TypeOK'
  BY <1>1, <1>8, <1>12 DEF OInv, Opening!TypeOK
<1>14. OpeningHolds'
  BY <1>1, <1>3, <1>9, <1>10, <1>11, <1>12 DEF OpeningHolds
<1>15. SearchHolds' /\ TwiceKnown'
  BY <1>1, <1>3, <1>10 DEF OInv, SearchHolds, TwiceKnown, Opening!Searching
<1> QED
  BY <1>1, <1>8, <1>13, <1>14, <1>15 DEF OInv

(* The path is asked for again: its memory is freed, and nothing else.     *)
LEMMA PathIsAskedForAgain == OInv /\ Opening!PathGrows => OInv'
<1> SUFFICES ASSUME OInv, Opening!PathGrows PROVE OInv'
  OBVIOUS
<1>1. /\ pc = "calls" /\ pc' = pc /\ step' = step - 1 /\ step <= Len(Opening!CallsOf(opening))
      /\ Opening!CallsOf(opening)[step] = Opening!GetsPath
      /\ plugs < MaxPlugs /\ plugs' = plugs + 1 /\ failed' = TRUE
      /\ held' = [r \in Opening!Resources |->
                    IF r \in Opening!HasSome({"path"}) THEN held[r] - 1 ELSE held[r]]
      /\ UNCHANGED <<system, calls, result, opening, linkp, filter, found, attempts, bus, twice>>
  BY DEF Opening!PathGrows, Opening!Less, Opening!searchVars
<1>2. /\ opening \in Openings /\ result = "none" /\ twice = {}
      /\ held \in [Opening!Resources -> {0, 1}]
      /\ \A r \in Own : held[r] = 1 <=> Has(opening, step, r)
      /\ held["link"] = 1 <=> pc = "init"
      /\ step \in 1 .. Len(Opening!CallsOf(opening)) + 1
  BY <1>1 DEF OInv, OpeningHolds, TwiceKnown
<1>3. Len(Opening!CallsOf(opening)) \in 1 .. 15
  BY <1>2, OpeningsAreBalanced
<1>4. step \in 1 .. Len(Opening!CallsOf(opening))
  BY <1>1, <1>2, <1>3
<1>5. CallIsBalanced(opening, step)
  BY <1>2, <1>4, OpeningsAreBalanced DEF Balanced
<1>6. "path" \in Opening!CallsOf(opening)[step].frees
  BY <1>1, CallFields DEF Opening!GetsPath
<1>7. step > 1 /\ \A r : Has(opening, step - 1, r) <=> Has(opening, step, r)
  BY <1>5, <1>6 DEF CallIsBalanced
<1>8. step' \in 1 .. Len(Opening!CallsOf(opening)) + 1 /\ step' \in 1 .. 16
  BY <1>1, <1>3, <1>4, <1>7
<1>9. \A r : r \in Opening!HasSome({"path"}) <=> r = "path" /\ held["path"] > 0
  BY DEF Opening!HasSome
<1>10. held' \in [Opening!Resources -> {0, 1}]
  BY <1>1, <1>2, <1>9
<1>11. \A r \in Opening!Resources : r # "path" => held'[r] = held[r]
  BY <1>1, <1>9
<1>12. held'["path"] = 0
  BY <1>1, <1>2, <1>9, TakenIsOwn
<1>13. \A r \in Own : held'[r] = 1 <=> Has(opening, step', r)
  BY <1>1, <1>2, <1>7, <1>11, TakenIsOwn
<1>14. held'["link"] = held["link"] /\ held'["name"] = held["name"]
  BY <1>11, TakenIsOwn
<1>15. plugs' \in 0 .. MaxPlugs
  BY <1>1, OpeningsAreCounted DEF OInv, Opening!TypeOK
<1>16. Opening!TypeOK'
  <2>1. Opening!TypeOK
    BY DEF OInv
  <2>2. held' \in [Opening!Resources -> Int] /\ failed' \in BOOLEAN
    BY <1>1, <1>10
  <2> QED
    BY <1>1, <1>8, <1>15, <2>1, <2>2 DEF Opening!TypeOK
<1>17. OpeningHolds'
  <2>1. pc' = "calls" /\ opening' = opening /\ result' = result
    BY <1>1
  <2>2. held'["path"] # 1 /\ held'["link"] # 1
    BY <1>1, <1>2, <1>12, <1>14
  <2> QED
    BY <1>2, <1>8, <1>13, <2>1, <2>2 DEF OpeningHolds
<1>18. SearchHolds' /\ TwiceKnown'
  BY <1>1, <1>2, <1>14 DEF OInv, SearchHolds, TwiceKnown, Opening!Searching
<1> QED
  BY <1>1, <1>10, <1>16, <1>17, <1>18 DEF OInv

(* What the functions around an opening give back, of what it has.         *)
LEMMA AroundTheOpening ==
  /\ \A r : r \in Opening!GivenBackAround <=>
              r \in Around(opening) \/ r = "name" \/ (r = "path" /\ opening \in Opening!ThroughHubs)
  /\ \A r : r \in Opening!HasSome(Opening!GivenBackAround) <=>
              r \in Opening!GivenBackAround /\ held[r] > 0
  /\ \A i : PathAt(opening, i) => opening \in Opening!ThroughHubs
BY DEF Opening!GivenBackAround, Around, PathAt, Opening!HasSome, Opening!ThroughHubs

(* A failing opening, and a link that is closed, give back all they have.  *)
LEMMA AllIsGivenBack ==
  ASSUME OInv, pc \in {"calls", "init"}, NEW back,
         \A r \in back : r \in Opening!Resources /\ r \notin Opening!ContextPointers /\ held[r] = 1,
         \A r \in Own : Has(opening, step, r) => r \in back \union Around(opening),
         pc = "init" => "link" \in back,
         held' = Opening!Less(back \union Opening!HasSome(Opening!GivenBackAround))
  PROVE  /\ held' \in [Opening!Resources -> {0, 1}]
         /\ \A r \in Taken : held'[r] = 0
<1>1. held' = [r \in Opening!Resources |->
                 IF r \in back \union Opening!HasSome(Opening!GivenBackAround)
                 THEN held[r] - 1 ELSE held[r]]
  BY DEF Opening!Less
<1>2. /\ \A r \in Opening!Resources : held[r] \in {0, 1}
      /\ opening \in Openings
      /\ \A r \in Own : held[r] = 1 <=> Has(opening, step, r)
      /\ held["link"] = 1 <=> pc = "init"
      /\ held["path"] = 1 => PathAt(opening, step)
  BY DEF OInv, OpeningHolds
<1>3. \A r \in back \union Opening!HasSome(Opening!GivenBackAround) : held[r] > 0
  BY AroundTheOpening
<1>4. ASSUME NEW r \in Opening!Resources PROVE held'[r] \in {0, 1}
  BY <1>1, <1>2, <1>3
<1>5. ASSUME NEW r \in Opening!Resources, r \in Taken,
             held[r] = 1 => r \in back \union Opening!HasSome(Opening!GivenBackAround)
      PROVE  held'[r] = 0
  BY <1>1, <1>2, <1>3, <1>5
<1>6. ASSUME NEW r \in Own PROVE held'[r] = 0
  <2>1. held[r] = 1 => r \in back \/ r \in Opening!HasSome(Opening!GivenBackAround)
    BY <1>2, AroundTheOpening
  <2> QED
    BY <1>5, <2>1, TakenIsOwn
<1>7. held'["name"] = 0
  BY <1>5, AroundTheOpening, TakenIsOwn
<1>8. held'["link"] = 0
  BY <1>2, <1>5, TakenIsOwn
<1>9. held'["path"] = 0
  <2>1. held["path"] = 1 => "path" \in Opening!HasSome(Opening!GivenBackAround)
    BY <1>2, AroundTheOpening
  <2> QED
    BY <1>5, <2>1, TakenIsOwn
<1> QED
  BY <1>1, <1>4, <1>6, <1>7, <1>8, <1>9, TakenIsOwn

(* The memory that is given back twice is of an opening of Windows.        *)
LEMMA TwiceOnWindows ==
  ASSUME NEW r \in Opening!GivenBackTwice(opening, step)
  PROVE  /\ r \in Opening!GivenBackAround
         /\ ~Opening!ListsDevices /\ ~Opening!LooksForDevice
<1>1. opening \in Opening!ThroughHubs /\ r \in {"request", "path"} /\ step \in {6, 9, 11}
  BY DEF Opening!GivenBackTwice, Opening!ThroughHubs
<1> QED
  BY <1>1 DEF Opening!GivenBackAround, Opening!ListsDevices, Opening!LooksForDevice, Opening!ThroughHubs

LEMMA NextCallFails == OInv /\ Opening!CallFails => OInv'
<1> SUFFICES ASSUME OInv, Opening!CallFails PROVE OInv'
  OBVIOUS
<1> DEFINE back == Opening!HasSome(Opening!GivenBackBy(opening))
           freed == Opening!HasSome(Opening!CallsOf(opening)[step].frees)
           all == Opening!HasSome(Opening!GivenBackBy(opening) \union Opening!GivenBackAround)
<1>1. /\ pc = "calls" /\ pc' \in {"idle", "stopped"} /\ failed' = TRUE
      /\ step <= Len(Opening!CallsOf(opening)) /\ Opening!CallsOf(opening)[step].fails
      /\ UNCHANGED <<system, calls, opening, step, linkp, filter, found, attempts, bus, plugs>>
  BY DEF Opening!CallFails, Opening!linkVars, Opening!searchVars, Opening!busVars
<1>2. twice' = freed \intersect all /\ held' = Opening!Less(freed \union all)
  BY DEF Opening!CallFails
<1>3. /\ result' \in {"OK", "NOT_FOUND", "error"}
      /\ result' = "OK" => Opening!ListsDevices
      /\ ~Opening!ListsDevices /\ ~Opening!LooksForDevice => result' = "error"
  BY DEF Opening!CallFails
<1>4. opening \in Openings /\ step \in 1 .. Len(Opening!CallsOf(opening))
  <2>1. opening \in Openings /\ step \in 1 .. Len(Opening!CallsOf(opening)) + 1
    BY <1>1 DEF OInv, OpeningHolds
  <2>2. Len(Opening!CallsOf(opening)) \in 1 .. 15
    BY <2>1, OpeningsAreBalanced
  <2> QED
    BY <1>1, <2>1, <2>2
<1>5. /\ \A r : Has(opening, step, r) => r \in Opening!GivenBackBy(opening) \union Around(opening)
      /\ Opening!CallsOf(opening)[step].frees \subseteq Opening!GivenBackTwice(opening, step)
  BY <1>1, <1>4, OpeningsAreBalanced DEF Balanced, CallIsBalanced
<1>6. /\ \A r : r \in freed <=> r \in Opening!CallsOf(opening)[step].frees /\ held[r] > 0
      /\ \A r : r \in all <=> r \in back \/ r \in Opening!HasSome(Opening!GivenBackAround)
      /\ \A r : r \in back <=> r \in Opening!GivenBackBy(opening) /\ held[r] > 0
  BY DEF Opening!HasSome
<1>7. freed \subseteq Opening!HasSome(Opening!GivenBackAround)
  BY <1>5, <1>6, TwiceOnWindows DEF Opening!HasSome
<1>8. freed \union all = back \union Opening!HasSome(Opening!GivenBackAround)
  BY <1>6, <1>7
<1>9. \A r \in Opening!GivenBackBy(opening) : r \in Own
  BY <1>4, OfItsOwn
<1>10. \A r \in back : r \in Opening!Resources /\ r \notin Opening!ContextPointers /\ held[r] = 1
  BY <1>6, <1>9, TakenIsOwn DEF OInv
<1>11. ASSUME NEW r \in Own, Has(opening, step, r) PROVE r \in back \union Around(opening)
  <2>1. held[r] = 1
    BY <1>1, <1>11 DEF OInv, OpeningHolds
  <2> QED
    BY <1>5, <1>6, <1>11, <2>1
<1>12. twice' \subseteq Opening!GivenBackTwice(opening, step)
  BY <1>2, <1>5, <1>6
<1> HIDE DEF back, freed, all
<1>13. held' = Opening!Less(back \union Opening!HasSome(Opening!GivenBackAround))
  BY <1>2, <1>8
<1>14. held' \in [Opening!Resources -> {0, 1}] /\ \A r \in Taken : held'[r] = 0
  BY <1>1, <1>10, <1>11, <1>13, AllIsGivenBack
<1>15. twice' # {} => result' = "error"
  BY <1>3, <1>12, TwiceOnWindows
<1>16. twice' \subseteq Opening!Resources
  <2>1. Opening!GivenBackTwice(opening, step) \subseteq {"request", "path"}
    BY DEF Opening!GivenBackTwice
  <2> QED
    BY <1>12, <2>1 DEF Opening!Resources
<1>17. Opening!TypeOK'
  BY <1>1, <1>3, <1>14, <1>16 DEF OInv, Opening!TypeOK
<1>18. TwiceKnown'
  BY <1>1, <1>12, <1>15 DEF TwiceKnown
<1>19. result' = "OK" => Opening!ListsDevices'
  BY <1>1, <1>3 DEF Opening!ListsDevices
<1> QED
  BY <1>1, <1>14, <1>17, <1>18, <1>19, CallIsOver

(* What a link is closed with when it cannot be made or initialized.       *)
LEMMA ClosingGivesBack ==
  ASSUME OInv, pc \in {"calls", "init"}, step = Len(Opening!CallsOf(opening)) + 1
  PROVE  /\ opening \in Openings
         /\ \A r \in Opening!ClosedBy(opening) :
              r \in Own /\ r \in Opening!Resources /\ r \notin Opening!ContextPointers /\ held[r] = 1
         /\ \A r \in Own : Has(opening, step, r) => r \in Opening!ClosedBy(opening) \union Around(opening)
<1>1. opening \in Openings /\ \A r \in Own : held[r] = 1 <=> Has(opening, step, r)
  BY DEF OInv, OpeningHolds
<1>2. \A r : r \in Opening!ClosedBy(opening) <=> Has(opening, step, r) /\ r \notin Around(opening)
  BY <1>1, OpeningsAreBalanced DEF Balanced
<1>3. \A r \in Opening!ClosedBy(opening) : r \in Own
  BY <1>1, OfItsOwn
<1> QED
  BY <1>1, <1>2, <1>3, TakenIsOwn

LEMMA LinkIsMade == OInv /\ Opening!MakeLink => OInv'
<1> SUFFICES ASSUME OInv, Opening!MakeLink PROVE OInv'
  OBVIOUS
<1>1. /\ pc = "calls" /\ step = Len(Opening!CallsOf(opening)) + 1
      /\ held' = [held EXCEPT !["link"] = @ + 1]
      /\ pc' = "init" /\ linkp' = "link"
      /\ UNCHANGED <<system, calls, result, opening, step, filter, found, attempts, bus, plugs, failed, twice>>
  BY DEF Opening!MakeLink, Opening!searchVars, Opening!busVars
<1>2. /\ opening \in Openings /\ step \in 1 .. Len(Opening!CallsOf(opening)) + 1
      /\ held \in [Opening!Resources -> {0, 1}] /\ result = "none" /\ twice = {}
      /\ \A r \in Own : held[r] = 1 <=> Has(opening, step, r)
      /\ held["link"] = 1 <=> pc = "init"
      /\ held["path"] = 1 => PathAt(opening, step)
  BY <1>1 DEF OInv, OpeningHolds, TwiceKnown
<1>3. "link" \in Opening!Resources /\ held["link"] = 0 /\ "link" \notin Own
  BY <1>1, <1>2, TakenIsOwn
<1>4. /\ held' \in [Opening!Resources -> {0, 1}] /\ held'["link"] = 1
      /\ \A r \in Opening!Resources : r # "link" => held'[r] = held[r]
  BY <1>1, <1>2, <1>3
<1>5. \A r \in Own : held'[r] = 1 <=> Has(opening, step, r)
  BY <1>2, <1>3, <1>4, TakenIsOwn
<1>6. held'["path"] = 1 => PathAt(opening, step)
  BY <1>2, <1>4, TakenIsOwn
<1>7. Opening!TypeOK'
  BY <1>1, <1>4 DEF OInv, Opening!TypeOK
<1>8. OpeningHolds'
  BY <1>1, <1>2, <1>4, <1>5, <1>6 DEF OpeningHolds
<1>9. SearchHolds' /\ TwiceKnown'
  BY <1>1, <1>2 DEF SearchHolds, TwiceKnown, Opening!Searching
<1> QED
  BY <1>1, <1>4, <1>7, <1>8, <1>9 DEF OInv

LEMMA LinkIsNotMade == OInv /\ Opening!LinkFails => OInv'
<1> SUFFICES ASSUME OInv, Opening!LinkFails PROVE OInv'
  OBVIOUS
<1>1. /\ pc = "calls" /\ pc' = "idle" /\ failed' = TRUE /\ result' = "error"
      /\ step = Len(Opening!CallsOf(opening)) + 1
      /\ UNCHANGED <<system, calls, opening, step, linkp, filter, found, attempts, bus, plugs, twice>>
  BY DEF Opening!LinkFails, Opening!Returns, Opening!searchVars, Opening!busVars
<1>h. held' = Opening!Less(Opening!ClosedBy(opening) \union Opening!HasSome(Opening!GivenBackAround))
  BY DEF Opening!LinkFails, Opening!Returns
<1>2. held' \in [Opening!Resources -> {0, 1}] /\ \A r \in Taken : held'[r] = 0
  BY <1>1, ClosingGivesBack, <1>h, AllIsGivenBack
<1>3. Opening!TypeOK' /\ TwiceKnown'
  BY <1>1, <1>2 DEF OInv, Opening!TypeOK, TwiceKnown
<1> QED
  BY <1>1, <1>2, <1>3, CallIsOver

LEMMA InitializationFails == OInv /\ Opening!InitFails => OInv'
<1> SUFFICES ASSUME OInv, Opening!InitFails PROVE OInv'
  OBVIOUS
<1> DEFINE back == {"link"} \union Opening!ClosedBy(opening)
<1>1. /\ pc = "init" /\ pc' = "idle" /\ failed' = TRUE /\ result' = "error"
      /\ UNCHANGED <<system, calls, opening, step, linkp, filter, found, attempts, bus, plugs, twice>>
  BY DEF Opening!InitFails, Opening!Returns, Opening!searchVars, Opening!busVars
<1>h. held' = Opening!Less(back \union Opening!HasSome(Opening!GivenBackAround))
  BY DEF Opening!InitFails, Opening!Returns
<1>2. step = Len(Opening!CallsOf(opening)) + 1 /\ held["link"] = 1
  BY <1>1 DEF OInv, OpeningHolds
<1>3. \A r \in back : r \in Opening!Resources /\ r \notin Opening!ContextPointers /\ held[r] = 1
  BY <1>1, <1>2, ClosingGivesBack, TakenIsOwn
<1>4. \A r \in Own : Has(opening, step, r) => r \in back \union Around(opening)
  BY <1>1, <1>2, ClosingGivesBack
<1>5. "link" \in back
  OBVIOUS
<1> HIDE DEF back
<1>6. held' \in [Opening!Resources -> {0, 1}] /\ \A r \in Taken : held'[r] = 0
  BY <1>1, <1>3, <1>4, <1>5, <1>h, AllIsGivenBack
<1>7. Opening!TypeOK' /\ TwiceKnown'
  BY <1>1, <1>6 DEF OInv, Opening!TypeOK, TwiceKnown
<1> QED
  BY <1>1, <1>6, <1>7, CallIsOver

(* A link has been made: what is around the opening is given back.         *)
LEMMA InitializationSucceeds == OInv /\ Opening!InitSucceeds => OInv'
<1> SUFFICES ASSUME OInv, Opening!InitSucceeds PROVE OInv'
  OBVIOUS
<1>1. /\ pc = "init" /\ pc' = "given" /\ result' = "OK"
      /\ held' = [r \in Opening!Resources |->
                    IF r \in Opening!HasSome(Opening!GivenBackAround) THEN held[r] - 1 ELSE held[r]]
      /\ UNCHANGED <<system, calls, opening, step, linkp, filter, found, attempts, bus, plugs, failed, twice>>
  BY DEF Opening!InitSucceeds, Opening!Less, Opening!linkVars, Opening!searchVars, Opening!busVars
<1>2. /\ opening \in Openings /\ step = Len(Opening!CallsOf(opening)) + 1 /\ held["link"] = 1
      /\ held \in [Opening!Resources -> {0, 1}] /\ twice = {}
      /\ \A r \in Own : held[r] = 1 <=> Has(opening, step, r)
      /\ held["path"] = 1 => PathAt(opening, step)
  BY <1>1 DEF OInv, OpeningHolds, TwiceKnown
<1>3. \A r \in Opening!HasSome(Opening!GivenBackAround) : held[r] > 0
  BY DEF Opening!HasSome
<1>4. \A r : r \in Opening!ClosedBy(opening) <=> Has(opening, step, r) /\ r \notin Around(opening)
  BY <1>2, OpeningsAreBalanced DEF Balanced
<1>5. \A r \in Around(opening) \union Opening!ClosedBy(opening) : r \in Own
  BY <1>2, OfItsOwn
<1>6. \A r : r \in Opening!HeldByLink' <=> r = "link" \/ r \in Opening!ClosedBy(opening)
  BY <1>1 DEF Opening!HeldByLink
<1>7. held' \in [Opening!Resources -> {0, 1}]
  BY <1>1, <1>2, <1>3
<1>8. ASSUME NEW r \in Own PROVE held'[r] = 1 <=> r \in Opening!ClosedBy(opening)
  <2>1. r \in Opening!Resources /\ held[r] \in {0, 1} /\ r \notin {"name", "path"}
    BY <1>2, TakenIsOwn
  <2>2. r \in Opening!HasSome(Opening!GivenBackAround) <=> r \in Around(opening) /\ held[r] > 0
    BY <2>1, AroundTheOpening
  <2> QED
    BY <1>1, <1>2, <1>4, <2>1, <2>2
<1>9. held'["link"] = 1
  BY <1>1, <1>2, <1>5, AroundTheOpening, TakenIsOwn
<1>10. held'["name"] = 0 /\ held'["path"] = 0
  <2>1. ASSUME NEW r \in {"name", "path"} PROVE held'[r] = 0
    <3>1. r \in Opening!Resources /\ held[r] \in {0, 1}
      BY <1>2, TakenIsOwn
    <3>2. held[r] = 1 => r \in Opening!HasSome(Opening!GivenBackAround)
      BY <1>2, AroundTheOpening
    <3> QED
      BY <1>1, <1>3, <3>1, <3>2
  <2> QED
    BY <2>1
<1>11. \A r \in Taken : held'[r] = 1 <=> r \in Opening!HeldByLink'
  BY <1>5, <1>6, <1>8, <1>9, <1>10, TakenIsOwn
<1>12. Opening!TypeOK' /\ TwiceKnown'
  BY <1>1, <1>2, <1>7 DEF OInv, Opening!TypeOK, TwiceKnown
<1>13. OpeningHolds' /\ SearchHolds'
  BY <1>1 DEF OpeningHolds, SearchHolds, Opening!Searching
<1> QED
  BY <1>1, <1>2, <1>7, <1>11, <1>12, <1>13 DEF OInv

LEMMA OpeningStepPreserves == OInv /\ Opening!Next => OInv'
BY CallsBegin, ADeviceIsFound, DevicesArePassedOver, SearchReturns, SearchStops, PathIsAskedForAgain,
   NextCallSucceeds, NextCallFails, LinkIsMade, LinkIsNotMade, InitializationFails,
   InitializationSucceeds, PlugTakesNothing DEF Opening!Next, Opening!Opens

LEMMA OpeningInitEstablishes == Opening!Init => OInv
<1> SUFFICES ASSUME Opening!Init PROVE OInv
  OBVIOUS
<1>1. held \in [Opening!Resources -> {0, 1}] /\ \A r \in Taken : held[r] = 0
  BY DEF Opening!Init, Taken
<1>2. /\ calls \in 0 .. MaxOpenings /\ plugs \in 0 .. MaxPlugs /\ attempts \in 0 .. SearchAttempts
      /\ step \in 1 .. 16 /\ bus \subseteq Opening!Devices /\ filter = {}
      /\ system \in Systems /\ pc = "idle" /\ result = "none" /\ linkp = "unset"
      /\ found = Opening!Nowhere /\ failed = FALSE /\ twice = {}
  BY OpeningsAreCounted DEF Opening!Init
<1>3. Opening!TypeOK
  <2>1. held \in [Opening!Resources -> Int] /\ filter \subseteq {"serial", "ums"}
    BY <1>1, <1>2
  <2> QED
    BY <1>2, <2>1 DEF Opening!TypeOK
<1>4. OpeningHolds /\ SearchHolds /\ TwiceKnown
  BY <1>2 DEF OpeningHolds, SearchHolds, TwiceKnown, Opening!Searching
<1> QED
  BY <1>1, <1>2, <1>3, <1>4 DEF OInv

(* What the inductive invariant says of the resources at rest.             *)
LEMMA NothingIsLost == OInv => Opening!NothingLeaks /\ Opening!SuccessIsALink
<1> SUFFICES ASSUME OInv PROVE Opening!NothingLeaks /\ Opening!SuccessIsALink
  OBVIOUS
<1>1. \A r \in Opening!Resources : held[r] \in {0, 1}
  BY DEF OInv
<1>2. pc \in {"idle", "stopped"} => Opening!HasSome(Opening!Resources) \subseteq Opening!ContextPointers
  BY TakenIsOwn DEF OInv, Opening!HasSome
<1>3. pc = "given" => Opening!HasSome(Opening!Resources) \ Opening!ContextPointers = Opening!HeldByLink
  <2> SUFFICES ASSUME pc = "given", NEW r
               PROVE  r \in Opening!HasSome(Opening!Resources) /\ r \notin Opening!ContextPointers
                        <=> r \in Opening!HeldByLink
    BY Zenon
  <2>1. r \in Opening!HeldByLink => r \in Taken
    BY OfItsOwn, TakenIsOwn DEF OInv, Opening!HeldByLink
  <2>2. r \in Taken => (held[r] = 1 <=> r \in Opening!HeldByLink)
    BY DEF OInv
  <2> QED
    BY <1>1, <2>1, <2>2, TakenIsOwn DEF Opening!HasSome
<1>4. pc = "destroyed" => Opening!HasSome(Opening!Resources) = {}
  BY DEF OInv, Opening!HasSome
<1>5. twice \subseteq Opening!GivenBackTwice(opening, step) /\ (twice # {} => result = "error")
  BY DEF OInv, TwiceKnown
<1>6. Opening!SuccessIsALink
  BY DEF OInv, Opening!SuccessIsALink
<1> QED
  BY <1>1, <1>2, <1>3, <1>4, <1>5, <1>6 DEF Opening!NothingLeaks

-----------------------------------------------------------------------------
(* The parameters of a port.                                               *)

Asked == {a \in [Settings!Parameters -> UNION {Settings!Values[p] : p \in Settings!Parameters}] :
            \A p \in Settings!Parameters : a[p] \in Settings!Values[p]}

Follows(line, wanted) ==
  \A p \in Settings!Parameters : line[p] \in Settings!MadeOf(system, p, wanted[p])

(* What a port may be set to.                                              *)
IsLine(l) ==
  DOMAIN l = Settings!Parameters /\ \A p \in Settings!Parameters : l[p] \in Settings!Known[p]

(* The link either has no parameters yet, or some of its protocol; and     *)
(* unless a call has failed half way, its port has them, which the result  *)
(* of the last call alone does not say: a call that failed before it       *)
(* reached the port, or that found nothing to do, leaves both as they are. *)
SInv ==
  /\ system \in Systems /\ halfway \in BOOLEAN /\ calls \in 0 .. MaxSettings
  /\ result \in {"none", "OK", "error"} /\ IsLine(port)
  /\ settings = Settings!Nowhere \/ settings \in Asked
  /\ settings = Settings!Nowhere => result # "OK"
  /\ system = "win32" => port["parity"] # "off"
  /\ settings # Settings!Nowhere /\ ~halfway => Follows(port, settings)

-----------------------------------------------------------------------------
LEMMA SettingsAreCounted == MaxSettings \in Nat
BY BoundsAssumption

LEMMA SixParameters ==
  /\ Settings!Parameters = {"speed", "stop", "parity", "xonxoff", "dtr", "rts"}
  /\ Settings!Values["speed"] = Speeds \union {"4800", "9600", "38400"}
  /\ Settings!Values["stop"] = {"one", "two"} /\ Settings!Values["parity"] = {"off", "odd", "even"}
  /\ Settings!Values["xonxoff"] = {"disable", "enable"}
  /\ Settings!Values["dtr"] = {"ignore", "disable", "enable"}
  /\ Settings!Values["rts"] = {"ignore", "disable", "enable", "handshake"}
BY DEF Settings!Parameters, Settings!Values

(* The parameters given, completed by those of a protocol or of a link,    *)
(* are parameters.                                                         *)
LEMMA CompletedIsAsked ==
  ASSUME NEW p \in Settings!Parameters, NEW v \in Settings!Values[p], NEW others \in Asked
  PROVE  Settings!Completed(Settings!Giving(p, v), others) \in Asked
<1>1. \A q \in Settings!Parameters : Settings!Completed(Settings!Giving(p, v), others)[q] \in Settings!Values[q]
  BY DEF Settings!Completed, Settings!Giving, Asked
<1>2. \A q \in Settings!Parameters : Settings!Values[q] \subseteq UNION {Settings!Values[r] : r \in Settings!Parameters}
  OBVIOUS
<1>3. Settings!Completed(Settings!Giving(p, v), others) \in [Settings!Parameters -> UNION {Settings!Values[r] : r \in Settings!Parameters}]
  BY <1>1, <1>2 DEF Settings!Completed
<1> QED
  BY <1>1, <1>3 DEF Asked

LEMMA DefaultIsAsked ==
  ASSUME NEW spoken
  PROVE  Settings!Default(spoken) \in Asked
<1>1. \A q \in Settings!Parameters : Settings!Default(spoken)[q] \in Settings!Values[q]
  BY SixParameters DEF Settings!Default
<1>2. DOMAIN Settings!Default(spoken) = Settings!Parameters
  BY SixParameters DEF Settings!Default
<1>3. Settings!Default(spoken) = [q \in Settings!Parameters |-> Settings!Default(spoken)[q]]
  BY <1>2, SixParameters DEF Settings!Default
<1>4. \A q \in Settings!Parameters : Settings!Values[q] \subseteq UNION {Settings!Values[r] : r \in Settings!Parameters}
  OBVIOUS
<1> QED
  BY <1>1, <1>3, <1>4 DEF Asked

LEMMA AskedIsSomething ==
  ASSUME NEW wanted \in Asked
  PROVE  wanted # Settings!Nowhere
<1>1. "stop" \in Settings!Parameters /\ wanted["stop"] \in {"one", "two"}
  BY SixParameters DEF Asked
<1>2. Settings!Nowhere["stop"] = "as_before"
  BY <1>1 DEF Settings!Nowhere, Settings!Unset
<1> QED
  BY <1>1, <1>2

-----------------------------------------------------------------------------
LEMMA KnownParameters ==
  ASSUME NEW p \in Settings!Parameters
  PROVE  Settings!Known[p] = Settings!Values[p] \union {"as_before"} \union
                               IF p = "xonxoff" THEN {"exchanged", "null"} ELSE {}
BY DEF Settings!Known, Settings!Unset

LEMMA PosixIsLine ==
  ASSUME IsLine(port), NEW wanted \in Asked
  PROVE  /\ IsLine(Settings!PosixAttributes(wanted))
         /\ IsLine(Settings!PosixLines(wanted, Settings!PosixAttributes(wanted)))
<1> DEFINE a == Settings!PosixAttributes(wanted)
           b == Settings!PosixLines(wanted, a)
<1>1. DOMAIN wanted = Settings!Parameters /\ \A p \in Settings!Parameters : wanted[p] \in Settings!Values[p]
  BY DEF Asked
<1>2. /\ DOMAIN a = Settings!Parameters
      /\ \A p \in Settings!Parameters \ {"dtr", "rts"} : a[p] = wanted[p]
      /\ a["dtr"] = port["dtr"]
      /\ a["rts"] \in {"handshake", "as_before", port["rts"]}
  BY <1>1, SixParameters DEF Settings!PosixAttributes, Settings!Unset
<1>3. \A p \in Settings!Parameters : a[p] \in Settings!Known[p]
  BY <1>1, <1>2, SixParameters, KnownParameters DEF IsLine
<1>4. /\ DOMAIN b = Settings!Parameters
      /\ \A p \in Settings!Parameters \ {"dtr", "rts"} : b[p] = a[p]
      /\ b["dtr"] \in {"disable", "enable", a["dtr"]}
      /\ b["rts"] \in {"disable", "enable", a["rts"]}
  BY <1>2, SixParameters DEF Settings!PosixLines, Settings!Driven
<1>5. \A p \in Settings!Parameters : b[p] \in Settings!Known[p]
  BY <1>3, <1>4, SixParameters, KnownParameters
<1> QED
  BY <1>2, <1>3, <1>4, <1>5 DEF IsLine

LEMMA OthersAreLines ==
  ASSUME IsLine(port), NEW wanted \in Asked
  PROVE  /\ IsLine(Settings!AmigaosParams(wanted)) /\ IsLine(Settings!Win32State(wanted))
         /\ IsLine(Settings!Win16State(wanted))
<1>1. DOMAIN wanted = Settings!Parameters /\ \A p \in Settings!Parameters : wanted[p] \in Settings!Values[p]
  BY DEF Asked
<1>2. \A p \in Settings!Parameters : wanted[p] \in Settings!Known[p] /\ port[p] \in Settings!Known[p]
  BY <1>1, KnownParameters DEF IsLine
<1>3. IsLine(Settings!AmigaosParams(wanted))
  <2> DEFINE l == Settings!AmigaosParams(wanted)
  <2>1. /\ DOMAIN l = Settings!Parameters
        /\ \A p \in Settings!Parameters : l[p] \in {wanted[p], port[p]} \/ (p = "xonxoff" /\ l[p] = "null")
    BY <1>1, SixParameters DEF Settings!AmigaosParams
  <2> QED
    BY <1>2, <2>1, SixParameters, KnownParameters DEF IsLine
<1>4. IsLine(Settings!Win32State(wanted))
  <2> DEFINE l == Settings!Win32State(wanted)
  <2>1. /\ DOMAIN l = Settings!Parameters
        /\ \A p \in Settings!Parameters :
             \/ l[p] \in {wanted[p], port[p]}
             \/ p = "dtr" /\ l[p] \in {"disable", "enable"}
             \/ p = "xonxoff" /\ l[p] = "exchanged"
    BY <1>1, SixParameters DEF Settings!Win32State, Settings!Driven
  <2> QED
    BY <1>2, <2>1, SixParameters, KnownParameters DEF IsLine
<1>5. IsLine(Settings!Win16State(wanted))
  <2> DEFINE l == Settings!Win16State(wanted)
  <2>1. /\ DOMAIN l = Settings!Parameters
        /\ \A p \in Settings!Parameters :
             \/ l[p] \in {wanted[p], port[p]}
             \/ p \in {"xonxoff", "dtr", "rts"} /\ l[p] \in {"disable", "enable"}
             \/ p = "xonxoff" /\ l[p] = "exchanged"
    BY <1>1, SixParameters DEF Settings!Win16State, Settings!Driven
  <2> QED
    BY <1>2, <2>1, SixParameters, KnownParameters DEF IsLine
<1> QED
  BY <1>3, <1>4, <1>5

(* Wherever the calls of the system stop, the port is a line.              *)
LEMMA ChangesAreLines ==
  ASSUME IsLine(port), NEW wanted \in Asked, system \in {"posix", "amigaos", "win32", "win16"},
         NEW n \in 1 .. Len(Settings!Changes(wanted))
  PROVE  IsLine(Settings!Changes(wanted)[n])
<1> DEFINE a == Settings!PosixAttributes(wanted)
           b == Settings!PosixLines(wanted, a)
<1>1. CASE system = "posix" /\ Settings!DrivesALine(wanted)
  <2>1. Settings!Changes(wanted) = <<port, a>> \o <<b>>
    BY <1>1 DEF Settings!Changes
  <2>2. <<port, a>> \in Seq({port, a, b}) /\ <<b>> \in Seq({port, a, b})
    OBVIOUS
  <2>3. /\ Len(<<port, a>>) = 2 /\ <<port, a>>[1] = port /\ <<port, a>>[2] = a
        /\ Len(<<b>>) = 1 /\ <<b>>[1] = b
    OBVIOUS
  <2> HIDE DEF a, b
  <2>4. /\ Len(<<port, a>> \o <<b>>) = 3 /\ (<<port, a>> \o <<b>>)[3] = b
        /\ (<<port, a>> \o <<b>>)[1] = port /\ (<<port, a>> \o <<b>>)[2] = a
    BY <2>2, <2>3
  <2>5. n = 1 \/ n = 2 \/ n = 3
    BY <2>1, <2>4
  <2> QED
    BY <2>1, <2>4, <2>5, PosixIsLine DEF a, b
<1>2. CASE system = "posix" /\ ~Settings!DrivesALine(wanted)
  <2>1. Settings!Changes(wanted) = <<port, a>>
    BY <1>2 DEF Settings!Changes
  <2>2. n = 1 \/ n = 2
    BY <2>1
  <2> QED
    BY <2>1, <2>2, PosixIsLine
<1>3. CASE system = "amigaos"
  BY <1>3, OthersAreLines DEF Settings!Changes
<1>4. CASE system = "win32"
  BY <1>4, OthersAreLines DEF Settings!Changes
<1>5. CASE system = "win16"
  BY <1>5, OthersAreLines DEF Settings!Changes
<1> QED
  BY <1>1, <1>2, <1>3, <1>4, <1>5

LEMMA ThereAreChanges ==
  ASSUME NEW wanted, system \in {"posix", "amigaos", "win32", "win16"}
  PROVE  Len(Settings!Changes(wanted)) \in Nat \ {0}
<1> DEFINE a == Settings!PosixAttributes(wanted)
           b == Settings!PosixLines(wanted, a)
<1>1. CASE system = "posix" /\ Settings!DrivesALine(wanted)
  <2>1. Settings!Changes(wanted) = <<port, a>> \o <<b>>
    BY <1>1 DEF Settings!Changes
  <2>2. <<port, a>> \in Seq({port, a, b}) /\ <<b>> \in Seq({port, a, b}) /\ Len(<<port, a>>) = 2 /\ Len(<<b>>) = 1
    OBVIOUS
  <2> HIDE DEF a, b
  <2>3. Len(<<port, a>> \o <<b>>) = 3
    BY <2>2
  <2> QED
    BY <2>1, <2>3
<1>2. CASE ~(system = "posix" /\ Settings!DrivesALine(wanted))
  BY <1>2 DEF Settings!Changes
<1> QED
  BY <1>1, <1>2

(* So is the port after the last of them.                                  *)
LEMMA LastIsLine ==
  ASSUME IsLine(port), NEW wanted \in Asked, system \in {"posix", "amigaos", "win32", "win16"}
  PROVE  IsLine(Settings!Changes(wanted)[Len(Settings!Changes(wanted))])
<1>1. Len(Settings!Changes(wanted)) \in 1 .. Len(Settings!Changes(wanted))
  BY ThereAreChanges
<1> QED
  BY <1>1, ChangesAreLines

-----------------------------------------------------------------------------
(* What is asked for is what there is to be, but for the exceptions.       *)
LEMMA AskedIsMade ==
  ASSUME NEW on, NEW p, NEW v, v # "ignore", on # "win32" \/ p # "parity" \/ v # "off",
         on = "posix" \/ p # "xonxoff" \/ (v # "enable" /\ (on # "win16" \/ v # "disable"))
  PROVE  Settings!MadeOf(on, p, v) = {v}
BY DEF Settings!MadeOf

LEMMA ExceptionsAreMade ==
  /\ \A on, p : Settings!MadeOf(on, p, "ignore") = Settings!Known[p]
  /\ Settings!MadeOf("win32", "parity", "off") = Settings!Known["parity"] \ {"off"}
  /\ Settings!MadeOf("win32", "xonxoff", "enable") = {"exchanged"}
  /\ Settings!MadeOf("win16", "xonxoff", "enable") = {"disable"}
  /\ Settings!MadeOf("win16", "xonxoff", "disable") = {"exchanged"}
  /\ Settings!MadeOf("amigaos", "xonxoff", "enable") = {"null"}
BY DEF Settings!MadeOf

(* What each platform makes of its port follows what was asked.             *)
LEMMA PosixFollows ==
  ASSUME IsLine(port), NEW wanted \in Asked, system = "posix"
  PROVE  Follows(Settings!Changes(wanted)[Len(Settings!Changes(wanted))], wanted)
<1> DEFINE a == Settings!PosixAttributes(wanted)
<1>1. /\ wanted.dtr \in {"ignore", "disable", "enable"}
      /\ wanted.rts \in {"ignore", "disable", "enable", "handshake"}
      /\ DOMAIN wanted = Settings!Parameters
  BY SixParameters DEF Asked
<1>2. /\ DOMAIN a = Settings!Parameters
      /\ \A p \in Settings!Parameters \ {"dtr", "rts"} : a[p] = wanted[p]
      /\ wanted.rts = "handshake" => a.rts = "handshake"
  BY <1>1, SixParameters DEF Settings!PosixAttributes
<1>3. /\ \A p \in Settings!Parameters : wanted[p] # "ignore" => wanted[p] \in Settings!MadeOf(system, p, wanted[p])
      /\ IsLine(Settings!Changes(wanted)[Len(Settings!Changes(wanted))])
  BY AskedIsMade, LastIsLine
<1>4. CASE Settings!DrivesALine(wanted)
  <2>1. Settings!Changes(wanted)[Len(Settings!Changes(wanted))] = Settings!PosixLines(wanted, a)
    <3> DEFINE b == Settings!PosixLines(wanted, a)
    <3>1. Settings!Changes(wanted) = <<port, a>> \o <<b>>
      BY <1>4 DEF Settings!Changes
    <3>2. <<port, a>> \in Seq({port, a, b}) /\ <<b>> \in Seq({port, a, b})
      OBVIOUS
    <3>3. Len(<<port, a>>) = 2 /\ Len(<<b>>) = 1 /\ <<b>>[1] = b
      OBVIOUS
    <3> HIDE DEF a, b
    <3>4. Len(<<port, a>> \o <<b>>) = 3 /\ (<<port, a>> \o <<b>>)[3] = <<b>>[1]
      BY <3>2, <3>3
    <3> QED
      BY <3>1, <3>3, <3>4 DEF b
  <2>2. \A p \in Settings!Parameters \ {"dtr", "rts"} : Settings!PosixLines(wanted, a)[p] = wanted[p]
    BY <1>2, SixParameters DEF Settings!PosixLines
  <2>3. wanted.dtr = "ignore" \/ Settings!PosixLines(wanted, a).dtr = wanted.dtr
    BY <1>1, <1>2, SixParameters DEF Settings!PosixLines, Settings!Driven
  <2>4. wanted.rts = "ignore" \/ Settings!PosixLines(wanted, a).rts = wanted.rts
    BY <1>1, <1>2, SixParameters DEF Settings!PosixLines, Settings!Driven
  <2> QED
    BY <1>3, <2>1, <2>2, <2>3, <2>4, SixParameters, ExceptionsAreMade DEF Follows, IsLine
<1>5. CASE ~Settings!DrivesALine(wanted)
  <2>1. Settings!Changes(wanted) = <<port, a>>
    BY <1>5 DEF Settings!Changes
  <2>2. wanted.dtr = "ignore" /\ wanted.rts \in {"ignore", "handshake"}
    BY <1>1, <1>5 DEF Settings!DrivesALine
  <2>3. Settings!Changes(wanted)[Len(Settings!Changes(wanted))] = a
    BY <2>1
  <2> QED
    BY <1>2, <1>3, <2>2, <2>3, SixParameters, ExceptionsAreMade DEF Follows, IsLine
<1> QED
  BY <1>4, <1>5

LEMMA OthersFollow ==
  ASSUME IsLine(port), system = "win32" => port["parity"] # "off", NEW wanted \in Asked,
         system \in {"amigaos", "win32", "win16"}, ~Settings!Refused(wanted)
  PROVE  Follows(Settings!Changes(wanted)[Len(Settings!Changes(wanted))], wanted)
<1> DEFINE l == Settings!Changes(wanted)[Len(Settings!Changes(wanted))]
           Made(p) == l[p] \in Settings!MadeOf(system, p, wanted[p])
<1>1. /\ wanted.dtr \in {"ignore", "disable", "enable"}
      /\ wanted.rts \in {"ignore", "disable", "enable", "handshake"}
      /\ wanted.xonxoff \in {"disable", "enable"} /\ wanted.parity \in {"off", "odd", "even"}
      /\ DOMAIN wanted = Settings!Parameters
  BY SixParameters DEF Asked
<1>2. IsLine(l)
  BY LastIsLine
<1>3. ASSUME NEW p \in {"speed", "stop", "dtr", "rts"}, wanted[p] = "ignore" \/ l[p] = wanted[p]
      PROVE  Made(p)
  <2>1. CASE wanted[p] = "ignore"
    <3>1. p \in Settings!Parameters
      BY SixParameters
    <3>2. Settings!MadeOf(system, p, wanted[p]) = Settings!Known[p]
      BY <2>1, ExceptionsAreMade
    <3> QED
      BY <1>2, <3>1, <3>2 DEF IsLine
  <2>2. CASE wanted[p] # "ignore"
    BY <1>3, <2>2, AskedIsMade
  <2> QED
    BY <2>1, <2>2
<1>4. /\ Made("parity") /\ Made("xonxoff")
      /\ \A p \in {"speed", "stop", "dtr", "rts"} : wanted[p] = "ignore" \/ l[p] = wanted[p]
      => Follows(l, wanted)
  BY <1>3, SixParameters DEF Follows
<1>5. CASE system = "amigaos"
  <2>1. wanted.dtr = "ignore" /\ wanted.rts = "ignore"
    BY <1>5 DEF Settings!Refused
  <2>2. l = Settings!AmigaosParams(wanted)
    BY <1>5 DEF Settings!Changes
  <2> HIDE DEF l
  <2>3. /\ l.speed = wanted.speed /\ l.stop = wanted.stop /\ l.parity = wanted.parity
        /\ l.xonxoff = IF wanted.xonxoff = "enable" THEN "null" ELSE wanted.xonxoff
    BY <1>1, <2>2, SixParameters DEF Settings!AmigaosParams
  <2>4. Made("parity")
    BY <1>1, <1>5, <2>3, AskedIsMade
  <2>5. Made("xonxoff")
    BY <1>1, <1>5, <2>3, AskedIsMade, ExceptionsAreMade
  <2> QED
    BY <1>4, <2>1, <2>3, <2>4, <2>5 DEF l
<1>6. CASE system = "win32"
  <2>1. l = Settings!Win32State(wanted)
    BY <1>6 DEF Settings!Changes
  <2> HIDE DEF l
  <2>2. /\ l.speed = wanted.speed /\ l.stop = wanted.stop
        /\ l.parity = IF wanted.parity = "off" THEN port.parity ELSE wanted.parity
        /\ l.xonxoff = IF wanted.xonxoff = "enable" THEN "exchanged" ELSE wanted.xonxoff
        /\ wanted.dtr = "ignore" \/ l.dtr = wanted.dtr
        /\ wanted.rts = "ignore" \/ l.rts = wanted.rts
    BY <1>1, <2>1, SixParameters DEF Settings!Win32State, Settings!Driven
  <2>3. port.parity \in Settings!Known["parity"] \ {"off"}
    BY <1>6, SixParameters DEF IsLine
  <2>4. Made("parity")
    BY <1>1, <1>6, <2>2, <2>3, AskedIsMade, ExceptionsAreMade
  <2>5. Made("xonxoff")
    BY <1>1, <1>6, <2>2, AskedIsMade, ExceptionsAreMade
  <2> QED
    BY <1>4, <2>2, <2>4, <2>5 DEF l
<1>7. CASE system = "win16"
  <2>1. l = Settings!Win16State(wanted)
    BY <1>7 DEF Settings!Changes
  <2>2. wanted.rts # "handshake"
    BY <1>7 DEF Settings!Refused
  <2> HIDE DEF l
  <2>3. /\ l.speed = wanted.speed /\ l.stop = wanted.stop /\ l.parity = wanted.parity
        /\ l.xonxoff = IF wanted.xonxoff = "disable" THEN "exchanged" ELSE "disable"
        /\ wanted.dtr = "ignore" \/ l.dtr = wanted.dtr
        /\ wanted.rts = "ignore" \/ l.rts = wanted.rts
    BY <1>1, <2>1, <2>2, SixParameters DEF Settings!Win16State, Settings!Driven
  <2>4. Made("parity")
    BY <1>1, <1>7, <2>3, AskedIsMade
  <2>5. Made("xonxoff")
    BY <1>1, <1>7, <2>3, ExceptionsAreMade
  <2> QED
    BY <1>4, <2>3, <2>4, <2>5 DEF l
<1> QED
  BY <1>5, <1>6, <1>7

(* On Windows, parity is never turned off.                                 *)
LEMMA ParityStays ==
  ASSUME system = "win32", port["parity"] # "off", NEW wanted \in Asked,
         NEW n \in 1 .. Len(Settings!Changes(wanted))
  PROVE  Settings!Changes(wanted)[n]["parity"] # "off"
<1>1. Settings!Changes(wanted) = <<port, Settings!Win32State(wanted)>>
  BY DEF Settings!Changes
<1>2. n = 1 \/ n = 2
  BY <1>1
<1>3. Settings!Win32State(wanted)["parity"] # "off"
  BY SixParameters DEF Asked, Settings!Win32State
<1> QED
  BY <1>1, <1>2, <1>3

-----------------------------------------------------------------------------
LEMMA SettingsInitEstablishes == Settings!Init => SInv
<1> SUFFICES ASSUME Settings!Init PROVE SInv
  OBVIOUS
<1>1. IsLine(port)
  BY KnownParameters DEF Settings!Init, Settings!Nowhere, Settings!Unset, IsLine
<1>2. calls \in 0 .. MaxSettings
  BY SettingsAreCounted DEF Settings!Init
<1>3. port["parity"] # "off"
  BY SixParameters DEF Settings!Init, Settings!Nowhere, Settings!Unset
<1> QED
  BY <1>1, <1>2, <1>3 DEF Settings!Init, SInv

(* A call of a program with parameters that are parameters.                *)
LEMMA SetPreserves ==
  ASSUME SInv, NEW wanted \in Asked, Settings!SetOnTransport(wanted), Settings!Calls
  PROVE  SInv'
<1>1. system \in {"posix", "amigaos", "win32", "win16"} /\ wanted # Settings!Nowhere
  BY AskedIsSomething, SystemsAssumption DEF SInv
<1>2. calls' \in 0 .. MaxSettings /\ system' = system
  BY SettingsAreCounted DEF Settings!Calls, SInv
<1>3. CASE Settings!SkipsTheCall(wanted)
  BY <1>1, <1>2, <1>3 DEF Settings!SkipsTheCall, SInv, Follows, IsLine
<1>4. CASE Settings!RefusesTheCall(wanted)
  BY <1>2, <1>4 DEF Settings!RefusesTheCall, SInv, Follows, IsLine
<1>5. CASE Settings!FailsTheCall(wanted)
  <2>1. result' = "error" /\ settings' = settings /\ halfway' = (halfway \/ port' # port)
    BY <1>5 DEF Settings!FailsTheCall
  <2>2. ~halfway' => ~halfway /\ port' = port
    BY <2>1
  <2>3. halfway' \in BOOLEAN
    BY <2>1
  <2>4. IsLine(port') /\ (system = "win32" => port'["parity"] # "off")
    <3>1. PICK done \in 1 .. Len(Settings!Changes(wanted)) - 1 : port' = Settings!Changes(wanted)[done]
      BY <1>5 DEF Settings!FailsTheCall
    <3>2. done \in 1 .. Len(Settings!Changes(wanted))
      BY <1>1, <3>1, ThereAreChanges
    <3> QED
      BY <1>1, <3>1, <3>2, ChangesAreLines, ParityStays DEF SInv
  <2> QED
    BY <1>2, <2>1, <2>2, <2>3, <2>4 DEF SInv, Follows
<1>6. CASE Settings!MakesTheCall(wanted)
  <2>1. Follows(Settings!Changes(wanted)[Len(Settings!Changes(wanted))], wanted)
    BY <1>1, <1>6, PosixFollows, OthersFollow DEF Settings!MakesTheCall, SInv
  <2>2. /\ IsLine(Settings!Changes(wanted)[Len(Settings!Changes(wanted))])
        /\ system = "win32" => Settings!Changes(wanted)[Len(Settings!Changes(wanted))]["parity"] # "off"
    <3>1. Len(Settings!Changes(wanted)) \in 1 .. Len(Settings!Changes(wanted))
      BY <1>1, ThereAreChanges
    <3> QED
      BY <1>1, <3>1, ChangesAreLines, ParityStays DEF SInv
  <2>3. /\ port' = Settings!Changes(wanted)[Len(Settings!Changes(wanted))]
        /\ settings' = wanted /\ result' = "OK" /\ halfway' = FALSE
    BY <1>6 DEF Settings!MakesTheCall
  <2> QED
    BY <1>1, <1>2, <2>1, <2>2, <2>3 DEF SInv, Follows
<1> QED
  BY <1>3, <1>4, <1>5, <1>6 DEF Settings!SetOnTransport

LEMMA SettingsStepPreserves ==
  SInv /\ Settings!Next => SInv'
<1> SUFFICES ASSUME SInv, Settings!Next PROVE SInv'
  OBVIOUS
<1>1. ASSUME NEW spoken, Settings!Open(spoken) PROVE SInv'
  <2>1. PICK p \in Settings!Parameters : \E v \in Settings!Values[p] :
          Settings!SetOnTransport(Settings!Completed(Settings!Giving(p, v), Settings!Default(spoken)))
    BY <1>1 DEF Settings!Open
  <2>2. PICK v \in Settings!Values[p] : Settings!SetOnTransport(Settings!Completed(Settings!Giving(p, v), Settings!Default(spoken)))
    BY <2>1
  <2> QED
    BY <1>1, <2>2, CompletedIsAsked, DefaultIsAsked, SetPreserves DEF Settings!Open
<1>2. CASE Settings!SetParams
  <2>1. PICK p \in Settings!Parameters : \E v \in Settings!Values[p] :
          Settings!SetOnTransport(Settings!Completed(Settings!Giving(p, v), settings))
    BY <1>2 DEF Settings!SetParams
  <2>2. PICK v \in Settings!Values[p] : Settings!SetOnTransport(Settings!Completed(Settings!Giving(p, v), settings))
    BY <2>1
  <2>3. settings \in Asked
    BY <1>2 DEF Settings!SetParams, SInv
  <2> QED
    BY <1>2, <2>2, <2>3, CompletedIsAsked, SetPreserves DEF Settings!SetParams
<1>3. CASE Settings!Close
  <2>1. calls' \in 0 .. MaxSettings
    BY <1>3, SettingsAreCounted DEF Settings!Close, Settings!Calls, SInv
  <2> QED
    BY <1>3, <2>1 DEF Settings!Close, Settings!Calls, SInv
<1> QED
  BY <1>1, <1>2, <1>3 DEF Settings!Next

LEMMA PortIsAsAsked == SInv => Settings!TypeOK /\ Settings!LineIsAsAsked
<1> SUFFICES ASSUME SInv PROVE Settings!TypeOK /\ Settings!LineIsAsAsked
  OBVIOUS
<1>1. ASSUME NEW p \in Settings!Parameters PROVE settings[p] \in Settings!Known[p]
  BY <1>1, KnownParameters DEF SInv, Asked, Settings!Nowhere, Settings!Unset
<1> QED
  BY <1>1 DEF SInv, Settings!TypeOK, Settings!LineIsAsAsked, Follows, IsLine

-----------------------------------------------------------------------------
(* A link is for one use: the others leave its variables alone.            *)
LInv ==
  /\ use = "opening" => OInv
  /\ use = "settings" => SInv

LEMMA StutterPreserves == LInv /\ UNCHANGED vars => LInv'
<1> SUFFICES ASSUME LInv, UNCHANGED vars PROVE LInv'
  OBVIOUS
<1>1. /\ use' = use
      /\ UNCHANGED <<system, pc, calls, result, opening, step, linkp, held, filter, found, attempts, bus,
                     plugs, failed, twice>>
      /\ UNCHANGED <<settings, port, halfway>>
  BY DEF vars, sharedVars, openingVars, settingsVars
<1>2. OInv => OInv'
  BY <1>1 DEF OInv, OpeningHolds, SearchHolds, TwiceKnown, Opening!TypeOK, Opening!HeldByLink,
     Opening!ListsDevices, Opening!Searching, Opening!GivenBackTwice
<1>3. SInv => SInv'
  BY <1>1 DEF SInv, Follows, IsLine
<1> QED
  BY <1>1, <1>2, <1>3 DEF LInv

LEMMA ProtocolsStepPreserves == LInv /\ [Next]_vars => LInv'
<1> SUFFICES ASSUME LInv, [Next]_vars PROVE LInv'
  OBVIOUS
<1>1. CASE OpeningOnly /\ Opening!Next
  BY <1>1, OpeningStepPreserves DEF LInv, OpeningOnly, SessionsAlone
<1>2. CASE SettingsOnly /\ Settings!Next
  BY <1>2, SettingsStepPreserves DEF LInv, SettingsOnly, SessionsAlone
<1>3. CASE use \notin {"opening", "settings"} /\ use' = use
  BY <1>3 DEF LInv
<1>4. CASE UNCHANGED vars
  BY <1>4, StutterPreserves
<1>5. DetectionOnly \/ ClassPadOnly \/ CasioOnly => use \notin {"opening", "settings"} /\ use' = use
  BY DEF DetectionOnly, ClassPadOnly, CasioOnly, SystemAlone
<1> QED
  BY <1>1, <1>2, <1>3, <1>4, <1>5 DEF Next

LEMMA ProtocolsInvariance == Spec => []LInv
<1>1. Init => LInv
  BY OpeningInitEstablishes, SettingsInitEstablishes DEF Init, LInv
<1> QED
  BY <1>1, ProtocolsStepPreserves, PTL DEF Spec

(* What the system gives an opening is not lost, on every platform,        *)
(* whichever of its calls fails and however the bus changes meanwhile; nor *)
(* is it given back twice, but for two pieces of memory of the openings of *)
(* Windows that fail (GivenBackTwice of LinkOpening); and an opening that  *)
(* reports no error gives a link, but for the libusb ones that cannot list *)
(* devices: for the failing calls, failure labels and closing functions of *)
(* each platform.                                                          *)
THEOREM ResourcesAreKept == Spec => []NothingLeaks
<1>1. LInv => NothingLeaks
  BY NothingIsLost DEF LInv, NothingLeaks
<1> QED
  BY <1>1, ProtocolsInvariance, PTL

(* When a call has reported success, and none has failed half way, every   *)
(* parameter of the port is what its platform makes of what the calls      *)
(* together have asked, which is not always what was asked (MadeOf of      *)
(* SerialSettings); and the cache of the link                              *)
(* (transport/set_serial_params.c:55) never stands in for a call that was  *)
(* needed.                                                                 *)
THEOREM PortFollowsCalls == Spec => []LineIsAsAsked
<1>1. LInv => LineIsAsAsked
  BY PortIsAsAsked DEF LInv, LineIsAsAsked
<1> QED
  BY <1>1, ProtocolsInvariance, PTL

-----------------------------------------------------------------------------
-----------------------------------------------------------------------------
(* What a CASIOLINK sender takes for received (Casiolink).                 *)

(* The part k of the last header is the last the receiver has, if it is    *)
(* receiving parts at all.                                                 *)
InPart(k) ==
  pc = "part" => header.item = last.item /\ header.part = last.part /\ got = k /\ whole = TRUE

(* The packet the sender waits for the answer of, and what an              *)
(* acknowledgement that is on its way says.                                *)
Awaited(m) ==
  \/ m.type = "header" /\ m.item = last.item /\ m.part = last.part /\ s_parts = last.part
  \/ m.type = "part" /\ m.item = last.item /\ s_parts < last.part /\ m.part = last.part - s_parts
       /\ InPart(last.part - s_parts - 1)

Acknowledged == InPart(last.part - s_parts) /\ (s_parts = 0 /\ last.part > 0 => last.item \in received)

(* A calculator and the receiver go on in turns: there is one packet, or   *)
(* one answer.  Before that there is what a session has left, then a start *)
(* and its answer.                                                         *)
InTurns ==
  /\ s_pc = "off" => Len(toReceiver) = 0
  /\ s_pc = "ended" /\ late = 0 => \A i \in 1 .. Len(toReceiver) : toReceiver[i].type # "start"
  /\ s_pc = "start" =>
       /\ \A i \in 1 .. Len(toReceiver) - 1 : toReceiver[i].type # "start"
       /\ \A i \in 1 .. Len(toSender) :
            toSender[i].type = "established" => i = Len(toSender) /\ Len(toReceiver) = 0
  /\ s_pc \in {"model", "model_ack", "answer"} => Len(toReceiver) + Len(toSender) <= 1
  /\ s_pc = "next" => Len(toReceiver) = 0 /\ Len(toSender) = 0
  /\ s_pc = "answer" =>
       /\ Len(toReceiver) = 1 => Awaited(toReceiver[1])
       /\ Len(toSender) = 1 /\ toSender[1].type = "ack" => Acknowledged

SenderTypes ==
  /\ toReceiver \in Seq(Casio!Packets) /\ toSender \in Seq(Casio!Packets) /\ last \in Casio!Packets
  /\ s_parts \in 0 .. last.part /\ items \in 0 .. MaxItems /\ late \in Nat /\ starts \in Nat
  /\ s_pc \in Casio!SenderPlaces /\ variant \in {"CAS40", "CAS50", "CAS100"}
  /\ s_pc # "off" => starts >= 1
  /\ sender \in {"library", "calculator"}
  /\ sender = "library" => accepted = {} /\ s_parts = 0 /\ s_pc \notin {"next", "answer"}
  /\ sender = "calculator" => s_pc # "open"

Regular == variant # "CAS40" /\ sender = "calculator" /\ Casio!OneAtATime

SenderInv == SenderTypes /\ (Regular => InTurns /\ Casio!Accepted)

(* What goes behind a sequence, and what is taken of it.                   *)
LEMMA OneMore ==
  ASSUME NEW S, NEW s \in Seq(S), NEW b \in S
  PROVE  /\ s \o <<b>> \in Seq(S) /\ Len(s \o <<b>>) = Len(s) + 1 /\ (s \o <<b>>)[Len(s) + 1] = b
         /\ \A i \in 1 .. Len(s) : (s \o <<b>>)[i] = s[i]
OBVIOUS

LEMMA NoMore == ASSUME NEW S, NEW s \in Seq(S) PROVE s \o <<>> = s
OBVIOUS

LEMMA OneLess ==
  ASSUME NEW S, NEW s \in Seq(S), s # <<>>
  PROVE  /\ Tail(s) \in Seq(S) /\ Len(s) >= 1 /\ Len(Tail(s)) = Len(s) - 1 /\ Head(s) = s[1] /\ Head(s) \in S
         /\ \A i \in 1 .. Len(s) - 1 : Tail(s)[i] = s[i + 1]
OBVIOUS

LEMMA CasioPackets ==
  /\ \A t \in Casio!Types : Casio!Byte(t) \in Casio!Packets /\ Casio!Byte(t).type = t
  /\ \A k \in Casio!Kinds, i \in 0 .. MaxItems, n \in 0 .. MaxParts :
       /\ Casio!Header(k, i, n) \in Casio!Packets /\ Casio!Header(k, i, n).type = "header"
       /\ Casio!Header(k, i, n).item = i /\ Casio!Header(k, i, n).part = n
  /\ \A i \in 0 .. MaxItems, n \in 0 .. MaxParts :
       /\ Casio!Part(i, n) \in Casio!Packets /\ Casio!Part(i, n).type = "part"
       /\ Casio!Part(i, n).item = i /\ Casio!Part(i, n).part = n
<1>1. 0 \in 0 .. MaxItems /\ 0 \in 0 .. MaxParts
  BY AttemptsAssumption, BoundsAssumption
<1> QED
  BY <1>1 DEF Casio!Packets, Casio!Types, Casio!Kinds, Casio!Byte, Casio!Header, Casio!Part

(* What the receiver does, for the sender: it waits, or takes a packet and *)
(* sends nothing that passes for an acknowledgement, or takes a header, or *)
(* a part.                                                                 *)
Aside == received' = received /\ (pc' = "part" => pc = "part" /\ UNCHANGED <<header, got, whole>>)

Waits == UNCHANGED <<toReceiver, toSender>> /\ late' \in {late, late + 1} /\ Aside

Answering(b) ==
  /\ b \in Casio!Packets /\ Casio!TakeAndSend(<<b>>)
  /\ b.type = "ack" => Head(toReceiver).type = "ack"
  /\ b.type = "established" => Head(toReceiver).type = "start"

TakesAside == toReceiver # <<>> /\ Aside /\ (Casio!Take \/ \E b \in Casio!Packets : Answering(b))

TakesHeader ==
  /\ toReceiver # <<>> /\ Head(toReceiver).type = "header" /\ Casio!TakeAndSend(<<Casio!Byte("ack")>>)
  /\ header' = Head(toReceiver) /\ got' = 0 /\ whole' = TRUE /\ received' = received
  /\ pc' = "part" \/ (pc' = "decode" /\ header'.part = 0)

TakesPart ==
  LET p == Head(toReceiver)
      own == whole /\ p.item = header.item /\ p.part = got + 1 IN
  /\ toReceiver # <<>> /\ p.type = "part" /\ pc = "part" /\ Casio!TakeAndSend(<<Casio!Byte("ack")>>)
  /\ header' = header /\ got' = got + 1 /\ whole' = own
  /\ IF got + 1 < header.part THEN received' = received
     ELSE pc' = "decode" /\ received' = IF own THEN received \cup {header.item} ELSE received

LEMMA OtherAnswers ==
  ASSUME NEW t \in Casio!Types \ {"ack", "established"}, Casio!TakeAndSend(<<Casio!Byte(t)>>)
  PROVE  \E b \in Casio!Packets : Answering(b)
BY CasioPackets DEF Answering

LEMMA ReceiverIs ==
  ASSUME Casio!Receiver, variant # "CAS40", toReceiver \in Seq(Casio!Packets)
  PROVE  /\ UNCHANGED <<variant, sender, s_pc, last, s_parts, starts, items, accepted>>
         /\ Waits \/ TakesAside \/ TakesHeader \/ TakesPart
<1> USE DEF Casio!fixed, Casio!data, Casio!session, Casio!senderVars, Casio!wires, Casio!faults
<1>1. Casio!HeaderAcks = <<>> /\ Casio!HeaderAcks \o <<Casio!Byte("ack")>> = <<Casio!Byte("ack")>>
        /\ Casio!HeaderAcks \o <<Casio!Byte("invalid")>> = <<Casio!Byte("invalid")>>
  BY DEF Casio!HeaderAcks
<1>2. \A t \in {"ack", "established", "invalid", "corrupted"} : Casio!Byte(t) \in Casio!Packets /\ Casio!Byte(t).type = t
  BY CasioPackets DEF Casio!Types
<1>3. \A r : Casio!Returns(r) => pc' # "part"
  BY DEF Casio!Returns, Casio!GoTo
<1>4. {"invalid", "corrupted"} \subseteq Casio!Types \ {"ack", "established"}
  BY DEF Casio!Types
<1>5. CASE Casio!Initiated
  <2>1. CASE Head(toReceiver).type = "start"
    <3>1. Answering(Casio!Byte("established"))
      BY <1>2, <1>5, <2>1 DEF Casio!Initiated, Answering
    <3>2. pc' # "part"
      BY <1>5, <2>1 DEF Casio!Initiated, Casio!GoTo
    <3> QED
      BY <1>2, <1>5, <3>1, <3>2 DEF Casio!Initiated, TakesAside, Aside
  <2>2. CASE Head(toReceiver).type # "start"
    BY <1>5, <2>2 DEF Casio!Initiated, Casio!GoTo, TakesAside, Aside
  <2> QED
    BY <2>1, <2>2
<1>6. CASE Casio!AnswerStart
  <2>1. Answering(Casio!Byte("established"))
    BY <1>2, <1>6 DEF Casio!AnswerStart, Answering
  <2> QED
    BY <1>2, <1>6, <2>1 DEF Casio!AnswerStart, Casio!Receiving, TakesAside, Aside
<1>7. CASE Casio!ReceiveOther
  BY <1>3, <1>7 DEF Casio!ReceiveOther, Casio!Receiving, TakesAside, Aside
<1>8. CASE Casio!ReceiveTimesOut
  BY <1>3, <1>8 DEF Casio!ReceiveTimesOut, Casio!TimeRunsOut, Waits, Aside
<1>9. CASE Casio!ReceiveBadHeader
  BY <1>3, <1>9 DEF Casio!ReceiveBadHeader, Casio!Receiving, TakesAside, Aside
<1>10. CASE Casio!HeaderUnknown
  BY <1>3, <1>10 DEF Casio!HeaderUnknown, Casio!GoodHeader, Casio!Receiving, TakesAside, Aside
<1>11. CASE Casio!HeaderTooLarge
  <2>1. Casio!TakeAndSend(<<Casio!Byte("invalid")>>)
    BY <1>1, <1>11 DEF Casio!HeaderTooLarge
  <2>2. \E b \in Casio!Packets : Answering(b)
    BY <1>4, <2>1, OtherAnswers
  <2> QED
    BY <1>3, <1>11, <2>2 DEF Casio!HeaderTooLarge, Casio!GoodHeader, Casio!Receiving, TakesAside, Aside
<1>12. CASE Casio!HeaderEnd
  BY <1>1, <1>3, <1>12 DEF Casio!HeaderEnd, Casio!GoodHeader, Casio!Receiving, Casio!Take, TakesAside, Aside
<1>13. CASE Casio!HeaderAl
  BY <1>1, <1>3, <1>13 DEF Casio!HeaderAl, Casio!GoodHeader, Casio!GoTo, Casio!Receiving, Casio!Take, TakesAside, Aside
<1>14. CASE Casio!HeaderAlEnd
  BY <1>1, <1>3, <1>14 DEF Casio!HeaderAlEnd, Casio!GoodHeader, Casio!Receiving, Casio!Take, TakesAside, Aside
<1>15. CASE Casio!HeaderEmpty
  BY <1>1, <1>15 DEF Casio!HeaderEmpty, Casio!GoodHeader, Casio!GoTo, Casio!Receiving, Casio!Take, TakesAside, Aside
<1>16. CASE Casio!HeaderData
  <2>1. Casio!TakeAndSend(<<Casio!Byte("ack")>>)
    BY <1>1, <1>16 DEF Casio!HeaderData
  <2>2. TakesHeader
    BY <1>16, <2>1 DEF Casio!HeaderData, Casio!GoodHeader, Casio!NoParts, Casio!GoTo, Casio!Receiving, TakesHeader
  <2> QED
    BY <1>16, <2>2 DEF Casio!HeaderData
<1>17. CASE Casio!ReceivePart
  <2>1. CASE Head(toReceiver).intact
    <3>1. Casio!TakeAndSend(<<Casio!Byte("ack")>>)
      BY <1>17, <2>1 DEF Casio!ReceivePart, Casio!PartAnswer
    <3>2. TakesPart
      BY <1>17, <2>1, <3>1 DEF Casio!ReceivePart, Casio!GoTo, Casio!Receiving, TakesPart
    <3> QED
      BY <1>17, <3>2 DEF Casio!ReceivePart
  <2>2. CASE ~Head(toReceiver).intact
    <3>1. Casio!TakeAndSend(<<Casio!Byte("invalid")>>)
      BY <1>17, <2>2 DEF Casio!ReceivePart, Casio!PartAnswer
    <3>2. \E b \in Casio!Packets : Answering(b)
      BY <1>4, <3>1, OtherAnswers
    <3> QED
      BY <1>3, <1>17, <2>2, <3>2 DEF Casio!ReceivePart, Casio!Receiving, TakesAside, Aside
  <2> QED
    BY <2>1, <2>2
<1>18. CASE Casio!HeaderForPart
  <2>1. CASE Casio!TakeAndSend(<<Casio!Byte("invalid")>>) /\ Casio!Returns("CORRUPT")
    <3>1. \E b \in Casio!Packets : Answering(b)
      BY <1>4, <2>1, OtherAnswers
    <3> QED
      BY <1>3, <1>18, <2>1, <3>1 DEF Casio!HeaderForPart, Casio!Receiving, TakesAside, Aside
  <2>2. CASE Casio!Take /\ Casio!Returns("TIMEOUT")
    BY <1>3, <1>18, <2>2 DEF Casio!HeaderForPart, Casio!Receiving, TakesAside, Aside
  <2> QED
    BY <1>18, <2>1, <2>2 DEF Casio!HeaderForPart
<1>19. CASE Casio!Decode
  <2>1. pc = "decode" /\ (pc' # "part")
    <3>1. PICK r \in {"OK", "IMPL", "CORRUPT"} : Casio!AfterDecode(r)
      BY <1>19 DEF Casio!Decode
    <3> QED
      BY <1>3, <1>19, <3>1 DEF Casio!Decode, Casio!AfterDecode, Casio!InLoop, Casio!GoTo
  <2> QED
    BY <1>19, <2>1 DEF Casio!Decode, Waits, Aside
<1>20. CASE Casio!ScreenReceived
  BY <1>3, <1>20 DEF Casio!ScreenReceived, Casio!GoTo, Waits, Aside
<1>21. CASE Casio!ReceiveModel
  <2> DEFINE p == Head(toReceiver)
             b == [p EXCEPT !.intact = TRUE]
  <2>1. p \in Casio!Packets /\ p.type = "header" /\ Casio!TakeAndSend(<<b>>) /\ toReceiver # <<>>
    BY <1>21, OneLess DEF Casio!ReceiveModel, Casio!Receiving
  <2>2. b \in Casio!Packets /\ b.type = "header"
    BY <2>1 DEF Casio!Packets
  <2> HIDE DEF b, p
  <2>3. Answering(b)
    BY <2>1, <2>2 DEF Answering
  <2> QED
    BY <1>21, <2>1, <2>2, <2>3 DEF Casio!ReceiveModel, Casio!GoTo, TakesAside, Aside
<1>22. CASE Casio!NoModel
  BY <1>3, <1>22 DEF Casio!NoModel, Casio!Receiving, TakesAside, Aside
<1>23. CASE Casio!ModelAcknowledged
  <2>1. CASE Head(toReceiver).type = "ack"
    <3>1. Answering(Casio!Byte("ack"))
      BY <1>2, <1>23, <2>1 DEF Casio!ModelAcknowledged, Answering
    <3>2. pc' # "part"
      BY <1>23, <2>1 DEF Casio!ModelAcknowledged, Casio!GoTo
    <3> QED
      BY <1>2, <1>23, <3>1, <3>2 DEF Casio!ModelAcknowledged, Casio!Receiving, TakesAside, Aside
  <2>2. CASE Head(toReceiver).type # "ack"
    <3>1. \E b \in Casio!Packets : Answering(b)
      BY <1>4, <1>23, <2>2, OtherAnswers DEF Casio!ModelAcknowledged
    <3> QED
      BY <1>3, <1>23, <2>2, <3>1 DEF Casio!ModelAcknowledged, Casio!Receiving, TakesAside, Aside
  <2> QED
    BY <2>1, <2>2
<1> QED
  BY <1>5, <1>6, <1>7, <1>8, <1>9, <1>10, <1>11, <1>12, <1>13, <1>14, <1>15, <1>16, <1>17, <1>18, <1>19,
     <1>20, <1>21, <1>22, <1>23 DEF Casio!Receiver

(* What becomes of the wires when the receiver takes a packet.             *)
LEMMA AnswerIs ==
  ASSUME SenderTypes, toReceiver # <<>>, NEW b \in Casio!Packets, Casio!TakeAndSend(<<b>>)
  PROVE  /\ late' = late /\ Len(toReceiver) >= 1 /\ Head(toReceiver) = toReceiver[1]
         /\ toReceiver' \in Seq(Casio!Packets) /\ Len(toReceiver') = Len(toReceiver) - 1
         /\ \A i \in 1 .. Len(toReceiver) - 1 : toReceiver'[i] = toReceiver[i + 1]
         /\ toSender' \in Seq(Casio!Packets) /\ toSender \in Seq(Casio!Packets)
         /\ s_pc = "ended" => toSender' = toSender
         /\ s_pc # "ended" => /\ Len(toSender') = Len(toSender) + 1 /\ toSender'[Len(toSender) + 1] = b
                              /\ \A i \in 1 .. Len(toSender) : toSender'[i] = toSender[i]
<1>1. toReceiver \in Seq(Casio!Packets) /\ toSender \in Seq(Casio!Packets)
  BY DEF SenderTypes
<1>2. late' = late /\ toReceiver' = Tail(toReceiver) /\ toSender' = IF s_pc = "ended" THEN toSender ELSE toSender \o <<b>>
  BY DEF Casio!TakeAndSend, Casio!faults
<1>3. /\ toSender \o <<b>> \in Seq(Casio!Packets) /\ Len(toSender \o <<b>>) = Len(toSender) + 1
      /\ (toSender \o <<b>>)[Len(toSender) + 1] = b
      /\ \A i \in 1 .. Len(toSender) : (toSender \o <<b>>)[i] = toSender[i]
  BY <1>1, OneMore
<1> QED
  BY <1>1, <1>2, <1>3, OneLess

LEMMA TakeIs ==
  ASSUME SenderTypes, toReceiver # <<>>, Casio!Take
  PROVE  /\ late' = late /\ toSender' = toSender /\ Len(toReceiver) >= 1
         /\ toReceiver' \in Seq(Casio!Packets) /\ Len(toReceiver') = Len(toReceiver) - 1
         /\ \A i \in 1 .. Len(toReceiver) - 1 : toReceiver'[i] = toReceiver[i + 1]
<1>1. toReceiver \in Seq(Casio!Packets) /\ toSender \in Seq(Casio!Packets)
  BY DEF SenderTypes
<1>2. late' = late /\ toReceiver' = Tail(toReceiver) /\ toSender' = IF s_pc = "ended" THEN toSender ELSE toSender \o <<>>
  BY DEF Casio!Take, Casio!TakeAndSend, Casio!faults
<1> QED
  BY <1>1, <1>2, NoMore, OneLess

LEMMA AsideKeeps ==
  ASSUME Aside, UNCHANGED <<last, s_parts>>
  PROVE  (\A m : Awaited(m) => Awaited(m)') /\ (Acknowledged => Acknowledged')
BY DEF Aside, Awaited, Acknowledged, InPart

LEMMA RegularStays ==
  ASSUME UNCHANGED <<variant, sender>>, starts \in Nat, starts' \in Nat, late \in Nat, late' \in Nat,
         starts <= starts', late <= late', Regular'
  PROVE  Regular
BY DEF Regular, Casio!OneAtATime

LEMMA ReceiverKeepsInv ==
  ASSUME SenderInv, Casio!Receiver, Regular
  PROVE  SenderInv'
<1>1. /\ UNCHANGED <<variant, sender, s_pc, last, s_parts, starts, items, accepted>>
      /\ Waits \/ TakesAside \/ TakesHeader \/ TakesPart
  BY ReceiverIs DEF SenderInv, SenderTypes, Regular
<1>2. SenderTypes /\ InTurns /\ Casio!Accepted /\ late \in Nat /\ starts \in Nat
  BY DEF SenderInv, SenderTypes
<1> DEFINE n == Len(toReceiver)
           k == Len(toSender)
<1>3. n \in Nat /\ k \in Nat
  BY <1>2 DEF SenderTypes
<1>4. ASSUME late' \in Nat, late <= late', toReceiver' \in Seq(Casio!Packets), toSender' \in Seq(Casio!Packets),
             InTurns', received \subseteq received'
      PROVE  SenderInv'
  <2>1. SenderTypes'
    BY <1>1, <1>2, <1>4 DEF SenderTypes
  <2>2. Casio!Accepted'
    BY <1>1, <1>2, <1>4 DEF Casio!Accepted
  <2> QED
    BY <1>4, <2>1, <2>2 DEF SenderInv
<1>5. CASE Waits
  <2>1. UNCHANGED <<toReceiver, toSender>> /\ late' \in Nat /\ late <= late' /\ (late' = 0 => late = 0) /\ Aside
    BY <1>2, <1>5 DEF Waits
  <2>2. InTurns'
    BY <1>1, <1>2, <2>1, AsideKeeps DEF InTurns
  <2> QED
    BY <1>2, <1>4, <2>1, <2>2 DEF SenderTypes, Aside
<1>6. CASE TakesAside /\ Casio!Take
  <2>1. /\ late' = late /\ toSender' = toSender /\ Len(toReceiver) >= 1
        /\ toReceiver' \in Seq(Casio!Packets) /\ Len(toReceiver') = Len(toReceiver) - 1
        /\ \A i \in 1 .. Len(toReceiver) - 1 : toReceiver'[i] = toReceiver[i + 1]
    BY <1>2, <1>6, TakeIs DEF TakesAside
  <2>2. Aside
    BY <1>6 DEF TakesAside
  <2>3. InTurns'
    <3>1. /\ s_pc # "off" /\ s_pc # "next"
          /\ s_pc = "ended" /\ late = 0 => \A i \in 1 .. n - 1 : toReceiver[i + 1].type # "start"
      BY <1>2, <1>3, <2>1 DEF InTurns
    <3>2. s_pc = "start" => /\ \A i \in 1 .. n - 2 : toReceiver[i + 1].type # "start"
                            /\ \A i \in 1 .. k : toSender[i].type # "established"
      BY <1>2, <1>3, <2>1 DEF InTurns
    <3>3. s_pc \in {"model", "model_ack", "answer"} => n = 1 /\ k = 0
      BY <1>2, <1>3, <2>1 DEF InTurns
    <3>4. s_pc' = "ended" /\ late' = 0 => \A i \in 1 .. Len(toReceiver') : toReceiver'[i].type # "start"
      BY <1>1, <1>3, <2>1, <3>1
    <3>5. s_pc' = "start" =>
            /\ \A i \in 1 .. Len(toReceiver') - 1 : toReceiver'[i].type # "start"
            /\ \A i \in 1 .. Len(toSender') :
                 toSender'[i].type = "established" => i = Len(toSender') /\ Len(toReceiver') = 0
      <4> SUFFICES ASSUME s_pc = "start"
                   PROVE  /\ \A i \in 1 .. Len(toReceiver') - 1 : toReceiver'[i].type # "start"
                          /\ \A i \in 1 .. Len(toSender') : toSender'[i].type # "established"
        BY <1>1
      <4>1. \A i \in 1 .. Len(toSender') : toSender'[i].type # "established"
        BY <2>1, <3>2
      <4>2. Len(toReceiver') = n - 1 /\ \A i \in 1 .. n - 1 : toReceiver'[i] = toReceiver[i + 1]
        BY <2>1
      <4>3. \A i \in 1 .. n - 2 : toReceiver[i + 1].type # "start"
        BY <3>2
      <4> HIDE DEF n
      <4>4. \A i \in 1 .. (n - 1) - 1 : toReceiver'[i].type # "start"
        BY <1>3, <4>2, <4>3
      <4> QED
        BY <4>1, <4>2, <4>4
    <3>6. s_pc' \in {"model", "model_ack", "answer"} => Len(toReceiver') = 0 /\ Len(toSender') = 0
      BY <1>1, <1>3, <2>1, <3>3
    <3> QED
      BY <1>1, <3>1, <3>4, <3>5, <3>6 DEF InTurns
  <2> QED
    BY <1>2, <1>4, <2>1, <2>2, <2>3 DEF SenderTypes, Aside
<1>7. ASSUME NEW b \in Casio!Packets, Casio!TakeAndSend(<<b>>), toReceiver # <<>>, received \subseteq received',
             b.type = "established" => Head(toReceiver).type = "start",
             s_pc = "answer" /\ b.type = "ack" => Acknowledged'
      PROVE  SenderInv'
  <2>1. /\ late' = late /\ Len(toReceiver) >= 1 /\ Head(toReceiver) = toReceiver[1]
        /\ toReceiver' \in Seq(Casio!Packets) /\ Len(toReceiver') = Len(toReceiver) - 1
        /\ \A i \in 1 .. Len(toReceiver) - 1 : toReceiver'[i] = toReceiver[i + 1]
        /\ toSender' \in Seq(Casio!Packets) /\ toSender \in Seq(Casio!Packets)
        /\ s_pc = "ended" => toSender' = toSender
        /\ s_pc # "ended" => /\ Len(toSender') = Len(toSender) + 1 /\ toSender'[Len(toSender) + 1] = b
                             /\ \A i \in 1 .. Len(toSender) : toSender'[i] = toSender[i]
    BY <1>2, <1>7, AnswerIs
  <2>2. InTurns'
    <3>1. /\ s_pc # "off" /\ s_pc # "next"
          /\ s_pc = "ended" /\ late = 0 => \A i \in 1 .. n - 1 : toReceiver[i + 1].type # "start"
      BY <1>2, <1>3, <2>1 DEF InTurns
    <3>2. s_pc = "start" => /\ \A i \in 1 .. n - 2 : toReceiver[i + 1].type # "start"
                            /\ \A i \in 1 .. k : toSender[i].type # "established"
                            /\ b.type = "established" => n = 1
      <4> SUFFICES ASSUME s_pc = "start"
                   PROVE  /\ \A i \in 1 .. n - 2 : toReceiver[i + 1].type # "start"
                          /\ \A i \in 1 .. k : toSender[i].type # "established"
                          /\ b.type = "established" => n = 1
        OBVIOUS
      <4>1. \A i \in 1 .. n - 1 : toReceiver[i].type # "start"
        BY <1>2 DEF InTurns
      <4>2. \A i \in 1 .. k : toSender[i].type # "established"
        BY <1>2, <1>3, <2>1 DEF InTurns
      <4>3. b.type = "established" => toReceiver[1].type = "start"
        BY <1>7, <2>1
      <4> QED
        BY <1>3, <2>1, <4>1, <4>2, <4>3
    <3>3. s_pc \in {"model", "model_ack", "answer"} => n = 1 /\ k = 0
      BY <1>2, <1>3, <2>1 DEF InTurns
    <3>4. s_pc' = "ended" /\ late' = 0 => \A i \in 1 .. Len(toReceiver') : toReceiver'[i].type # "start"
      BY <1>1, <1>3, <2>1, <3>1
    <3>5. s_pc' = "start" =>
            /\ \A i \in 1 .. Len(toReceiver') - 1 : toReceiver'[i].type # "start"
            /\ \A i \in 1 .. Len(toSender') :
                 toSender'[i].type = "established" => i = Len(toSender') /\ Len(toReceiver') = 0
      <4> SUFFICES ASSUME s_pc = "start"
                   PROVE  /\ \A i \in 1 .. Len(toReceiver') - 1 : toReceiver'[i].type # "start"
                          /\ \A i \in 1 .. Len(toSender') :
                               toSender'[i].type = "established" => i = Len(toSender') /\ Len(toReceiver') = 0
        BY <1>1
      <4>1. Len(toSender') = k + 1 /\ toSender'[k + 1] = b /\ \A i \in 1 .. k : toSender'[i] = toSender[i]
        BY <2>1
      <4>2. \A i \in 1 .. Len(toSender') : i \in 1 .. k \/ i = k + 1
        BY <1>3, <4>1
      <4>6. Len(toReceiver') = n - 1 /\ \A i \in 1 .. n - 1 : toReceiver'[i] = toReceiver[i + 1]
        BY <2>1
      <4>7. (\A i \in 1 .. n - 2 : toReceiver[i + 1].type # "start") /\ (b.type = "established" => n = 1)
        BY <3>2
      <4>3. \A i \in 1 .. Len(toReceiver') - 1 : toReceiver'[i].type # "start"
        <5> HIDE DEF n
        <5>1. \A i \in 1 .. (n - 1) - 1 : toReceiver'[i].type # "start"
          BY <1>3, <4>6, <4>7
        <5> QED
          BY <4>6, <5>1
      <4>4. b.type = "established" => Len(toReceiver') = 0
        <5> HIDE DEF n
        <5> QED
          BY <1>3, <4>6, <4>7
      <4>5. \A i \in 1 .. k : toSender'[i].type # "established"
        BY <3>2, <4>1
      <4> QED
        BY <4>1, <4>2, <4>3, <4>4, <4>5
    <3>6. s_pc' \in {"model", "model_ack", "answer"} => Len(toReceiver') = 0 /\ Len(toSender') = 1 /\ toSender'[1] = b
      <4> SUFFICES ASSUME s_pc \in {"model", "model_ack", "answer"}
                   PROVE  Len(toReceiver') = 0 /\ Len(toSender') = 1 /\ toSender'[1] = b
        BY <1>1
      <4>1. n = 1 /\ k = 0 /\ Len(toReceiver') = n - 1 /\ Len(toSender') = k + 1 /\ toSender'[k + 1] = b
        BY <2>1, <3>3
      <4> HIDE DEF n, k
      <4> QED
        BY <4>1
    <3>7. s_pc' = "answer" => /\ Len(toReceiver') # 1
                              /\ Len(toSender') = 1 /\ toSender'[1].type = "ack" => Acknowledged'
      BY <1>1, <1>7, <3>6
    <3>8. s_pc' \in {"model", "model_ack", "answer"} => Len(toReceiver') + Len(toSender') <= 1
      <4> DEFINE x == Len(toReceiver')
                 y == Len(toSender')
      <4>1. s_pc' \in {"model", "model_ack", "answer"} => x = 0 /\ y = 1
        BY <3>6
      <4> HIDE DEF x, y
      <4>2. s_pc' \in {"model", "model_ack", "answer"} => x + y <= 1
        BY <4>1
      <4> QED
        BY <4>2 DEF x, y
    <3> QED
      BY <1>1, <3>1, <3>4, <3>5, <3>7, <3>8 DEF InTurns
  <2> QED
    BY <1>2, <1>4, <1>7, <2>1, <2>2 DEF SenderTypes
<1>8. s_pc = "answer" /\ toReceiver # <<>> => Head(toReceiver) = toReceiver[1] /\ Awaited(Head(toReceiver))
  <2> SUFFICES ASSUME s_pc = "answer", toReceiver # <<>>
               PROVE Head(toReceiver) = toReceiver[1] /\ Awaited(Head(toReceiver))
    OBVIOUS
  <2>1. n >= 1 /\ Head(toReceiver) = toReceiver[1]
    BY <1>2, OneLess DEF SenderTypes
  <2> QED
    BY <1>2, <1>3, <2>1 DEF InTurns
<1>9. CASE TakesAside /\ \E b \in Casio!Packets : Answering(b)
  <2>1. PICK b \in Casio!Packets : Answering(b)
    BY <1>9
  <2>2. s_pc = "answer" => b.type # "ack"
    BY <1>8, <1>9, <2>1 DEF Answering, Awaited, TakesAside
  <2> QED
    BY <1>7, <1>9, <2>1, <2>2 DEF TakesAside, Aside, Answering
<1>10. Casio!Byte("ack") \in Casio!Packets /\ Casio!Byte("ack").type = "ack"
  BY CasioPackets DEF Casio!Types
<1>11. s_parts \in Nat /\ last.part \in Nat /\ s_parts <= last.part
  BY <1>2, AttemptsAssumption DEF SenderTypes, Casio!Packets
<1>12. CASE TakesHeader
  <2>1. s_pc = "answer" => Acknowledged'
    BY <1>1, <1>8, <1>11, <1>12 DEF TakesHeader, Awaited, Acknowledged, InPart
  <2> QED
    BY <1>7, <1>10, <1>12, <2>1 DEF TakesHeader
<1>13. CASE TakesPart
  <2>1. s_pc = "answer" => Acknowledged'
    <3> SUFFICES ASSUME s_pc = "answer" PROVE Acknowledged'
      OBVIOUS
    <3> DEFINE p == Head(toReceiver)
    <3>1. /\ p.item = last.item /\ s_parts < last.part /\ p.part = last.part - s_parts
          /\ header.item = last.item /\ header.part = last.part /\ got = last.part - s_parts - 1 /\ whole = TRUE
      BY <1>8, <1>13 DEF TakesPart, Awaited, InPart
    <3>2. header' = header /\ got' = got + 1 /\ whole' = (whole /\ p.item = header.item /\ p.part = got + 1)
      BY <1>13 DEF TakesPart
    <3>5. got' = last.part - s_parts
      BY <1>11, <3>1, <3>2
    <3>6. p.part = got + 1
      BY <1>11, <3>1
    <3>7. whole' = TRUE
      <4> HIDE DEF p
      <4> QED
        BY <3>1, <3>2, <3>6, Zenon
    <3>3. got' = last.part - s_parts /\ whole' = TRUE
      BY <3>5, <3>7
    <3>4. s_parts = 0 => pc' = "decode" /\ last.item \in received'
      BY <1>11, <1>13, <3>1 DEF TakesPart
    <3> QED
      BY <1>1, <1>11, <3>1, <3>2, <3>3, <3>4 DEF Acknowledged, InPart
  <2> QED
    BY <1>7, <1>10, <1>13, <2>1 DEF TakesPart
<1> QED
  BY <1>1, <1>5, <1>6, <1>9, <1>12, <1>13 DEF TakesAside

(* What the sender sends.                                                  *)
LEMMA SendingIs ==
  ASSUME toReceiver \in Seq(Casio!Packets), NEW b \in Casio!Packets, Casio!ToReceiver(<<b>>)
  PROVE  /\ toReceiver' \in Seq(Casio!Packets)
         /\ \/ toReceiver' = toReceiver
            \/ /\ Len(toReceiver') = Len(toReceiver) + 1 /\ toReceiver'[Len(toReceiver) + 1] = b
               /\ \A i \in 1 .. Len(toReceiver) : toReceiver'[i] = toReceiver[i]
BY OneMore DEF Casio!ToReceiver

LEMMA SendingOne ==
  ASSUME toReceiver \in Seq(Casio!Packets), NEW b \in Casio!Packets, Casio!ToReceiver(<<b>>), Len(toReceiver) = 0
  PROVE  toReceiver' \in Seq(Casio!Packets) /\ (Len(toReceiver') = 0 \/ (Len(toReceiver') = 1 /\ toReceiver'[1] = b))
<1>1. /\ toReceiver' \in Seq(Casio!Packets)
      /\ \/ toReceiver' = toReceiver
         \/ /\ Len(toReceiver') = Len(toReceiver) + 1 /\ toReceiver'[Len(toReceiver) + 1] = b
            /\ \A i \in 1 .. Len(toReceiver) : toReceiver'[i] = toReceiver[i]
  BY SendingIs
<1>2. CASE toReceiver' = toReceiver
  BY <1>1, <1>2
<1>3. CASE Len(toReceiver') = Len(toReceiver) + 1 /\ toReceiver'[Len(toReceiver) + 1] = b
  <2> DEFINE n == Len(toReceiver)
  <2>1. n = 0 /\ Len(toReceiver') = n + 1 /\ toReceiver'[n + 1] = b
    BY <1>3
  <2> HIDE DEF n
  <2>2. Len(toReceiver') = 1 /\ toReceiver'[1] = b
    BY <2>1
  <2> QED
    BY <1>1, <2>2
<1> QED
  BY <1>1, <1>2, <1>3

LEMMA SendingNothing ==
  ASSUME toReceiver \in Seq(Casio!Packets), Casio!ToReceiver(<<>>)
  PROVE  toReceiver' = toReceiver
BY NoMore DEF Casio!ToReceiver

LEMMA ReceiverAlone ==
  ASSUME Casio!SenderUnchanged
  PROVE  UNCHANGED <<variant, sender, pc, header, got, whole, received>>
BY DEF Casio!SenderUnchanged, Casio!fixed, Casio!receiverVars, Casio!data

LEMMA SenderStartsKeepsInv == ASSUME SenderInv, Casio!SenderStarts PROVE SenderInv'
<1>1. /\ UNCHANGED <<variant, sender, pc, header, got, whole, received, last, s_parts, items, accepted>>
      /\ s_pc' = "start" /\ starts' = starts + 1 /\ toSender' = <<>> /\ Casio!ToReceiver(<<Casio!Byte("start")>>)
  BY ReceiverAlone DEF Casio!SenderStarts
<1>2. SenderTypes /\ starts \in Nat /\ late \in Nat /\ toReceiver \in Seq(Casio!Packets)
  BY DEF SenderInv, SenderTypes
<1>3. Casio!Byte("start") \in Casio!Packets /\ "start" \in Casio!Types
  BY CasioPackets DEF Casio!Types
<1>4. late' \in Nat /\ late <= late'
  BY <1>2 DEF Casio!SenderStarts, Casio!SenderTimeRunsOut
<1>5. /\ toReceiver' \in Seq(Casio!Packets)
      /\ \/ toReceiver' = toReceiver
         \/ /\ Len(toReceiver') = Len(toReceiver) + 1 /\ toReceiver'[Len(toReceiver) + 1] = Casio!Byte("start")
            /\ \A i \in 1 .. Len(toReceiver) : toReceiver'[i] = toReceiver[i]
  BY <1>1, <1>2, <1>3, SendingIs
<1>6. <<>> \in Seq(Casio!Packets) /\ Len(<<>>) = 0
  OBVIOUS
<1>7. SenderTypes'
  BY <1>1, <1>2, <1>4, <1>5, <1>6 DEF SenderTypes, Casio!SenderPlaces
<1>8. ASSUME Regular' PROVE InTurns' /\ Casio!Accepted'
  <2>1. InTurns /\ Casio!Accepted
    BY <1>1, <1>2, <1>4, <1>8, RegularStays DEF SenderInv
  <2>2. Casio!Accepted'
    BY <1>1, <2>1 DEF Casio!Accepted
  <2>3. \A i \in 1 .. Len(toReceiver) : toReceiver[i].type # "start"
    <3>1. CASE s_pc = "off"
      BY <2>1, <3>1 DEF InTurns
    <3>2. CASE s_pc # "off"
      <4>1. starts >= 1 /\ starts' > 1
        BY <1>1, <1>2, <3>2 DEF SenderTypes
      <4>5. late' = 0 \/ starts' <= 1
        BY <1>8 DEF Regular, Casio!OneAtATime
      <4>6. late' = 0
        BY <1>1, <1>2, <4>1, <4>5
      <4>2. late' = 0 /\ late = 0
        BY <1>2, <1>4, <4>6
      <4>3. CASE s_pc = "ended"
        BY <2>1, <4>2, <4>3 DEF InTurns
      <4>4. CASE s_pc # "ended"
        <5>1. toReceiver = <<>>
          BY <1>2, <3>2, <4>2, <4>4 DEF Casio!SenderStarts, Casio!SenderTimeRunsOut
        <5> QED
          BY <5>1
      <4> QED
        BY <4>3, <4>4
    <3> QED
      BY <3>1, <3>2
  <2>4. \A i \in 1 .. Len(toReceiver') - 1 : toReceiver'[i].type # "start"
    <3>1. CASE toReceiver' = toReceiver
      <4> DEFINE n == Len(toReceiver)
      <4>1. n \in Nat /\ Len(toReceiver') = n /\ \A i \in 1 .. n : toReceiver'[i].type # "start"
        BY <1>2, <2>3, <3>1
      <4> HIDE DEF n
      <4> QED
        BY <4>1
    <3>2. CASE Len(toReceiver') = Len(toReceiver) + 1 /\ \A i \in 1 .. Len(toReceiver) : toReceiver'[i] = toReceiver[i]
      <4> DEFINE n == Len(toReceiver)
      <4>1. n \in Nat /\ Len(toReceiver') = n + 1 /\ \A i \in 1 .. n : toReceiver'[i].type # "start"
        BY <1>2, <2>3, <3>2
      <4> HIDE DEF n
      <4> QED
        BY <4>1
    <3> QED
      BY <1>5, <3>1, <3>2
  <2> QED
    BY <1>1, <1>6, <2>2, <2>4 DEF InTurns
<1> QED
  BY <1>7, <1>8 DEF SenderInv

LEMMA SenderGivesUpKeepsInv == ASSUME SenderInv, Casio!SenderGivesUp PROVE SenderInv'
<1>1. /\ UNCHANGED <<variant, sender, pc, header, got, whole, received, toReceiver, toSender, last, s_parts, starts,
                     items, accepted>>
      /\ s_pc' = "ended" /\ s_pc \in {"start", "model", "model_ack", "answer"}
  BY ReceiverAlone DEF Casio!SenderGivesUp
<1>2. SenderTypes /\ starts \in Nat /\ late \in Nat
  BY DEF SenderInv, SenderTypes
<1>3. late' \in Nat /\ late <= late' /\ (late' = 0 => toReceiver = <<>>)
  BY <1>2 DEF Casio!SenderGivesUp, Casio!SenderTimeRunsOut
<1>4. SenderTypes'
  BY <1>1, <1>2, <1>3 DEF SenderTypes, Casio!SenderPlaces
<1>5. ASSUME Regular' PROVE InTurns' /\ Casio!Accepted'
  <2>1. InTurns /\ Casio!Accepted
    BY <1>1, <1>2, <1>3, <1>5, RegularStays DEF SenderInv
  <2>2. Casio!Accepted'
    BY <1>1, <2>1 DEF Casio!Accepted
  <2>3. late' = 0 => Len(toReceiver') = 0
    BY <1>1, <1>3
  <2> QED
    BY <1>1, <2>2, <2>3 DEF InTurns
<1> QED
  BY <1>4, <1>5 DEF SenderInv

(* A sender takes what comes: in its turn, there is nothing else.          *)
LEMMA SenderTakesOne ==
  ASSUME SenderTypes, toSender # <<>>, NEW ps, Casio!SenderTakes(ps)
  PROVE  /\ late' = late /\ Casio!ToReceiver(ps) /\ Head(toSender) = toSender[1] /\ Len(toSender) >= 1
         /\ toSender' \in Seq(Casio!Packets) /\ Len(toSender') = Len(toSender) - 1
         /\ \A i \in 1 .. Len(toSender) - 1 : toSender'[i] = toSender[i + 1]
         /\ Len(toReceiver) + Len(toSender) <= 1 => Len(toReceiver) = 0 /\ Len(toSender') = 0 /\ Len(toSender) = 1
<1>1. toSender \in Seq(Casio!Packets) /\ toReceiver \in Seq(Casio!Packets)
  BY DEF SenderTypes
<1>2. late' = late /\ Casio!ToReceiver(ps) /\ toSender' = Tail(toSender)
  BY DEF Casio!SenderTakes, Casio!faults
<1>3. /\ toSender' \in Seq(Casio!Packets) /\ Len(toSender) >= 1 /\ Len(toSender') = Len(toSender) - 1
      /\ Head(toSender) = toSender[1] /\ \A i \in 1 .. Len(toSender) - 1 : toSender'[i] = toSender[i + 1]
  BY <1>1, <1>2, OneLess
<1> DEFINE n == Len(toReceiver)
           k == Len(toSender)
<1>4. n \in Nat /\ k \in Nat /\ k >= 1 /\ Len(toSender') = k - 1
  BY <1>1, <1>3
<1> HIDE DEF n, k
<1>5. n + k <= 1 => n = 0 /\ Len(toSender') = 0 /\ k = 1
  BY <1>4
<1> QED
  BY <1>2, <1>3, <1>5 DEF n, k

LEMMA SenderEstablishedKeepsInv == ASSUME SenderInv, Casio!SenderEstablished PROVE SenderInv'
<1>1. /\ UNCHANGED <<variant, sender, pc, header, got, whole, received, starts, items, accepted>>
      /\ s_pc = "start" /\ toSender # <<>>
  BY ReceiverAlone DEF Casio!SenderEstablished
<1>2. SenderTypes /\ starts \in Nat /\ late \in Nat /\ toReceiver \in Seq(Casio!Packets) /\ last.part \in Nat
  BY DEF SenderInv, SenderTypes, Casio!Packets
<1>3. Head(toSender) = toSender[1] /\ Len(toSender) >= 1
  BY <1>1, <1>2, OneLess DEF SenderTypes
<1>4. Regular' /\ late' = late => Regular /\ InTurns /\ Casio!Accepted
  BY <1>1, <1>2, RegularStays DEF SenderInv
<1>5. Casio!Accepted => Casio!Accepted'
  BY <1>1 DEF Casio!Accepted
<1>6. CASE Head(toSender).type = "established" /\ variant = "CAS100"
  <2> DEFINE b == Casio!Header("mdl", 0, 0)
  <2>1. s_parts' = 0 /\ last' = b /\ s_pc' = "model" /\ Casio!SenderTakes(<<b>>)
    BY <1>6 DEF Casio!SenderEstablished
  <2>2. b \in Casio!Packets /\ b.part = 0
    BY CasioPackets, AttemptsAssumption, BoundsAssumption DEF Casio!Kinds
  <2> HIDE DEF b
  <2>3. /\ late' = late /\ Casio!ToReceiver(<<b>>) /\ toSender' \in Seq(Casio!Packets) /\ Len(toSender') = Len(toSender) - 1
    BY <1>1, <1>2, <2>1, SenderTakesOne
  <2>4. toReceiver' \in Seq(Casio!Packets)
    BY <1>2, <2>2, <2>3, SendingIs
  <2>5. SenderTypes'
    BY <1>1, <1>2, <2>1, <2>2, <2>3, <2>4 DEF SenderTypes, Casio!SenderPlaces
  <2>6. ASSUME Regular' PROVE InTurns'
    <3>1. Len(toSender) = 1 /\ Len(toReceiver) = 0
      BY <1>1, <1>3, <1>4, <1>6, <2>3, <2>6 DEF InTurns
    <3>2. Len(toReceiver') = 0 \/ Len(toReceiver') = 1
      BY <1>2, <2>2, <2>3, <3>1, SendingOne
    <3>3. Len(toSender') = 0
      BY <2>3, <3>1
    <3>4. Len(toReceiver') + Len(toSender') <= 1
      BY <3>2, <3>3
    <3> QED
      BY <2>1, <3>4 DEF InTurns
  <2> QED
    BY <1>4, <1>5, <2>3, <2>5, <2>6 DEF SenderInv
<1>7. CASE Head(toSender).type = "established" /\ variant # "CAS100"
  <2>1. s_parts' = 0 /\ last' = last /\ s_pc' = Casio!Ready /\ Casio!SenderTakes(<<>>)
    BY <1>7 DEF Casio!SenderEstablished
  <2>3. /\ late' = late /\ toReceiver' = toReceiver /\ toSender' \in Seq(Casio!Packets)
        /\ Len(toSender') = Len(toSender) - 1
    BY <1>1, <1>2, <2>1, SenderTakesOne, SendingNothing
  <2>4. s_pc' \in {"open", "next"} /\ (s_pc' = "open" <=> sender = "library")
    BY <2>1 DEF Casio!Ready
  <2>5. SenderTypes'
    BY <1>1, <1>2, <2>1, <2>3, <2>4 DEF SenderTypes, Casio!SenderPlaces
  <2>6. ASSUME Regular' PROVE InTurns'
    <3>1. Len(toSender) = 1 /\ Len(toReceiver) = 0
      BY <1>1, <1>3, <1>4, <1>7, <2>3, <2>6 DEF InTurns
    <3>2. Len(toSender') = 0 /\ Len(toReceiver') = 0
      BY <2>3, <3>1
    <3> QED
      BY <2>4, <3>2 DEF InTurns
  <2> QED
    BY <1>4, <1>5, <2>3, <2>5, <2>6 DEF SenderInv
<1>8. CASE Head(toSender).type # "established"
  <2>1. s_parts' = s_parts /\ last' = last /\ Casio!SenderTakes(<<>>) /\ s_pc' = IF sender = "library" THEN "ended" ELSE "start"
    BY <1>1, <1>8 DEF Casio!SenderEstablished
  <2>3. /\ late' = late /\ toReceiver' = toReceiver /\ toSender' \in Seq(Casio!Packets)
        /\ Len(toSender') = Len(toSender) - 1 /\ \A i \in 1 .. Len(toSender) - 1 : toSender'[i] = toSender[i + 1]
    BY <1>1, <1>2, <2>1, SenderTakesOne, SendingNothing
  <2>5. SenderTypes'
    BY <1>1, <1>2, <2>1, <2>3 DEF SenderTypes, Casio!SenderPlaces
  <2>6. ASSUME Regular' PROVE InTurns'
    <3>1. InTurns /\ s_pc' = "start"
      BY <1>4, <2>1, <2>3, <2>6 DEF Regular
    <3> DEFINE k == Len(toSender)
    <3>2. /\ \A i \in 1 .. Len(toReceiver) - 1 : toReceiver[i].type # "start"
          /\ \A i \in 1 .. k : toSender[i].type = "established" => i = k /\ Len(toReceiver) = 0
      BY <1>1, <3>1 DEF InTurns
    <3>3. k \in Nat /\ Len(toSender') = k - 1 /\ \A i \in 1 .. k - 1 : toSender'[i] = toSender[i + 1]
      BY <1>2, <2>3 DEF SenderTypes
    <3> HIDE DEF k
    <3>4. \A i \in 1 .. k - 1 : toSender'[i].type = "established" => i = k - 1 /\ Len(toReceiver) = 0
      BY <3>2, <3>3
    <3>5. \A i \in 1 .. Len(toSender') : toSender'[i].type = "established" => i = Len(toSender') /\ Len(toReceiver) = 0
      BY <3>3, <3>4
    <3> QED
      BY <2>3, <3>1, <3>2, <3>5 DEF InTurns
  <2> QED
    BY <1>4, <1>5, <2>3, <2>5, <2>6 DEF SenderInv
<1> QED
  BY <1>6, <1>7, <1>8

(* The end of a turn of the sender, whatever it has sent before it is      *)
(* ready or waits for another answer.                                      *)
LEMMA TurnEnds ==
  ASSUME SenderInv, toSender # <<>>, s_pc \in {"model", "model_ack", "answer"},
         UNCHANGED <<variant, sender, pc, header, got, whole, received, starts, items>>,
         NEW ps, Casio!SenderTakes(ps), ps = <<>> \/ \E b \in Casio!Packets : ps = <<b>>,
         Regular' => Regular
  PROVE  /\ late' = late /\ toReceiver' \in Seq(Casio!Packets) /\ toSender' \in Seq(Casio!Packets)
         /\ Regular =>
              /\ Len(toReceiver) = 0 /\ Len(toSender) = 1 /\ Len(toSender') = 0 /\ Head(toSender) = toSender[1]
              /\ ps = <<>> => Len(toReceiver') = 0
              /\ \A b \in Casio!Packets :
                   ps = <<b>> => Len(toReceiver') = 0 \/ (Len(toReceiver') = 1 /\ toReceiver'[1] = b)
<1>1. SenderTypes /\ toReceiver \in Seq(Casio!Packets)
  BY DEF SenderInv, SenderTypes
<1>2. /\ late' = late /\ Casio!ToReceiver(ps) /\ toSender' \in Seq(Casio!Packets) /\ Head(toSender) = toSender[1]
      /\ Len(toReceiver) + Len(toSender) <= 1 => Len(toReceiver) = 0 /\ Len(toSender') = 0 /\ Len(toSender) = 1
  BY <1>1, SenderTakesOne
<1>3. toReceiver' \in Seq(Casio!Packets)
  BY <1>1, <1>2, SendingIs, SendingNothing
<1>4. Regular => Len(toReceiver) = 0 /\ Len(toSender') = 0 /\ Len(toSender) = 1
  BY <1>2 DEF SenderInv, InTurns
<1>5. ps = <<>> => toReceiver' = toReceiver
  BY <1>1, <1>2, SendingNothing
<1>6. \A b \in Casio!Packets :
        Len(toReceiver) = 0 /\ ps = <<b>> => Len(toReceiver') = 0 \/ (Len(toReceiver') = 1 /\ toReceiver'[1] = b)
  BY <1>1, <1>2, SendingOne
<1> QED
  BY <1>2, <1>3, <1>4, <1>5, <1>6

(* What a step of the sender must keep, when it sends no start.            *)
LEMMA SenderStepKeepsInv ==
  ASSUME SenderInv, UNCHANGED <<variant, sender, starts>>, late' = late,
         toReceiver' \in Seq(Casio!Packets), toSender' \in Seq(Casio!Packets), last' \in Casio!Packets,
         s_parts' \in 0 .. last'.part, items' \in 0 .. MaxItems, s_pc \notin {"off"}, s_pc' \in Casio!SenderPlaces,
         sender = "library" => accepted' = accepted /\ s_parts' = 0 /\ s_pc' \notin {"next", "answer"},
         sender = "calculator" => s_pc' # "open",
         Regular => InTurns' /\ Casio!Accepted'
  PROVE  SenderInv'
<1>1. SenderTypes
  BY DEF SenderInv
<1>2. SenderTypes'
  BY <1>1 DEF SenderTypes
<1>3. Regular' => Regular
  BY DEF Regular, Casio!OneAtATime
<1> QED
  BY <1>2, <1>3 DEF SenderInv

LEMMA SenderModelKeepsInv == ASSUME SenderInv, Casio!SenderModel PROVE SenderInv'
<1>1. /\ UNCHANGED <<variant, sender, pc, header, got, whole, received, last, s_parts, starts, items, accepted>>
      /\ s_pc = "model" /\ toSender # <<>>
  BY ReceiverAlone DEF Casio!SenderModel
<1>2. SenderTypes
  BY DEF SenderInv
<1>3. Casio!Byte("ack") \in Casio!Packets
  BY CasioPackets DEF Casio!Types
<1>4. PICK ps \in {<<Casio!Byte("ack")>>, <<>>} :
        Casio!SenderTakes(ps) /\ IF ps = <<>> THEN s_pc' = "ended" ELSE s_pc' = "model_ack"
  <2>1. CASE Head(toSender).kind = "mdl"
    BY <1>1, <2>1 DEF Casio!SenderModel
  <2>2. CASE Head(toSender).kind # "mdl"
    BY <1>1, <2>2 DEF Casio!SenderModel
  <2> QED
    BY <2>1, <2>2
<1>5. /\ late' = late /\ toReceiver' \in Seq(Casio!Packets) /\ toSender' \in Seq(Casio!Packets)
      /\ Regular =>
           /\ Len(toSender') = 0
           /\ ps = <<>> => Len(toReceiver') = 0
           /\ \A b \in Casio!Packets : ps = <<b>> => Len(toReceiver') = 0 \/ Len(toReceiver') = 1
  <2>1. ps = <<>> \/ \E b \in Casio!Packets : ps = <<b>>
    BY <1>3, <1>4
  <2>2. late' = late
    BY <1>4 DEF Casio!SenderTakes, Casio!faults
  <2>3. Regular' => Regular
    BY <1>1, <2>2 DEF Regular, Casio!OneAtATime
  <2> QED
    BY <1>1, <1>4, <2>1, <2>3, TurnEnds
<1>6. Regular => InTurns' /\ Casio!Accepted'
  <2> SUFFICES ASSUME Regular PROVE InTurns' /\ Casio!Accepted'
    OBVIOUS
  <2>1. Casio!Accepted'
    BY <1>1 DEF SenderInv, Casio!Accepted
  <2>2. CASE ps = <<>>
    <3>1. s_pc' = "ended" /\ Len(toReceiver') = 0
      BY <1>4, <1>5, <2>2
    <3> QED
      BY <2>1, <3>1 DEF InTurns
  <2>3. CASE ps # <<>>
    <3>1. Len(toSender') = 0 /\ (Len(toReceiver') = 0 \/ Len(toReceiver') = 1)
      BY <1>3, <1>4, <1>5, <2>3
    <3>2. Len(toReceiver') + Len(toSender') <= 1
      <4> DEFINE x == Len(toReceiver')
                 y == Len(toSender')
      <4>1. y = 0 /\ (x = 0 \/ x = 1)
        BY <3>1
      <4> HIDE DEF x, y
      <4>2. x + y <= 1
        BY <4>1
      <4> QED
        BY <4>2 DEF x, y
    <3>3. s_pc' = "model_ack"
      BY <1>4, <2>3
    <3> QED
      BY <2>1, <3>2, <3>3 DEF InTurns
  <2> QED
    BY <2>1, <2>2, <2>3
<1>7. s_pc' \in {"ended", "model_ack"}
  BY <1>4
<1> QED
  BY <1>1, <1>2, <1>5, <1>6, <1>7, SenderStepKeepsInv DEF SenderTypes, Casio!SenderPlaces

LEMMA SenderModelAcknowledgedKeepsInv == ASSUME SenderInv, Casio!SenderModelAcknowledged PROVE SenderInv'
<1>1. /\ UNCHANGED <<variant, sender, pc, header, got, whole, received, last, s_parts, starts, items, accepted>>
      /\ s_pc = "model_ack" /\ toSender # <<>> /\ Casio!SenderTakes(<<>>)
  BY ReceiverAlone DEF Casio!SenderModelAcknowledged
<1>2. SenderTypes
  BY DEF SenderInv
<1>3. s_pc' \in {"ended", "open", "next"} /\ (s_pc' = "open" => sender = "library") /\ (s_pc' = "next" => sender # "library")
  BY DEF Casio!SenderModelAcknowledged, Casio!Ready
<1>4. /\ late' = late /\ toReceiver' \in Seq(Casio!Packets) /\ toSender' \in Seq(Casio!Packets)
      /\ Regular => Len(toSender') = 0 /\ Len(toReceiver') = 0
  <2>1. late' = late
    BY <1>1 DEF Casio!SenderTakes, Casio!faults
  <2>2. Regular' => Regular
    BY <1>1, <2>1 DEF Regular, Casio!OneAtATime
  <2> QED
    BY <1>1, <2>2, TurnEnds
<1>5. Regular => InTurns' /\ Casio!Accepted'
  BY <1>1, <1>3, <1>4 DEF SenderInv, InTurns, Casio!Accepted
<1> QED
  BY <1>1, <1>2, <1>3, <1>4, <1>5, SenderStepKeepsInv DEF SenderTypes, Casio!SenderPlaces

LEMMA CloseSenderKeepsInv == ASSUME SenderInv, Casio!CloseSender PROVE SenderInv'
<1>1. /\ UNCHANGED <<variant, sender, s_parts, starts, items, accepted, toSender, late>>
      /\ s_pc = "open" /\ s_pc' = "ended" /\ last' = Casio!Header("end", 0, 0) /\ Casio!ToReceiver(<<last'>>)
  BY ReceiverAlone DEF Casio!CloseSender, Casio!SenderSends, Casio!faults
<1>2. SenderTypes
  BY DEF SenderInv
<1>3. sender # "calculator" /\ ~Regular
  BY <1>1, <1>2 DEF SenderTypes, Regular
<1>4. last' \in Casio!Packets
  BY <1>1, CasioPackets, AttemptsAssumption, BoundsAssumption DEF Casio!Kinds
<1>5. toReceiver' \in Seq(Casio!Packets)
  BY <1>1, <1>2, <1>4, SendingIs DEF SenderTypes
<1>6. s_parts' = 0 /\ sender = "library" /\ 0 \in 0 .. last'.part /\ s_pc' \in Casio!SenderPlaces
  BY <1>1, <1>2, <1>3, <1>4 DEF SenderTypes, Casio!Packets, Casio!Header, Casio!SenderPlaces
<1> QED
  BY <1>1, <1>2, <1>3, <1>4, <1>5, <1>6, SenderStepKeepsInv DEF SenderTypes, Casio!SenderPlaces

LEMMA SendHeaderKeepsInv == ASSUME SenderInv, Casio!SendHeader PROVE SenderInv'
<1>1. /\ UNCHANGED <<variant, sender, pc, header, got, whole, received, starts, accepted, toSender, late>>
      /\ s_pc = "next" /\ items < MaxItems /\ items' = items + 1 /\ Casio!ToReceiver(<<last'>>)
      /\ s_pc' \in {"ended", "answer"}
  BY ReceiverAlone DEF Casio!SendHeader, Casio!SenderSends, Casio!faults
<1>2. SenderTypes /\ sender = "calculator"
  BY <1>1 DEF SenderInv, SenderTypes
<1>3. PICK k \in Casio!Kinds, n \in 0 .. MaxParts : last' = Casio!Header(k, items', n) /\ s_parts' = n
  <2>1. PICK k \in Casio!Sendable : \E n \in IF k \in {"data", "final", "screen"} THEN 0 .. MaxParts ELSE {0} :
                                       last' = Casio!Header(k, items', n) /\ s_parts' = n
    BY DEF Casio!SendHeader
  <2>2. 0 \in 0 .. MaxParts
    BY AttemptsAssumption
  <2>3. variant \in {"CAS40", "CAS50", "CAS100"} => Casio!Sendable \subseteq Casio!Kinds
    BY DEF Casio!Sendable, Casio!Kinds, Casio!Cas40Kinds, Casio!Cas50Kinds, Casio!Cas100Kinds
  <2> QED
    BY <1>2, <2>1, <2>2, <2>3 DEF SenderTypes
<1>4. items' \in 0 .. MaxItems
  BY <1>1, <1>2, BoundsAssumption DEF SenderTypes
<1>5. last' \in Casio!Packets /\ last'.type = "header" /\ last'.part = n
  BY <1>3, <1>4, CasioPackets
<1>6. toReceiver' \in Seq(Casio!Packets)
  BY <1>1, <1>2, <1>5, SendingIs DEF SenderTypes
<1>7. Regular => InTurns' /\ Casio!Accepted'
  <2> SUFFICES ASSUME Regular PROVE InTurns' /\ Casio!Accepted'
    OBVIOUS
  <2>1. Casio!Accepted'
    BY <1>1 DEF SenderInv, Casio!Accepted
  <2>2. Len(toReceiver) = 0 /\ Len(toSender') = 0
    BY <1>1 DEF SenderInv, InTurns
  <2>3. Len(toReceiver') = 0 \/ (Len(toReceiver') = 1 /\ toReceiver'[1] = last')
    BY <1>1, <1>2, <1>5, <2>2, SendingOne DEF SenderTypes
  <2>4. Len(toReceiver') + Len(toSender') <= 1
    <3> DEFINE x == Len(toReceiver')
               y == Len(toSender')
    <3>1. y = 0 /\ (x = 0 \/ x = 1)
      BY <2>2, <2>3
    <3> HIDE DEF x, y
    <3>2. x + y <= 1
      BY <3>1
    <3> QED
      BY <3>2 DEF x, y
  <2>5. \A i \in 1 .. Len(toReceiver') : toReceiver'[i].type # "start"
    BY <1>5, <2>3
  <2>6. Len(toReceiver') = 1 => Awaited(toReceiver[1])'
    BY <1>3, <1>5, <2>3 DEF Awaited
  <2>7. s_pc' = "ended" => InTurns'
    BY <2>5 DEF InTurns
  <2>8. s_pc' = "answer" => InTurns'
    BY <2>2, <2>4, <2>6 DEF InTurns
  <2> QED
    BY <1>1, <2>1, <2>7, <2>8
<1>8. s_parts' \in 0 .. last'.part
  BY <1>3, <1>5, AttemptsAssumption
<1> QED
  BY <1>1, <1>2, <1>4, <1>5, <1>6, <1>7, <1>8, SenderStepKeepsInv DEF SenderTypes, Casio!SenderPlaces

LEMMA SenderAnsweredKeepsInv == ASSUME SenderInv, Casio!SenderAnswered PROVE SenderInv'
<1>1. /\ UNCHANGED <<variant, sender, pc, header, got, whole, received, starts, items, last>>
      /\ s_pc = "answer" /\ toSender # <<>>
  BY ReceiverAlone DEF Casio!SenderAnswered
<1>2. SenderTypes /\ sender = "calculator"
  BY <1>1 DEF SenderInv, SenderTypes
<1>3. last \in Casio!Packets /\ last.part \in 0 .. MaxParts /\ last.item \in 0 .. MaxItems /\ s_parts \in 0 .. last.part
  BY <1>2 DEF SenderTypes, Casio!Packets
<1>4. last.part \in Nat /\ last.part <= MaxParts /\ s_parts \in Nat /\ s_parts <= last.part /\ MaxParts \in Nat
  BY <1>3, AttemptsAssumption
<1>5. ASSUME NEW ps, Casio!SenderTakes(ps), ps = <<>> \/ \E b \in Casio!Packets : ps = <<b>>
      PROVE  /\ late' = late /\ toReceiver' \in Seq(Casio!Packets) /\ toSender' \in Seq(Casio!Packets)
             /\ Regular =>
                  /\ Len(toSender) = 1 /\ Len(toSender') = 0 /\ Head(toSender) = toSender[1]
                  /\ ps = <<>> => Len(toReceiver') = 0
                  /\ \A b \in Casio!Packets :
                       ps = <<b>> => Len(toReceiver') = 0 \/ (Len(toReceiver') = 1 /\ toReceiver'[1] = b)
  <2>1. late' = late
    BY <1>5 DEF Casio!SenderTakes, Casio!faults
  <2>2. Regular' => Regular
    BY <1>1, <2>1 DEF Regular, Casio!OneAtATime
  <2> QED
    BY <1>1, <1>5, <2>2, TurnEnds
<1>6. CASE Head(toSender).type = "ack" /\ s_parts > 0
  <2> DEFINE b == Casio!Part(last.item, last.part - s_parts + 1)
  <2>1. Casio!SenderTakes(<<b>>) /\ s_parts' = s_parts - 1 /\ s_pc' = s_pc /\ accepted' = accepted
    BY <1>6 DEF Casio!SenderAnswered
  <2>2. last.part - s_parts + 1 \in 0 .. MaxParts /\ s_parts' \in 0 .. last'.part /\ s_parts' < last'.part
        /\ last'.part - s_parts' = last.part - s_parts + 1 /\ last'.part - s_parts' - 1 = last.part - s_parts
    BY <1>1, <1>4, <1>6, <2>1
  <2>3. b \in Casio!Packets /\ b.type = "part" /\ b.item = last.item /\ b.part = last.part - s_parts + 1
    BY <1>3, <2>2, CasioPackets
  <2> HIDE DEF b
  <2>4. /\ late' = late /\ toReceiver' \in Seq(Casio!Packets) /\ toSender' \in Seq(Casio!Packets)
        /\ Regular => /\ Len(toSender) = 1 /\ Len(toSender') = 0 /\ Head(toSender) = toSender[1]
                      /\ Len(toReceiver') = 0 \/ (Len(toReceiver') = 1 /\ toReceiver'[1] = b)
    BY <1>5, <2>1, <2>3
  <2>5. Regular => InTurns' /\ Casio!Accepted'
    <3> SUFFICES ASSUME Regular PROVE InTurns' /\ Casio!Accepted'
      OBVIOUS
    <3>1. Casio!Accepted'
      BY <1>1, <2>1 DEF SenderInv, Casio!Accepted
    <3>2. InPart(last.part - s_parts)
      BY <1>1, <1>6, <2>4 DEF SenderInv, InTurns, Acknowledged
    <3>3. InPart(last.part - s_parts - 1)'
      BY <1>1, <2>2, <3>2 DEF InPart
    <3>4. Len(toReceiver') = 1 => Awaited(toReceiver[1])'
      BY <1>1, <2>2, <2>3, <2>4, <3>3 DEF Awaited
    <3>5. Len(toReceiver') + Len(toSender') <= 1
      <4> DEFINE x == Len(toReceiver')
                 y == Len(toSender')
      <4>1. y = 0 /\ (x = 0 \/ x = 1)
        BY <2>4
      <4> HIDE DEF x, y
      <4>2. x + y <= 1
        BY <4>1
      <4> QED
        BY <4>2 DEF x, y
    <3> QED
      BY <1>1, <2>1, <2>4, <3>1, <3>4, <3>5 DEF InTurns
  <2> QED
    BY <1>1, <1>2, <2>1, <2>2, <2>4, <2>5, SenderStepKeepsInv DEF SenderTypes, Casio!SenderPlaces
<1>7. CASE Head(toSender).type = "ack" /\ s_parts = 0
  <2>1. /\ Casio!SenderTakes(<<>>) /\ s_parts' = s_parts /\ s_pc' \in {"ended", "next"}
        /\ accepted' = IF last.part > 0 THEN accepted \cup {last.item} ELSE accepted
    BY <1>4, <1>7 DEF Casio!SenderAnswered
  <2>2. /\ late' = late /\ toReceiver' \in Seq(Casio!Packets) /\ toSender' \in Seq(Casio!Packets)
        /\ Regular => /\ Len(toSender) = 1 /\ Len(toSender') = 0 /\ Head(toSender) = toSender[1]
                      /\ Len(toReceiver') = 0
    BY <1>5, <2>1
  <2>3. Regular => InTurns' /\ Casio!Accepted'
    <3> SUFFICES ASSUME Regular PROVE InTurns' /\ Casio!Accepted'
      OBVIOUS
    <3>1. last.part > 0 => last.item \in received
      BY <1>1, <1>7, <2>2 DEF SenderInv, InTurns, Acknowledged
    <3>2. Casio!Accepted'
      BY <1>1, <2>1, <3>1 DEF SenderInv, Casio!Accepted
    <3> QED
      BY <2>1, <2>2, <3>2 DEF InTurns
  <2> QED
    BY <1>1, <1>2, <1>3, <2>1, <2>2, <2>3, SenderStepKeepsInv DEF SenderTypes, Casio!SenderPlaces
<1>8. CASE Head(toSender).type # "ack"
  <2>1. Casio!SenderTakes(<<>>) /\ s_parts' = s_parts /\ s_pc' = "ended" /\ accepted' = accepted
    BY <1>8 DEF Casio!SenderAnswered
  <2>2. /\ late' = late /\ toReceiver' \in Seq(Casio!Packets) /\ toSender' \in Seq(Casio!Packets)
        /\ Regular => Len(toReceiver') = 0
    BY <1>5, <2>1
  <2>3. Regular => InTurns' /\ Casio!Accepted'
    BY <1>1, <2>1, <2>2 DEF SenderInv, InTurns, Casio!Accepted
  <2> QED
    BY <1>1, <1>2, <1>3, <2>1, <2>2, <2>3, SenderStepKeepsInv DEF SenderTypes, Casio!SenderPlaces
<1> QED
  BY <1>4, <1>6, <1>7, <1>8

(* A receiver whatever the variant: types only.                            *)
LEMMA ReceiverKeepsTypes == ASSUME SenderTypes, Casio!Receiver PROVE SenderTypes' /\ (Regular' => Regular)
<1> USE DEF Casio!fixed, Casio!data, Casio!session, Casio!senderVars, Casio!wires, Casio!faults
<1>1. UNCHANGED <<variant, sender, s_pc, last, s_parts, starts, items, accepted>>
  BY DEF Casio!Receiver, Casio!Initiated, Casio!AnswerStart, Casio!ReceiveOther, Casio!ReceiveTimesOut,
         Casio!ReceiveBadHeader, Casio!HeaderUnknown, Casio!HeaderTooLarge, Casio!HeaderEnd, Casio!HeaderAl,
         Casio!HeaderAlEnd, Casio!HeaderEmpty, Casio!HeaderData, Casio!ReceivePart, Casio!HeaderForPart,
         Casio!Decode, Casio!ScreenReceived, Casio!ReceiveModel, Casio!NoModel, Casio!ModelAcknowledged
<1>2. toReceiver \in Seq(Casio!Packets) /\ toSender \in Seq(Casio!Packets) /\ late \in Nat
  BY DEF SenderTypes
<1>3. ASSUME toReceiver' \in Seq(Casio!Packets), toSender' \in Seq(Casio!Packets), late' \in {late, late + 1}
      PROVE  SenderTypes' /\ (Regular' => Regular)
  BY <1>1, <1>2, <1>3 DEF SenderTypes, Regular, Casio!OneAtATime
<1>4. ASSUME UNCHANGED <<toReceiver, toSender>>, late' \in {late, late + 1}
      PROVE  SenderTypes' /\ (Regular' => Regular)
  BY <1>2, <1>3, <1>4
<1>5. ASSUME toReceiver # <<>>, NEW ps \in Seq(Casio!Packets), Casio!TakeAndSend(ps)
      PROVE  SenderTypes' /\ (Regular' => Regular)
  <2>1. toReceiver' = Tail(toReceiver) /\ late' = late /\ toSender' = IF s_pc = "ended" THEN toSender ELSE toSender \o ps
    BY <1>5 DEF Casio!TakeAndSend
  <2>2. Tail(toReceiver) \in Seq(Casio!Packets)
    BY <1>2, <1>5, OneLess
  <2>3. toSender \o ps \in Seq(Casio!Packets)
    BY <1>2, <1>5
  <2> QED
    BY <1>2, <1>3, <2>1, <2>2, <2>3
<1>6. \A t \in Casio!Types : <<Casio!Byte(t)>> \in Seq(Casio!Packets)
  BY CasioPackets
<1>7. {"ack", "established", "invalid", "corrupted"} \subseteq Casio!Types
  BY DEF Casio!Types
<1>8. <<>> \in Seq(Casio!Packets) /\ \A b \in Casio!Packets : <<b>> \in Seq(Casio!Packets)
  OBVIOUS
<1>9. Casio!HeaderAcks \in Seq(Casio!Packets)
  BY <1>6, <1>7, <1>8 DEF Casio!HeaderAcks
<1>10. ASSUME NEW t \in {"ack", "established", "invalid", "corrupted"}
       PROVE  Casio!HeaderAcks \o <<Casio!Byte(t)>> \in Seq(Casio!Packets) /\ <<Casio!Byte(t)>> \in Seq(Casio!Packets)
  <2>1. <<Casio!Byte(t)>> \in Seq(Casio!Packets)
    BY <1>6, <1>7
  <2> QED
    BY <1>9, <2>1
<1>11. toReceiver # <<>> /\ Casio!Take => SenderTypes' /\ (Regular' => Regular)
  BY <1>5, <1>8 DEF Casio!Take
<1>12. ASSUME NEW t \in {"ack", "established", "invalid", "corrupted"}, toReceiver # <<>>,
              Casio!TakeAndSend(<<Casio!Byte(t)>>) \/ Casio!TakeAndSend(Casio!HeaderAcks \o <<Casio!Byte(t)>>)
       PROVE  SenderTypes' /\ (Regular' => Regular)
  BY <1>5, <1>10, <1>12
<1>13. CASE Casio!Initiated
  BY <1>11, <1>12, <1>13 DEF Casio!Initiated
<1>14. CASE Casio!AnswerStart
  BY <1>12, <1>14 DEF Casio!AnswerStart, Casio!Receiving
<1>15. CASE Casio!ReceiveOther \/ Casio!ReceiveBadHeader \/ Casio!NoModel
  BY <1>11, <1>15 DEF Casio!ReceiveOther, Casio!ReceiveBadHeader, Casio!NoModel, Casio!Receiving
<1>16. CASE Casio!ReceiveTimesOut
  BY <1>4, <1>16 DEF Casio!ReceiveTimesOut, Casio!TimeRunsOut
<1>17. CASE Casio!HeaderUnknown
  BY <1>11, <1>17 DEF Casio!HeaderUnknown, Casio!GoodHeader, Casio!Receiving
<1>18. CASE Casio!HeaderTooLarge
  BY <1>12, <1>18 DEF Casio!HeaderTooLarge, Casio!GoodHeader, Casio!Receiving
<1>19. CASE Casio!HeaderEnd \/ Casio!HeaderAl \/ Casio!HeaderAlEnd \/ Casio!HeaderEmpty
  <2>1. toReceiver # <<>> /\ Casio!TakeAndSend(Casio!HeaderAcks)
    BY <1>19 DEF Casio!HeaderEnd, Casio!HeaderAl, Casio!HeaderAlEnd, Casio!HeaderEmpty, Casio!GoodHeader, Casio!Receiving
  <2> QED
    BY <1>5, <1>9, <2>1
<1>20. CASE Casio!HeaderData
  BY <1>12, <1>20 DEF Casio!HeaderData, Casio!GoodHeader, Casio!Receiving
<1>21. CASE Casio!ReceivePart
  BY <1>12, <1>21 DEF Casio!ReceivePart, Casio!PartAnswer, Casio!Receiving
<1>22. CASE Casio!HeaderForPart
  BY <1>11, <1>12, <1>22 DEF Casio!HeaderForPart, Casio!Receiving
<1>23. CASE Casio!Decode \/ Casio!ScreenReceived
  BY <1>4, <1>23 DEF Casio!Decode, Casio!ScreenReceived
<1>24. CASE Casio!ReceiveModel
  <2> DEFINE b == [Head(toReceiver) EXCEPT !.intact = TRUE]
  <2>1. toReceiver # <<>> /\ Casio!TakeAndSend(<<b>>)
    BY <1>24 DEF Casio!ReceiveModel, Casio!Receiving
  <2>2. b \in Casio!Packets
    BY <1>2, <2>1, OneLess DEF Casio!Packets
  <2> HIDE DEF b
  <2> QED
    BY <1>5, <1>8, <2>1, <2>2
<1>25. CASE Casio!ModelAcknowledged
  BY <1>12, <1>25 DEF Casio!ModelAcknowledged, Casio!Receiving
<1> QED
  BY <1>13, <1>14, <1>15, <1>16, <1>17, <1>18, <1>19, <1>20, <1>21, <1>22, <1>23, <1>24, <1>25 DEF Casio!Receiver

LEMMA FirstReplaced ==
  ASSUME NEW S, NEW s \in Seq(S), s # <<>>, NEW v \in S, NEW t, t = [s EXCEPT ![1] = v]
  PROVE  t \in Seq(S) /\ Len(t) = Len(s) /\ t[1] = v /\ \A i \in 1 .. Len(s) : i # 1 => t[i] = s[i]
OBVIOUS

(* Packets that are lost or damaged.                                       *)
LEMMA FaultKeepsInv ==
  ASSUME SenderInv, UNCHANGED <<variant, sender, late, s_pc, last, s_parts, starts, items, accepted, received>>,
         UNCHANGED <<pc, header, got, whole>>,
         toReceiver' \in Seq(Casio!Packets), toSender' \in Seq(Casio!Packets), Regular => InTurns'
  PROVE  SenderInv'
BY DEF SenderInv, SenderTypes, Regular, Casio!OneAtATime, Casio!Accepted

LEMMA LoseKeepsInv == ASSUME SenderInv, Casio!Lose PROVE SenderInv'
<1> DEFINE n == Len(toReceiver)
           k == Len(toSender)
<1>1. /\ UNCHANGED <<variant, sender, late, s_pc, last, s_parts, starts, items, accepted, received>>
      /\ UNCHANGED <<pc, header, got, whole>>
  BY DEF Casio!Lose, Casio!fixed, Casio!receiverVars, Casio!data, Casio!senderVars
<1>2. toReceiver \in Seq(Casio!Packets) /\ toSender \in Seq(Casio!Packets) /\ n \in Nat /\ k \in Nat
  BY DEF SenderInv, SenderTypes
<1>3. CASE toReceiver # <<>> /\ toReceiver' = Tail(toReceiver) /\ UNCHANGED toSender
  <2>1. /\ toReceiver' \in Seq(Casio!Packets) /\ n >= 1 /\ Len(toReceiver') = n - 1
        /\ \A i \in 1 .. n - 1 : toReceiver'[i] = toReceiver[i + 1]
    BY <1>2, <1>3, OneLess
  <2>2. Regular => InTurns'
    <3> SUFFICES ASSUME Regular PROVE InTurns'
      OBVIOUS
    <3>1. InTurns
      BY DEF SenderInv
    <3>2. s_pc' # "off" /\ s_pc' # "next"
      BY <1>1, <1>2, <2>1, <3>1 DEF InTurns
    <3>3. s_pc' = "ended" /\ late' = 0 => \A i \in 1 .. Len(toReceiver') : toReceiver'[i].type # "start"
      <4> SUFFICES ASSUME s_pc = "ended", late = 0 PROVE \A i \in 1 .. Len(toReceiver') : toReceiver'[i].type # "start"
        BY <1>1
      <4>1. \A i \in 1 .. n : toReceiver[i].type # "start"
        BY <3>1 DEF InTurns
      <4> HIDE DEF n
      <4> QED
        BY <1>2, <2>1, <4>1
    <3>4. s_pc' = "start" =>
            /\ \A i \in 1 .. Len(toReceiver') - 1 : toReceiver'[i].type # "start"
            /\ \A i \in 1 .. Len(toSender') : toSender'[i].type # "established"
      <4> SUFFICES ASSUME s_pc = "start"
                   PROVE  /\ \A i \in 1 .. Len(toReceiver') - 1 : toReceiver'[i].type # "start"
                          /\ \A i \in 1 .. Len(toSender') : toSender'[i].type # "established"
        BY <1>1
      <4>1. /\ \A i \in 1 .. n - 1 : toReceiver[i].type # "start"
            /\ \A i \in 1 .. k : toSender[i].type = "established" => n = 0
        BY <3>1 DEF InTurns
      <4>2. \A i \in 1 .. Len(toSender') : toSender'[i].type # "established"
        BY <1>3, <2>1, <4>1
      <4>4. n \in Nat /\ \A i \in 1 .. n - 1 : toReceiver'[i] = toReceiver[i + 1]
        BY <1>2, <2>1
      <4> HIDE DEF n
      <4>5. \A i \in 1 .. n - 2 : toReceiver[i + 1].type # "start"
        BY <4>1, <4>4
      <4>3. \A i \in 1 .. (n - 1) - 1 : toReceiver'[i].type # "start"
        BY <4>4, <4>5
      <4> QED
        BY <2>1, <4>2, <4>3
    <3>5. s_pc' \in {"model", "model_ack", "answer"} => Len(toReceiver') = 0 /\ Len(toSender') = 0
      <4>1. s_pc \in {"model", "model_ack", "answer"} => n + k <= 1
        BY <3>1 DEF InTurns
      <4> HIDE DEF n, k
      <4>2. s_pc \in {"model", "model_ack", "answer"} => n - 1 = 0 /\ k = 0
        BY <1>2, <2>1, <4>1
      <4> QED
        BY <1>1, <1>3, <2>1, <4>2 DEF k
    <3> QED
      BY <3>2, <3>3, <3>4, <3>5 DEF InTurns
  <2> QED
    BY <1>1, <1>2, <1>3, <2>1, <2>2, FaultKeepsInv
<1>4. CASE toSender # <<>> /\ toSender' = Tail(toSender) /\ UNCHANGED toReceiver
  <2>1. /\ toSender' \in Seq(Casio!Packets) /\ k >= 1 /\ Len(toSender') = k - 1
        /\ \A i \in 1 .. k - 1 : toSender'[i] = toSender[i + 1]
    BY <1>2, <1>4, OneLess
  <2>2. Regular => InTurns'
    <3> SUFFICES ASSUME Regular PROVE InTurns'
      OBVIOUS
    <3>1. InTurns
      BY DEF SenderInv
    <3>6. (s_pc = "next" => k = 0) /\ (s_pc = "off" => n = 0)
      BY <3>1 DEF InTurns
    <3>2. s_pc' # "next" /\ (s_pc' = "off" => Len(toReceiver') = 0)
      BY <1>1, <1>4, <2>1, <3>6
    <3>3. s_pc' = "ended" /\ late' = 0 => \A i \in 1 .. Len(toReceiver') : toReceiver'[i].type # "start"
      BY <1>1, <1>4, <3>1 DEF InTurns
    <3>4. s_pc' = "start" =>
            /\ \A i \in 1 .. Len(toReceiver') - 1 : toReceiver'[i].type # "start"
            /\ \A i \in 1 .. Len(toSender') :
                 toSender'[i].type = "established" => i = Len(toSender') /\ Len(toReceiver') = 0
      <4> SUFFICES ASSUME s_pc = "start"
                   PROVE  /\ \A i \in 1 .. Len(toReceiver') - 1 : toReceiver'[i].type # "start"
                          /\ \A i \in 1 .. Len(toSender') :
                               toSender'[i].type = "established" => i = Len(toSender') /\ Len(toReceiver') = 0
        BY <1>1
      <4>1. /\ \A i \in 1 .. n - 1 : toReceiver[i].type # "start"
            /\ \A i \in 1 .. k : toSender[i].type = "established" => i = k /\ n = 0
        BY <3>1 DEF InTurns
      <4>2. \A i \in 1 .. Len(toReceiver') - 1 : toReceiver'[i].type # "start"
        BY <1>4, <4>1
      <4>3. \A i \in 1 .. k - 1 : toSender'[i].type = "established" => i = k - 1 /\ n = 0
        <5>1. k \in Nat /\ \A i \in 1 .. k - 1 : toSender'[i] = toSender[i + 1]
          BY <1>2, <2>1
        <5> HIDE DEF k, n
        <5>2. \A i \in 1 .. k - 1 : toSender[i + 1].type = "established" => i + 1 = k /\ n = 0
          BY <4>1, <5>1
        <5> QED
          BY <5>1, <5>2
      <4> QED
        BY <1>4, <2>1, <4>2, <4>3
    <3>5. s_pc' \in {"model", "model_ack", "answer"} => Len(toReceiver') = 0 /\ Len(toSender') = 0
      <4>1. s_pc \in {"model", "model_ack", "answer"} => n + k <= 1
        BY <3>1 DEF InTurns
      <4> HIDE DEF n, k
      <4>2. s_pc \in {"model", "model_ack", "answer"} => k - 1 = 0 /\ n = 0
        BY <1>2, <2>1, <4>1
      <4> QED
        BY <1>1, <1>4, <2>1, <4>2 DEF n
    <3> QED
      BY <3>2, <3>3, <3>4, <3>5 DEF InTurns
  <2> QED
    BY <1>1, <1>2, <1>4, <2>1, <2>2, FaultKeepsInv
<1> QED
  BY <1>3, <1>4 DEF Casio!Lose

LEMMA DamageKeepsInv == ASSUME SenderInv, Casio!Damage PROVE SenderInv'
<1>1. /\ UNCHANGED <<variant, sender, late, s_pc, last, s_parts, starts, items, accepted, received>>
      /\ UNCHANGED <<pc, header, got, whole, toSender>> /\ toReceiver # <<>>
      /\ toReceiver' = [toReceiver EXCEPT ![1].intact = FALSE]
  BY DEF Casio!Damage, Casio!fixed, Casio!receiverVars, Casio!data, Casio!senderVars
<1>2. toReceiver \in Seq(Casio!Packets) /\ toSender \in Seq(Casio!Packets)
  BY DEF SenderInv, SenderTypes
<1>3. [toReceiver[1] EXCEPT !.intact = FALSE] \in Casio!Packets
  BY <1>1, <1>2, OneLess DEF Casio!Packets
<1>4. /\ toReceiver' \in Seq(Casio!Packets) /\ Len(toReceiver') = Len(toReceiver)
      /\ \A i \in 1 .. Len(toReceiver) :
           /\ toReceiver'[i].type = toReceiver[i].type /\ toReceiver'[i].item = toReceiver[i].item
           /\ toReceiver'[i].part = toReceiver[i].part
  <2>1. toReceiver' = [toReceiver EXCEPT ![1] = [toReceiver[1] EXCEPT !.intact = FALSE]]
    BY <1>1
  <2> DEFINE v == [toReceiver[1] EXCEPT !.intact = FALSE]
  <2>2. /\ toReceiver' \in Seq(Casio!Packets) /\ Len(toReceiver') = Len(toReceiver) /\ toReceiver'[1] = v
        /\ \A i \in 1 .. Len(toReceiver) : i # 1 => toReceiver'[i] = toReceiver[i]
    <3> HIDE DEF v
    <3>1. v \in Casio!Packets /\ toReceiver' = [toReceiver EXCEPT ![1] = v]
      BY <1>3, <2>1 DEF v
    <3>2. toReceiver \in Seq(Casio!Packets) /\ toReceiver # <<>>
      BY <1>1, <1>2
    <3> QED
      BY <3>1, <3>2, FirstReplaced
  <2>3. ASSUME NEW i \in 1 .. Len(toReceiver)
        PROVE  /\ toReceiver'[i].type = toReceiver[i].type /\ toReceiver'[i].item = toReceiver[i].item
               /\ toReceiver'[i].part = toReceiver[i].part
    <3>1. toReceiver[i] \in Casio!Packets
      BY <1>2
    <3>2. CASE i = 1
      <4>1. toReceiver'[1] = [toReceiver[1] EXCEPT !.intact = FALSE]
        BY <2>2
      <4> QED
        BY <3>1, <3>2, <4>1 DEF Casio!Packets
    <3>3. CASE i # 1
      BY <2>2, <3>3
    <3> QED
      BY <3>2, <3>3
  <2> QED
    BY <2>2, <2>3
<1>5. Regular => InTurns'
  <2> SUFFICES ASSUME Regular PROVE InTurns'
    OBVIOUS
  <2>1. InTurns
    BY DEF SenderInv
  <2>2. \A k : InPart(k)' <=> InPart(k)
    BY <1>1 DEF InPart
  <2>3. Len(toReceiver) = 1 /\ Awaited(toReceiver[1]) => Awaited(toReceiver[1])'
    BY <1>1, <1>4, <2>2 DEF Awaited
  <2>4. Acknowledged => Acknowledged'
    BY <1>1, <2>2 DEF Acknowledged
  <2> QED
    BY <1>1, <1>4, <2>1, <2>3, <2>4 DEF InTurns
<1> QED
  BY <1>1, <1>2, <1>4, <1>5, FaultKeepsInv

(* Steps that leave the wires and the sender alone.                        *)
LEMMA AloneKeepsInv ==
  ASSUME SenderInv, UNCHANGED <<variant, sender, late, s_pc, last, s_parts, starts, items, accepted>>,
         UNCHANGED <<toReceiver, toSender>>, Aside
  PROVE  SenderInv'
<1>1. SenderTypes'
  BY DEF SenderInv, SenderTypes
<1>2. (\A m : Awaited(m) => Awaited(m)') /\ (Acknowledged => Acknowledged') /\ received' = received
  BY AsideKeeps DEF Aside
<1>3. InTurns => InTurns'
  BY <1>2 DEF InTurns
<1>4. Casio!Accepted => Casio!Accepted'
  BY <1>2 DEF Casio!Accepted
<1>5. Regular' => Regular
  BY DEF Regular, Casio!OneAtATime
<1> QED
  BY <1>1, <1>3, <1>4, <1>5 DEF SenderInv

LEMMA CasioStepKeepsInv == ASSUME SenderInv, Casio!Next PROVE SenderInv'
<1>1. CASE Casio!Receiver
  <2>1. SenderTypes' /\ (Regular' => Regular)
    BY <1>1, ReceiverKeepsTypes DEF SenderInv
  <2>2. Regular => SenderInv'
    BY <1>1, ReceiverKeepsInv
  <2> QED
    BY <2>1, <2>2 DEF SenderInv
<1>2. CASE Casio!Sender
  BY <1>2, SenderGivesUpKeepsInv, SenderEstablishedKeepsInv, SenderModelKeepsInv, SenderModelAcknowledgedKeepsInv,
     SenderAnsweredKeepsInv DEF Casio!Sender
<1>3. CASE Casio!OpenReceiver \/ Casio!ReceiveData \/ Casio!ReceiveScreen
  <2>1. /\ UNCHANGED <<variant, sender, late, s_pc, last, s_parts, starts, items, accepted>>
        /\ UNCHANGED <<toReceiver, toSender>> /\ received' = received
    BY <1>3 DEF Casio!OpenReceiver, Casio!ReceiveData, Casio!ReceiveScreen, Casio!fixed, Casio!wires, Casio!faults,
                Casio!data, Casio!senderVars
  <2>2. pc' # "part"
    BY <1>3 DEF Casio!OpenReceiver, Casio!ReceiveData, Casio!ReceiveScreen, Casio!Call, Casio!GoTo
  <2> QED
    BY <2>1, <2>2, AloneKeepsInv DEF Aside
<1>4. CASE Casio!SenderStarts \/ Casio!CloseSender \/ Casio!SendHeader
  BY <1>4, SenderStartsKeepsInv, CloseSenderKeepsInv, SendHeaderKeepsInv
<1>5. CASE Casio!Lose \/ Casio!Damage
  BY <1>5, LoseKeepsInv, DamageKeepsInv
<1> QED
  BY <1>1, <1>2, <1>3, <1>4, <1>5 DEF Casio!Next, Casio!Program

LEMMA CasioInitEstablishes == ASSUME Casio!Init PROVE SenderInv
<1>1. /\ variant \in {"CAS40", "CAS50", "CAS100"} /\ sender \in {"calculator", "library"} /\ s_pc = "off"
      /\ toReceiver = <<>> /\ toSender = <<>> /\ late = 0 /\ last = Casio!Header("mdl", 0, 0) /\ s_parts = 0
      /\ starts = 0 /\ items = 0 /\ accepted = {}
  BY VariantsAssumption DEF Casio!Init
<1>2. last \in Casio!Packets /\ last.part = 0
  BY <1>1, CasioPackets, AttemptsAssumption, BoundsAssumption DEF Casio!Kinds
<1>3. 0 \in 0 .. last.part /\ 0 \in 0 .. MaxItems
  BY <1>2, BoundsAssumption
<1>4. <<>> \in Seq(Casio!Packets) /\ Len(<<>>) = 0
  OBVIOUS
<1>5. SenderTypes
  BY <1>1, <1>2, <1>3, <1>4 DEF SenderTypes, Casio!SenderPlaces
<1>6. InTurns /\ Casio!Accepted
  BY <1>1, <1>4 DEF InTurns, Casio!Accepted
<1> QED
  BY <1>5, <1>6 DEF SenderInv

LEMMA CasioStutterPreserves == ASSUME use = "casiolink", SenderInv, UNCHANGED vars PROVE SenderInv'
<1>1. /\ UNCHANGED <<variant, sender, late, s_pc, last, s_parts, starts, items, accepted>>
      /\ UNCHANGED <<toReceiver, toSender>> /\ Aside
  BY DEF vars, sharedVars, casioVars, Aside
<1> QED
  BY <1>1, AloneKeepsInv

LEMMA SenderInvariance == Spec => [](use = "casiolink" => SenderInv)
<1>1. Init => (use = "casiolink" => SenderInv)
  BY CasioInitEstablishes DEF Init
<1>2. (use = "casiolink" => SenderInv) /\ [Next]_vars => (use = "casiolink" => SenderInv)'
  <2> SUFFICES ASSUME use = "casiolink" => SenderInv, [Next]_vars PROVE (use = "casiolink" => SenderInv)'
    OBVIOUS
  <2>1. CASE CasioOnly /\ Casio!Next
    BY <2>1, CasioStepKeepsInv DEF CasioOnly
  <2>2. CASE use # "casiolink" /\ use' = use
    BY <2>2
  <2>3. CASE UNCHANGED vars
    BY <2>3, CasioStutterPreserves DEF vars
  <2>4. OpeningOnly \/ SettingsOnly \/ DetectionOnly \/ ClassPadOnly => use # "casiolink" /\ use' = use
    BY DEF OpeningOnly, SettingsOnly, DetectionOnly, ClassPadOnly, SystemAlone, SessionsAlone
  <2> QED
    BY <2>1, <2>2, <2>3, <2>4 DEF Next
<1> QED
  BY <1>1, <1>2, PTL DEF Spec

(* What a CASIOLINK sender takes for received was: whatever is lost,       *)
(* damaged or late, the acknowledgement of one part never passes for that  *)
(* of another, with CAS50 and CAS100, and unless a sender that gave up     *)
(* early starts over: for casiolink/receive_raw_data.c:86-150.             *)
THEOREM PartsAreAcknowledged == Spec => []AcceptedIsReceived
<1>1. (use = "casiolink" => SenderInv) => AcceptedIsReceived
  BY DEF AcceptedIsReceived, Casio!AcceptedIsReceived, Casio!Accepted, SenderInv, SenderTypes, Regular
<1> QED
  BY <1>1, SenderInvariance, PTL

-----------------------------------------------------------------------------
(* How a CASIOLINK session is terminated.                                  *)

(* The kinds of the headers that end a session; the packets that may be on *)
(* their way to the receiver after a header of some kind, out of AL mode;  *)
(* and those that do not say a session is established.                     *)
Closing == {"end", "final", "screen"}

Fitting(k) ==
  {p \in Casio!Packets :
     p.type = "header" => p.kind \notin {"al", "al_end"} /\ (p.kind \in Closing => k \in Closing)}

Unmarked == {p \in Casio!Packets : p.type # "established"}

(* Nothing has the AL mode entered; a session that is terminated, and a    *)
(* header on its way that would end one, follow the header that ends it,   *)
(* which is the last; and a session that is established again is not       *)
(* terminated any more.  A library only sends the end.                     *)
EndInv ==
  /\ ~al /\ ~s_al /\ toReceiver \in Seq(Fitting(last.kind))
  /\ terminated => last.kind \in Closing
  /\ pc = "start" \/ (pc = "closed" /\ result = "none") => ~terminated
  /\ s_pc \in {"off", "model", "model_ack"} => last.kind = "mdl"
  /\ s_pc = "next" => ~terminated
  /\ s_pc = "answer" => last.kind # "end"
  /\ s_pc = "start" /\ terminated => toSender \in Seq(Unmarked)
  /\ sender = "library" => last.kind \in {"mdl", "end"} /\ (last.kind = "end" => s_pc = "ended")

LEMMA UnmarkedBytes ==
  /\ \A t \in {"ack", "invalid", "corrupted"} : <<Casio!Byte(t)>> \in Seq(Unmarked)
  /\ \A p \in Casio!Packets : p.type = "header" => <<[p EXCEPT !.intact = TRUE]>> \in Seq(Unmarked)
  /\ <<>> \in Seq(Unmarked)
<1>1. \A t \in {"ack", "invalid", "corrupted"} : Casio!Byte(t) \in Unmarked
  BY CasioPackets DEF Casio!Types, Unmarked
<1>2. \A p \in Casio!Packets : p.type = "header" => [p EXCEPT !.intact = TRUE] \in Unmarked
  BY DEF Unmarked, Casio!Packets
<1> QED
  BY <1>1, <1>2

(* What the receiver does to them: it takes a packet or none, and          *)
(* terminates what the last header ends; what says that a session is       *)
(* established leaves it not terminated.                                   *)
TakesOrWaits == toReceiver' = toReceiver \/ (toReceiver # <<>> /\ toReceiver' = Tail(toReceiver))

EndsRightly ==
  /\ ~al' /\ s_al' = s_al /\ TakesOrWaits
  /\ pc' # "start" /\ ~(pc' = "closed" /\ result' = "none")
  /\ terminated' => terminated \/ (toReceiver # <<>> /\ last.kind \in Closing)
  /\ terminated' /\ toSender \in Seq(Unmarked) => toSender' \in Seq(Unmarked)

LEMMA ReceiverEnds ==
  ASSUME SenderTypes, EndInv, Casio!Receiver
  PROVE  EndsRightly
<1> USE DEF Casio!fixed, Casio!data, Casio!session, Casio!senderVars, Casio!wires, Casio!faults
<1>1. toReceiver \in Seq(Fitting(last.kind)) /\ ~al
  BY DEF EndInv
<1>2. toReceiver # <<>> => Head(toReceiver) \in Fitting(last.kind) /\ Head(toReceiver) \in Casio!Packets
  BY <1>1 DEF Fitting
<1>3. ASSUME toReceiver # <<>>, Head(toReceiver).type = "header"
      PROVE  /\ Head(toReceiver).kind \notin {"al", "al_end"}
             /\ Head(toReceiver).kind \in Closing => last.kind \in Closing
  BY <1>2, <1>3 DEF Fitting
<1>4. ASSUME toReceiver # <<>>, NEW ps \in Seq(Unmarked), Casio!TakeAndSend(ps)
      PROVE  TakesOrWaits /\ (toSender \in Seq(Unmarked) => toSender' \in Seq(Unmarked))
  BY <1>4 DEF Casio!TakeAndSend, TakesOrWaits
<1>5. Casio!HeaderAcks \in Seq(Unmarked)
  BY UnmarkedBytes DEF Casio!HeaderAcks
<1>6. \A t \in {"ack", "invalid", "corrupted"} : Casio!HeaderAcks \o <<Casio!Byte(t)>> \in Seq(Unmarked)
  BY <1>5, UnmarkedBytes
<1>7. ASSUME toReceiver # <<>>, Casio!Take
      PROVE  TakesOrWaits /\ (toSender \in Seq(Unmarked) => toSender' \in Seq(Unmarked))
  BY <1>4, <1>7, UnmarkedBytes DEF Casio!Take
<1>8. ASSUME toReceiver # <<>>, NEW t \in {"ack", "invalid", "corrupted"}, Casio!TakeAndSend(<<Casio!Byte(t)>>)
      PROVE  TakesOrWaits /\ (toSender \in Seq(Unmarked) => toSender' \in Seq(Unmarked))
  BY <1>4, <1>8, UnmarkedBytes
<1>9. \A r \in {"UNKNOWN", "TIMEOUT", "TIMEOUT_START", "CORRUPT", "SIZE", "TERMINATED", "OK", "IMPL"} :
        Casio!Returns(r) => pc' \in {"closed", "idle"} /\ result' # "none"
  BY DEF Casio!Returns, Casio!GoTo
<1>10. CASE Casio!Initiated
  <2>1. ~terminated /\ terminated' = terminated /\ al' = al /\ s_al' = s_al /\ pc = "start" /\ toReceiver # <<>>
    BY <1>10 DEF Casio!Initiated, EndInv
  <2>2. TakesOrWaits
    BY <1>7, <1>10, <2>1 DEF Casio!Initiated, Casio!TakeAndSend, TakesOrWaits
  <2>3. pc' # "start" /\ ~(pc' = "closed" /\ result' = "none")
    BY <1>10 DEF Casio!Initiated, Casio!GoTo
  <2> QED
    BY <1>1, <2>1, <2>2, <2>3 DEF EndsRightly
<1>11. CASE Casio!AnswerStart
  <2>1. terminated' = FALSE /\ al' = al /\ s_al' = s_al /\ pc' = pc /\ pc \in {"model", "any", "header", "part"} /\ TakesOrWaits
    BY <1>11 DEF Casio!AnswerStart, Casio!Receiving, Casio!TakeAndSend, TakesOrWaits
  <2> QED
    BY <1>1, <2>1 DEF EndsRightly
<1>12. CASE Casio!ReceiveOther \/ Casio!ReceiveBadHeader \/ Casio!NoModel \/ Casio!HeaderUnknown
  <2>1. terminated' = terminated /\ al' = al /\ s_al' = s_al /\ toReceiver # <<>> /\ Casio!Take
    BY <1>12 DEF Casio!ReceiveOther, Casio!ReceiveBadHeader, Casio!NoModel, Casio!HeaderUnknown, Casio!GoodHeader, Casio!Receiving
  <2>2. pc' \in {"closed", "idle"} /\ result' # "none"
    BY <1>9, <1>12 DEF Casio!ReceiveOther, Casio!ReceiveBadHeader, Casio!NoModel, Casio!HeaderUnknown
  <2> QED
    BY <1>1, <1>7, <2>1, <2>2 DEF EndsRightly
<1>13. CASE Casio!ReceiveTimesOut
  <2>1. terminated' = terminated /\ al' = al /\ s_al' = s_al /\ toReceiver' = toReceiver /\ toSender' = toSender
    BY <1>13 DEF Casio!ReceiveTimesOut, Casio!TimeRunsOut
  <2>2. pc' \in {"closed", "idle"} /\ result' # "none"
    BY <1>9, <1>13 DEF Casio!ReceiveTimesOut
  <2> QED
    BY <1>1, <2>1, <2>2 DEF EndsRightly, TakesOrWaits
<1>14. CASE Casio!HeaderTooLarge
  <2>1. /\ terminated' = terminated /\ al' = al /\ s_al' = s_al /\ toReceiver # <<>>
        /\ Casio!TakeAndSend(Casio!HeaderAcks \o <<Casio!Byte("invalid")>>)
    BY <1>14 DEF Casio!HeaderTooLarge, Casio!GoodHeader, Casio!Receiving
  <2>2. pc' \in {"closed", "idle"} /\ result' # "none"
    BY <1>9, <1>14 DEF Casio!HeaderTooLarge
  <2> QED
    BY <1>1, <1>4, <1>6, <2>1, <2>2 DEF EndsRightly
<1>15. CASE Casio!HeaderEnd
  <2>1. /\ toReceiver # <<>> /\ Casio!TakeAndSend(Casio!HeaderAcks) /\ al' = al /\ s_al' = s_al
        /\ Head(toReceiver).type = "header" /\ Head(toReceiver).kind = "end"
    BY <1>15 DEF Casio!HeaderEnd, Casio!GoodHeader, Casio!Receiving
  <2>2. pc' \in {"closed", "idle"} /\ result' # "none"
    BY <1>9, <1>15 DEF Casio!HeaderEnd
  <2> QED
    BY <1>1, <1>3, <1>4, <1>5, <2>1, <2>2 DEF EndsRightly, Closing
<1>16. CASE Casio!HeaderAl \/ Casio!HeaderAlEnd
  BY <1>3, <1>16 DEF Casio!HeaderAl, Casio!HeaderAlEnd, Casio!GoodHeader, Casio!Receiving
<1>17. CASE Casio!HeaderEmpty
  <2>1. toReceiver # <<>> /\ Casio!TakeAndSend(Casio!HeaderAcks) /\ al' = al /\ s_al' = s_al /\ terminated' = terminated
    BY <1>17 DEF Casio!HeaderEmpty, Casio!GoodHeader, Casio!Receiving
  <2>2. pc' = "decode"
    BY <1>17 DEF Casio!HeaderEmpty, Casio!GoTo
  <2> QED
    BY <1>1, <1>4, <1>5, <2>1, <2>2 DEF EndsRightly
<1>18. CASE Casio!HeaderData
  <2>1. /\ toReceiver # <<>> /\ Casio!TakeAndSend(Casio!HeaderAcks \o <<Casio!Byte("ack")>>) /\ al' = al /\ s_al' = s_al
        /\ Head(toReceiver).type = "header" /\ terminated' = (terminated \/ Casio!Ends(Head(toReceiver).kind))
    BY <1>18 DEF Casio!HeaderData, Casio!GoodHeader, Casio!Receiving
  <2>2. pc' \in {"decode", "part"}
    BY <1>18 DEF Casio!HeaderData, Casio!GoTo
  <2>3. terminated' => terminated \/ last.kind \in Closing
    BY <1>3, <2>1 DEF Casio!Ends, Closing
  <2> QED
    BY <1>1, <1>4, <1>6, <2>1, <2>2, <2>3 DEF EndsRightly
<1>19. CASE Casio!ReceivePart
  <2>1. /\ toReceiver # <<>> /\ al' = al /\ s_al' = s_al /\ terminated' = terminated
        /\ \E t \in {"ack", "invalid", "corrupted"} : Casio!TakeAndSend(<<Casio!Byte(t)>>)
    BY <1>19 DEF Casio!ReceivePart, Casio!PartAnswer, Casio!Receiving
  <2>2. pc' # "start" /\ ~(pc' = "closed" /\ result' = "none")
    BY <1>19 DEF Casio!ReceivePart, Casio!Returns, Casio!GoTo, Casio!Receiving
  <2> QED
    BY <1>1, <1>8, <2>1, <2>2 DEF EndsRightly
<1>20. CASE Casio!HeaderForPart
  <2>1. /\ toReceiver # <<>> /\ al' = al /\ s_al' = s_al /\ terminated' = terminated
        /\ Casio!Take \/ Casio!TakeAndSend(<<Casio!Byte("invalid")>>)
    BY <1>20 DEF Casio!HeaderForPart, Casio!Receiving
  <2>2. pc' # "start" /\ ~(pc' = "closed" /\ result' = "none")
    BY <1>20 DEF Casio!HeaderForPart, Casio!Returns, Casio!GoTo
  <2> QED
    BY <1>1, <1>7, <1>8, <2>1, <2>2 DEF EndsRightly
<1>21. CASE Casio!Decode \/ Casio!ScreenReceived
  <2>1. al' = al /\ s_al' = s_al /\ (terminated' => terminated) /\ toReceiver' = toReceiver /\ toSender' = toSender
    BY <1>21 DEF Casio!Decode, Casio!ScreenReceived
  <2>2. pc' # "start" /\ pc' # "closed"
    BY <1>21 DEF Casio!Decode, Casio!ScreenReceived, Casio!AfterDecode, Casio!InLoop, Casio!Returns, Casio!GoTo
  <2> QED
    BY <1>1, <2>1, <2>2 DEF EndsRightly, TakesOrWaits
<1>22. CASE Casio!ReceiveModel
  <2>1. /\ toReceiver # <<>> /\ al' = al /\ s_al' = s_al /\ terminated' = terminated /\ Head(toReceiver).type = "header"
        /\ Casio!TakeAndSend(<<[Head(toReceiver) EXCEPT !.intact = TRUE]>>) /\ pc' = "model_ack"
    BY <1>22 DEF Casio!ReceiveModel, Casio!Receiving, Casio!GoTo
  <2> QED
    BY <1>1, <1>2, <1>4, <2>1, UnmarkedBytes DEF EndsRightly
<1>23. CASE Casio!ModelAcknowledged
  <2>1. /\ toReceiver # <<>> /\ al' = al /\ s_al' = s_al /\ terminated' = terminated
        /\ \E t \in {"ack", "invalid", "corrupted"} : Casio!TakeAndSend(<<Casio!Byte(t)>>)
    BY <1>23 DEF Casio!ModelAcknowledged, Casio!Receiving
  <2>2. pc' # "start" /\ ~(pc' = "closed" /\ result' = "none")
    BY <1>23 DEF Casio!ModelAcknowledged, Casio!Returns, Casio!GoTo
  <2> QED
    BY <1>1, <1>8, <2>1, <2>2 DEF EndsRightly
<1> QED
  BY <1>10, <1>11, <1>12, <1>13, <1>14, <1>15, <1>16, <1>17, <1>18, <1>19, <1>20, <1>21, <1>22, <1>23 DEF Casio!Receiver

(* For the sender that is the library, or a calculator in its turns.       *)
Turns == sender = "library" \/ InTurns

LEMMA AllOf ==
  ASSUME NEW S, NEW T, NEW s \in Seq(S), \A i \in 1 .. Len(s) : s[i] \in T
  PROVE  s \in Seq(T)
OBVIOUS

LEMMA NotStarted ==
  ASSUME SenderTypes, Turns, EndInv, s_pc = "start", toReceiver # <<>>, last.kind \in Closing
  PROVE  toSender \in Seq(Unmarked)
<1>1. InTurns
  BY DEF Turns, EndInv, Closing
<1>2. toReceiver \in Seq(Casio!Packets) /\ toSender \in Seq(Casio!Packets)
  BY DEF SenderTypes
<1>3. Len(toReceiver) >= 1
  BY <1>2, OneLess
<1>4. \A i \in 1 .. Len(toSender) : toSender[i].type # "established"
  BY <1>1, <1>3 DEF InTurns
<1>5. \A i \in 1 .. Len(toSender) : toSender[i] \in Unmarked
  BY <1>2, <1>4 DEF Unmarked
<1> QED
  BY <1>2, <1>5, AllOf

LEMMA ReceiverKeepsEnd ==
  ASSUME SenderTypes, Turns, EndInv, Casio!Receiver
  PROVE  EndInv'
<1>1. EndsRightly
  BY ReceiverEnds
<1>2. UNCHANGED <<variant, sender, s_pc, last, s_parts, starts, items, accepted>>
  BY DEF Casio!Receiver, Casio!Initiated, Casio!AnswerStart, Casio!ReceiveOther, Casio!ReceiveTimesOut,
         Casio!ReceiveBadHeader, Casio!HeaderUnknown, Casio!HeaderTooLarge, Casio!HeaderEnd, Casio!HeaderAl,
         Casio!HeaderAlEnd, Casio!HeaderEmpty, Casio!HeaderData, Casio!ReceivePart, Casio!HeaderForPart,
         Casio!Decode, Casio!ScreenReceived, Casio!ReceiveModel, Casio!NoModel, Casio!ModelAcknowledged,
         Casio!fixed, Casio!senderVars
<1>3. toReceiver' \in Seq(Fitting(last.kind))
  BY <1>1 DEF EndsRightly, TakesOrWaits, EndInv
<1>4. s_pc = "next" => ~terminated'
  <2> SUFFICES ASSUME s_pc = "next", terminated' PROVE FALSE
    OBVIOUS
  <2>1. toReceiver # <<>> /\ InTurns
    BY <1>1 DEF EndsRightly, EndInv, Turns, SenderTypes
  <2>2. toReceiver \in Seq(Casio!Packets) /\ Len(toReceiver) = 0
    BY <2>1 DEF InTurns, SenderTypes
  <2> QED
    BY <2>1, <2>2, OneLess
<1>5. s_pc = "start" /\ terminated' => toSender' \in Seq(Unmarked)
  BY <1>1, NotStarted DEF EndsRightly, EndInv
<1> QED
  BY <1>1, <1>2, <1>3, <1>4, <1>5 DEF EndInv, EndsRightly

(* What the sender does to them.                                           *)
LEMMA FittingBytes ==
  /\ \A k : \A t \in Casio!Types \ {"header"} : Casio!Byte(t) \in Fitting(k)
  /\ \A k : \A i \in 0 .. MaxItems, n \in 0 .. MaxParts : Casio!Part(i, n) \in Fitting(k)
  /\ \A k \in Casio!Kinds \ {"al", "al_end"} : \A i \in 0 .. MaxItems, n \in 0 .. MaxParts :
       Casio!Header(k, i, n) \in Fitting(k) /\ Casio!Header(k, i, n).kind = k
BY CasioPackets DEF Fitting, Casio!Header

LEMMA SendingFits ==
  ASSUME NEW k, toReceiver \in Seq(Fitting(k)), NEW ps \in Seq(Fitting(k)), Casio!ToReceiver(ps)
  PROVE  toReceiver' \in Seq(Fitting(k))
BY DEF Casio!ToReceiver

LEMMA ReceiverStays ==
  ASSUME Casio!SenderUnchanged
  PROVE  UNCHANGED <<variant, sender, pc, al, terminated, result>>
BY DEF Casio!SenderUnchanged, Casio!fixed, Casio!receiverVars, Casio!session

LEMMA SenderStartsKeepsEnd ==
  ASSUME SenderTypes, EndInv, Casio!SenderStarts
  PROVE  EndInv'
<1>1. /\ UNCHANGED <<variant, sender, pc, al, terminated, result, s_al, last>>
      /\ s_pc' = "start" /\ toSender' = <<>> /\ Casio!ToReceiver(<<Casio!Byte("start")>>)
  BY ReceiverStays DEF Casio!SenderStarts
<1>2. s_pc = "ended" => sender = "calculator"
  BY DEF Casio!SenderStarts
<1>3. <<Casio!Byte("start")>> \in Seq(Fitting(last.kind))
  BY FittingBytes DEF Casio!Types
<1>4. toReceiver' \in Seq(Fitting(last.kind))
  BY <1>1, <1>3, SendingFits DEF EndInv
<1> QED
  BY <1>1, <1>2, <1>4 DEF EndInv

LEMMA SenderEstablishedKeepsEnd ==
  ASSUME SenderTypes, Turns, EndInv, Casio!SenderEstablished
  PROVE  EndInv'
<1>1. UNCHANGED <<variant, sender, pc, al, terminated, result>> /\ s_pc = "start" /\ toSender # <<>>
  BY ReceiverStays DEF Casio!SenderEstablished
<1>2. toReceiver \in Seq(Fitting(last.kind)) /\ toReceiver \in Seq(Casio!Packets) /\ toSender \in Seq(Casio!Packets)
  BY DEF EndInv, SenderTypes
<1>3. Head(toSender) = toSender[1] /\ Len(toSender) >= 1
  BY <1>1, <1>2, OneLess
<1>4. CASE Head(toSender).type = "established"
  <2>1. ~terminated
    <3> SUFFICES ASSUME terminated PROVE FALSE
      OBVIOUS
    <3>1. toSender \in Seq(Unmarked)
      BY <1>1 DEF EndInv
    <3>2. Head(toSender) \in Unmarked
      BY <1>1, <3>1
    <3> QED
      BY <1>4, <3>2 DEF Unmarked
  <2>2. CASE variant = "CAS100"
    <3> DEFINE b == Casio!Header("mdl", 0, 0)
    <3>1. s_al' = FALSE /\ last' = b /\ s_pc' = "model" /\ Casio!ToReceiver(<<b>>)
      BY <1>4, <2>2 DEF Casio!SenderEstablished, Casio!SenderTakes
    <3>2. b \in Fitting("mdl") /\ b.kind = "mdl"
      BY FittingBytes, AttemptsAssumption, BoundsAssumption DEF Casio!Kinds
    <3>3. toReceiver \in Seq(Fitting("mdl"))
      <4>1. CASE sender = "library"
        BY <1>1, <1>2, <4>1 DEF EndInv
      <4>2. CASE sender # "library"
        <5>1. Len(toReceiver) = 0
          BY <1>1, <1>3, <1>4, <4>2 DEF Turns, InTurns
        <5> QED
          BY <1>2, <5>1
      <4> QED
        BY <4>1, <4>2
    <3> HIDE DEF b
    <3>5. <<b>> \in Seq(Fitting("mdl"))
      BY <3>2
    <3>4. toReceiver' \in Seq(Fitting("mdl"))
      BY <3>1, <3>3, <3>5, SendingFits
    <3> QED
      BY <1>1, <2>1, <3>1, <3>2, <3>4 DEF EndInv, Closing
  <2>3. CASE variant # "CAS100"
    <3>1. s_al' = FALSE /\ last' = last /\ s_pc' = Casio!Ready /\ Casio!ToReceiver(<<>>)
      BY <1>4, <2>3 DEF Casio!SenderEstablished, Casio!SenderTakes
    <3>2. s_pc' \in {"open", "next"}
      BY <3>1 DEF Casio!Ready
    <3>3. toReceiver' = toReceiver
      BY <1>2, <3>1, SendingNothing
    <3> QED
      BY <1>1, <2>1, <3>1, <3>2, <3>3 DEF EndInv
  <2> QED
    BY <2>2, <2>3
<1>5. CASE Head(toSender).type # "established"
  <2>1. /\ s_al' = s_al /\ last' = last /\ s_pc' \in {"start", "ended"} /\ toSender' = Tail(toSender)
        /\ Casio!ToReceiver(<<>>)
    BY <1>1, <1>5 DEF Casio!SenderEstablished, Casio!SenderTakes
  <2>2. toReceiver' = toReceiver
    BY <1>2, <2>1, SendingNothing
  <2>3. terminated => Tail(toSender) \in Seq(Unmarked)
    BY <1>1 DEF EndInv
  <2> QED
    BY <1>1, <2>1, <2>2, <2>3 DEF EndInv
<1> QED
  BY <1>4, <1>5

(* A step of the sender after which it has something else to do, with the  *)
(* same last header.                                                       *)
LEMMA SameHeaderKeepsEnd ==
  ASSUME EndInv, UNCHANGED <<sender, pc, al, terminated, result, s_al, last>>, s_pc # "ended",
         toReceiver' \in Seq(Fitting(last.kind)), s_pc' \notin {"off", "start"},
         s_pc' \in {"model", "model_ack"} => last.kind = "mdl",
         s_pc' = "next" => last.kind \notin Closing, s_pc' = "answer" => last.kind # "end"
  PROVE  EndInv'
BY DEF EndInv

LEMMA SenderGivesUpKeepsEnd ==
  ASSUME EndInv, Casio!SenderGivesUp
  PROVE  EndInv'
<1>1. UNCHANGED <<sender, pc, al, terminated, result, s_al, last, toReceiver>> /\ s_pc' = "ended" /\ s_pc # "ended"
  BY ReceiverStays DEF Casio!SenderGivesUp
<1>2. toReceiver' \in Seq(Fitting(last.kind))
  BY <1>1 DEF EndInv
<1> QED
  BY <1>1, <1>2, SameHeaderKeepsEnd

LEMMA SenderModelKeepsEnd ==
  ASSUME EndInv, Casio!SenderModel \/ Casio!SenderModelAcknowledged
  PROVE  EndInv'
<1>1. /\ UNCHANGED <<sender, pc, al, terminated, result, s_al, last>> /\ s_pc \in {"model", "model_ack"}
      /\ s_pc' \in {"model_ack", "ended", "next", "open"}
      /\ Casio!ToReceiver(<<Casio!Byte("ack")>>) \/ Casio!ToReceiver(<<>>)
  BY ReceiverStays DEF Casio!SenderModel, Casio!SenderModelAcknowledged, Casio!SenderTakes, Casio!Ready
<1>2. last.kind = "mdl" /\ toReceiver \in Seq(Fitting(last.kind))
  BY <1>1 DEF EndInv
<1>3. <<Casio!Byte("ack")>> \in Seq(Fitting(last.kind)) /\ <<>> \in Seq(Fitting(last.kind))
  BY FittingBytes DEF Casio!Types
<1>4. toReceiver' \in Seq(Fitting(last.kind))
  BY <1>1, <1>2, <1>3, SendingFits
<1> QED
  BY <1>1, <1>2, <1>4, SameHeaderKeepsEnd DEF Closing

LEMMA SenderAnsweredKeepsEnd ==
  ASSUME SenderTypes, EndInv, Casio!SenderAnswered
  PROVE  EndInv'
<1>1. UNCHANGED <<sender, pc, al, terminated, result, s_al, last>> /\ s_pc = "answer"
  BY ReceiverStays DEF Casio!SenderAnswered
<1>2. ~s_al /\ last.kind # "end" /\ toReceiver \in Seq(Fitting(last.kind)) /\ <<>> \in Seq(Fitting(last.kind))
  BY <1>1 DEF EndInv
<1>3. CASE s_parts > 0 /\ s_pc' = s_pc /\ Casio!ToReceiver(<<Casio!Part(last.item, last.part - s_parts + 1)>>)
  <2>1. /\ last.item \in 0 .. MaxItems /\ last.part \in 0 .. MaxParts /\ s_parts \in 0 .. last.part
        /\ MaxParts \in Nat
    BY AttemptsAssumption DEF SenderTypes, Casio!Packets
  <2>2. last.part - s_parts + 1 \in 0 .. MaxParts
    BY <1>3, <2>1
  <2>3. <<Casio!Part(last.item, last.part - s_parts + 1)>> \in Seq(Fitting(last.kind))
    BY <2>1, <2>2, FittingBytes
  <2>4. toReceiver' \in Seq(Fitting(last.kind))
    BY <1>2, <1>3, <2>3, SendingFits
  <2> QED
    BY <1>1, <1>2, <1>3, <2>4, SameHeaderKeepsEnd
<1>4. CASE /\ Casio!ToReceiver(<<>>) /\ s_pc' \in {"ended", "next"}
           /\ s_pc' = "next" => last.kind \notin {"final", "screen"}
  <2>1. toReceiver' \in Seq(Fitting(last.kind))
    BY <1>2, <1>4, SendingFits
  <2> QED
    BY <1>1, <1>2, <1>4, <2>1, SameHeaderKeepsEnd DEF Closing
<1> QED
  BY <1>2, <1>3, <1>4 DEF Casio!SenderAnswered, Casio!SenderTakes

LEMMA CloseSenderKeepsEnd ==
  ASSUME SenderTypes, EndInv, Casio!CloseSender
  PROVE  EndInv'
<1> DEFINE b == Casio!Header("end", 0, 0)
<1>1. /\ UNCHANGED <<sender, pc, al, terminated, result, s_al>> /\ s_pc = "open" /\ s_pc' = "ended" /\ last' = b
      /\ Casio!ToReceiver(<<b>>)
  BY ReceiverStays DEF Casio!CloseSender, Casio!SenderSends
<1>2. b \in Fitting("end") /\ b.kind = "end"
  BY FittingBytes, AttemptsAssumption, BoundsAssumption DEF Casio!Kinds
<1> HIDE DEF b
<1>3. Fitting(last.kind) \subseteq Fitting("end")
  BY DEF Fitting, Closing
<1>4. toReceiver \in Seq(Fitting("end")) /\ <<b>> \in Seq(Fitting("end"))
  BY <1>2, <1>3 DEF EndInv
<1>5. toReceiver' \in Seq(Fitting("end"))
  BY <1>1, <1>4, SendingFits
<1> QED
  BY <1>1, <1>2, <1>5 DEF EndInv, Closing

LEMMA SendHeaderKeepsEnd ==
  ASSUME SenderTypes, Turns, EndInv, variant # "CAS40", Casio!SendHeader
  PROVE  EndInv'
<1>1. UNCHANGED <<sender, pc, al, terminated, result>> /\ s_pc = "next" /\ items' \in 0 .. MaxItems
  BY ReceiverStays, BoundsAssumption DEF Casio!SendHeader, SenderTypes
<1>2. InTurns /\ sender # "library" /\ ~s_al
  BY <1>1 DEF SenderTypes, Turns, EndInv
<1>3. PICK k \in Casio!Sendable :
        /\ \E n \in 0 .. MaxParts : last' = Casio!Header(k, items', n)
        /\ s_al' = (s_al \/ k = "al") /\ s_pc' = IF k = "al_end" \/ (k = "end" /\ ~s_al) THEN "ended" ELSE "answer"
        /\ Casio!ToReceiver(<<last'>>)
  BY AttemptsAssumption DEF Casio!SendHeader, Casio!SenderSends
<1>4. k \in Casio!Kinds \ {"al", "al_end"}
  BY <1>3 DEF Casio!Sendable, Casio!Cas50Kinds, Casio!Cas100Kinds, Casio!Kinds, SenderTypes
<1>5. last' \in Fitting(k) /\ last'.kind = k
  BY <1>1, <1>3, <1>4, FittingBytes
<1>6. toReceiver \in Seq(Fitting(k)) /\ <<last'>> \in Seq(Fitting(k))
  BY <1>1, <1>2, <1>5 DEF InTurns, SenderTypes
<1>7. toReceiver' \in Seq(Fitting(k))
  BY <1>3, <1>6, SendingFits
<1> QED
  BY <1>1, <1>2, <1>3, <1>4, <1>5, <1>7 DEF EndInv

LEMMA FaultKeepsEnd ==
  ASSUME SenderTypes, EndInv, Casio!Lose \/ Casio!Damage
  PROVE  EndInv'
<1>1. UNCHANGED <<sender, pc, al, terminated, result, s_al, last, s_pc>>
  BY DEF Casio!Lose, Casio!Damage, Casio!fixed, Casio!receiverVars, Casio!session, Casio!senderVars
<1>2. toReceiver \in Seq(Fitting(last.kind)) /\ (s_pc = "start" /\ terminated => toSender \in Seq(Unmarked))
  BY DEF EndInv
<1>3. ASSUME toReceiver' \in Seq(Fitting(last.kind)), s_pc = "start" /\ terminated => toSender' \in Seq(Unmarked)
      PROVE  EndInv'
  BY <1>1, <1>3 DEF EndInv
<1>4. CASE toReceiver # <<>> /\ toReceiver' = Tail(toReceiver) /\ toSender' = toSender
  <2>1. Tail(toReceiver) \in Seq(Fitting(last.kind))
    BY <1>2, <1>4
  <2> QED
    BY <1>2, <1>3, <1>4, <2>1
<1>5. CASE toSender # <<>> /\ toSender' = Tail(toSender) /\ toReceiver' = toReceiver
  <2>1. s_pc = "start" /\ terminated => Tail(toSender) \in Seq(Unmarked)
    BY <1>2, <1>5
  <2> QED
    BY <1>2, <1>3, <1>5, <2>1
<1>6. CASE /\ toReceiver # <<>> /\ toReceiver' = [toReceiver EXCEPT ![1].intact = FALSE] /\ toSender' = toSender
  <2> DEFINE v == [toReceiver[1] EXCEPT !.intact = FALSE]
  <2>1. toReceiver[1] \in Fitting(last.kind)
    BY <1>2, <1>6, OneLess
  <2>2. v \in Fitting(last.kind)
    BY <2>1 DEF Fitting, Casio!Packets
  <2>3. toReceiver' = [toReceiver EXCEPT ![1] = v]
    BY <1>6
  <2> HIDE DEF v
  <2>4. toReceiver' \in Seq(Fitting(last.kind))
    BY <1>2, <1>6, <2>2, <2>3, FirstReplaced
  <2> QED
    BY <1>2, <1>3, <1>6, <2>4
<1> QED
  BY <1>4, <1>5, <1>6 DEF Casio!Lose, Casio!Damage

LEMMA CallsKeepEnd ==
  ASSUME EndInv, Casio!OpenReceiver \/ Casio!ReceiveData \/ Casio!ReceiveScreen
  PROVE  EndInv'
<1>1. UNCHANGED <<sender, al, terminated, s_al, last, s_pc, toReceiver, toSender>>
  BY DEF Casio!OpenReceiver, Casio!ReceiveData, Casio!ReceiveScreen, Casio!fixed, Casio!wires, Casio!faults,
         Casio!session, Casio!senderVars
<1>2. ~terminated \/ pc' \in {"any", "header"}
  BY DEF Casio!OpenReceiver, Casio!ReceiveData, Casio!ReceiveScreen, Casio!Call, Casio!GoTo, EndInv
<1> QED
  BY <1>1, <1>2 DEF EndInv

(* Of every sender but a calculator that speaks CAS40, as long as it is    *)
(* in its turns.                                                           *)
EndsInv == sender = "library" \/ Regular => EndInv

LEMMA SenderIsFixed ==
  ASSUME SenderTypes, Casio!Next
  PROVE  UNCHANGED <<variant, sender>> /\ (Regular' => Regular)
<1>1. CASE Casio!Receiver
  <2>1. UNCHANGED <<variant, sender>>
    BY <1>1 DEF Casio!Receiver, Casio!Initiated, Casio!AnswerStart, Casio!ReceiveOther, Casio!ReceiveTimesOut,
         Casio!ReceiveBadHeader, Casio!HeaderUnknown, Casio!HeaderTooLarge, Casio!HeaderEnd, Casio!HeaderAl,
         Casio!HeaderAlEnd, Casio!HeaderEmpty, Casio!HeaderData, Casio!ReceivePart, Casio!HeaderForPart,
         Casio!Decode, Casio!ScreenReceived, Casio!ReceiveModel, Casio!NoModel, Casio!ModelAcknowledged,
         Casio!fixed
  <2> QED
    BY <1>1, <2>1, ReceiverKeepsTypes
<1>2. CASE ~Casio!Receiver
  <2>1. late \in Nat /\ starts \in Nat
    BY DEF SenderTypes
  <2>2. UNCHANGED <<variant, sender>> /\ late' \in {late, late + 1} /\ starts' \in {starts, starts + 1}
    <3>1. CASE Casio!SenderStarts \/ Casio!SenderGivesUp
      BY <3>1 DEF Casio!SenderStarts, Casio!SenderGivesUp, Casio!SenderTimeRunsOut, Casio!SenderUnchanged, Casio!fixed
    <3>2. CASE Casio!SenderEstablished \/ Casio!SenderModel \/ Casio!SenderModelAcknowledged \/ Casio!SenderAnswered
      BY <3>2 DEF Casio!SenderEstablished, Casio!SenderModel, Casio!SenderModelAcknowledged, Casio!SenderAnswered,
                  Casio!SenderTakes, Casio!faults, Casio!SenderUnchanged, Casio!fixed
    <3>3. CASE Casio!CloseSender \/ Casio!SendHeader \/ Casio!OpenReceiver \/ Casio!ReceiveData \/ Casio!ReceiveScreen
      BY <3>3 DEF Casio!CloseSender, Casio!SendHeader, Casio!OpenReceiver, Casio!ReceiveData, Casio!ReceiveScreen,
                  Casio!SenderSends, Casio!faults, Casio!wires, Casio!SenderUnchanged, Casio!fixed, Casio!senderVars
    <3>4. CASE Casio!Lose \/ Casio!Damage
      BY <3>4 DEF Casio!Lose, Casio!Damage, Casio!fixed, Casio!senderVars
    <3> QED
      BY <1>2, <3>1, <3>2, <3>3, <3>4 DEF Casio!Next, Casio!Sender, Casio!Program
  <2>3. late' \in Nat /\ late <= late' /\ starts' \in Nat /\ starts <= starts'
    BY <2>1, <2>2
  <2> QED
    BY <2>1, <2>2, <2>3, RegularStays
<1> QED
  BY <1>1, <1>2

LEMMA CasioStepKeepsEnd ==
  ASSUME SenderInv, EndsInv, Casio!Next
  PROVE  EndsInv'
<1>1. SenderTypes
  BY DEF SenderInv
<1> SUFFICES ASSUME sender = "library" \/ Regular PROVE EndInv'
  BY <1>1, SenderIsFixed DEF EndsInv
<1>2. EndInv /\ Turns
  BY DEF EndsInv, SenderInv, Turns
<1>3. Casio!SendHeader => variant # "CAS40"
  BY <1>1 DEF Casio!SendHeader, SenderTypes, Regular
<1> QED
  BY <1>1, <1>2, <1>3, ReceiverKeepsEnd, SenderGivesUpKeepsEnd, SenderEstablishedKeepsEnd, SenderModelKeepsEnd,
     SenderAnsweredKeepsEnd, CallsKeepEnd, SenderStartsKeepsEnd, CloseSenderKeepsEnd, SendHeaderKeepsEnd, FaultKeepsEnd
     DEF Casio!Next, Casio!Sender, Casio!Program

LEMMA EndsInitEstablishes == ASSUME Casio!Init PROVE EndsInv
<1>1. /\ s_pc = "off" /\ toReceiver = <<>> /\ ~al /\ ~terminated /\ ~s_al /\ last = Casio!Header("mdl", 0, 0)
  BY DEF Casio!Init
<1>2. last.kind = "mdl" /\ <<>> \in Seq(Fitting(last.kind))
  BY <1>1 DEF Casio!Header
<1> QED
  BY <1>1, <1>2 DEF EndsInv, EndInv

LEMMA EndsInvariance == Spec => [](use = "casiolink" => EndsInv)
<1>1. Init => (use = "casiolink" => EndsInv)
  BY EndsInitEstablishes DEF Init
<1>2. (use = "casiolink" => SenderInv /\ EndsInv) /\ [Next]_vars => (use = "casiolink" => EndsInv)'
  <2> SUFFICES ASSUME use = "casiolink" => SenderInv /\ EndsInv, [Next]_vars PROVE (use = "casiolink" => EndsInv)'
    OBVIOUS
  <2>1. CASE CasioOnly /\ Casio!Next
    BY <2>1, CasioStepKeepsEnd DEF CasioOnly
  <2>2. CASE use # "casiolink" /\ use' = use
    BY <2>2
  <2>3. CASE UNCHANGED vars
    BY <2>3 DEF vars, sharedVars, casioVars, EndsInv, EndInv, Regular, Casio!OneAtATime
  <2>4. OpeningOnly \/ SettingsOnly \/ DetectionOnly \/ ClassPadOnly => use # "casiolink" /\ use' = use
    BY DEF OpeningOnly, SettingsOnly, DetectionOnly, ClassPadOnly, SystemAlone, SessionsAlone
  <2> QED
    BY <2>1, <2>2, <2>3, <2>4 DEF Next
<1> QED
  BY <1>1, <1>2, SenderInvariance, PTL DEF Spec

-----------------------------------------------------------------------------
(* The types of a CASIOLINK session.                                       *)

(* A CASIOLINK session: the header being received, and those on their way, *)
(* are of an item if they have parts.                                      *)
OfItems == {p \in Casio!Packets : p.type = "header" /\ p.part > 0 => p.item \in 1 .. MaxItems}

CasioTypes ==
  /\ Casio!TypeOK
  /\ toReceiver \in Seq(OfItems) /\ (last.part > 0 => last.item \in 1 .. MaxItems)
  /\ header.part > 0 => header.item \in 1 .. MaxItems
  /\ pc = "part" => got < header.part

CasioFaults == lost \in 0 .. MaxLost /\ damaged \in 0 .. MaxDamaged /\ late \in 0 .. MaxLate

ReceiverTypes ==
  /\ pc \in Casio!Places /\ header \in Casio!Packets /\ got \in 0 .. header.part /\ whole \in BOOLEAN
  /\ al \in BOOLEAN /\ terminated \in BOOLEAN /\ irrecoverable \in BOOLEAN /\ calls \in 0 .. MaxCalls
  /\ received \subseteq 1 .. MaxItems /\ (header.part > 0 => header.item \in 1 .. MaxItems)
  /\ pc = "part" => got < header.part

PeerTypes ==
  /\ s_pc \in Casio!SenderPlaces /\ s_al \in BOOLEAN /\ last \in Casio!Packets
  /\ s_parts \in 0 .. last.part /\ items \in 0 .. MaxItems /\ accepted \subseteq 1 .. MaxItems
  /\ last.part > 0 => last.item \in 1 .. MaxItems

LEMMA CasioTypesAre ==
  CasioTypes <=> /\ toReceiver \in Seq(OfItems) /\ toReceiver \in Seq(Casio!Packets) /\ toSender \in Seq(Casio!Packets)
                 /\ CasioFaults /\ ReceiverTypes /\ PeerTypes
BY DEF CasioTypes, Casio!TypeOK, CasioFaults, ReceiverTypes, PeerTypes

LEMMA CasioCounts ==
  /\ MaxLost \in Nat /\ MaxDamaged \in Nat /\ MaxLate \in Nat /\ MaxCalls \in Nat /\ MaxItems \in Nat /\ MaxParts \in Nat
BY AttemptsAssumption, BoundsAssumption

(* What the receiver takes is of the packets on their way; its answers     *)
(* keep the types of the wires (ReceiverKeepsTypes).                       *)
LEMMA ReceiverStepTypes ==
  ASSUME CasioTypes, Casio!Receiver
  PROVE  ReceiverTypes' /\ CasioFaults' /\ toReceiver' \in Seq(OfItems)
<1> USE DEF Casio!fixed, Casio!data, Casio!session, Casio!senderVars, Casio!wires, Casio!faults
<1>1. ReceiverTypes /\ CasioFaults /\ toReceiver \in Seq(OfItems)
  BY CasioTypesAre
<1>2. toReceiver # <<>> => Head(toReceiver) \in OfItems /\ Head(toReceiver) \in Casio!Packets
  BY <1>1 DEF OfItems
<1>3. ASSUME UNCHANGED <<header, got, whole, received>>, al' \in BOOLEAN, terminated' \in BOOLEAN, irrecoverable' \in BOOLEAN,
             calls' = calls, pc' \in Casio!Places, pc' = "part" => pc = "part"
      PROVE  ReceiverTypes'
  BY <1>1, <1>3 DEF ReceiverTypes
<1>4. toReceiver # <<>> /\ (\E ps : Casio!TakeAndSend(ps)) => CasioFaults' /\ toReceiver' \in Seq(OfItems)
  BY <1>1 DEF Casio!TakeAndSend, CasioFaults
<1>5. toReceiver # <<>> /\ Casio!Take => CasioFaults' /\ toReceiver' \in Seq(OfItems)
  BY <1>4 DEF Casio!Take
<1>6. \A r : Casio!Returns(r) => pc' \in {"closed", "idle"}
  BY DEF Casio!Returns, Casio!GoTo
<1>7. {"closed", "idle", "model", "model_ack", "any", "header", "part", "decode"} \subseteq Casio!Places
  BY DEF Casio!Places
<1>8. ASSUME NEW ks, Casio!GoodHeader(ks), calls' = calls, al' \in BOOLEAN, terminated' \in BOOLEAN, irrecoverable' \in BOOLEAN,
             pc' \in Casio!Places, pc' = "part" => header'.part # 0
      PROVE  ReceiverTypes'
  <2>1. header' = Head(toReceiver) /\ got' = 0 /\ whole' = TRUE /\ received' = received /\ toReceiver # <<>>
    BY <1>8 DEF Casio!GoodHeader, Casio!NoParts, Casio!Receiving
  <2>2. header' \in Casio!Packets /\ header'.part \in Nat /\ (header'.part > 0 => header'.item \in 1 .. MaxItems)
    <3>1. header' \in Casio!Packets /\ header' \in OfItems /\ header'.type = "header"
      BY <1>2, <1>8, <2>1 DEF Casio!GoodHeader
    <3> QED
      BY <3>1, CasioCounts DEF OfItems, Casio!Packets
  <2> QED
    BY <1>1, <1>8, <2>1, <2>2 DEF ReceiverTypes
<1>9. /\ al \in BOOLEAN /\ terminated \in BOOLEAN /\ irrecoverable \in BOOLEAN /\ pc \in Casio!Places
  BY <1>1 DEF ReceiverTypes
<1>10. CASE Casio!Initiated
  BY <1>3, <1>4, <1>5, <1>7, <1>9, <1>10 DEF Casio!Initiated, Casio!GoTo
<1>11. CASE Casio!AnswerStart
  BY <1>3, <1>4, <1>9, <1>11 DEF Casio!AnswerStart, Casio!Receiving
<1>12. CASE Casio!ReceiveOther \/ Casio!ReceiveBadHeader \/ Casio!NoModel
  BY <1>3, <1>5, <1>6, <1>7, <1>9, <1>12 DEF Casio!ReceiveOther, Casio!ReceiveBadHeader, Casio!NoModel, Casio!Receiving
<1>13. CASE Casio!ReceiveTimesOut
  <2>1. toReceiver' = toReceiver /\ CasioFaults'
    BY <1>1, <1>13, CasioCounts DEF Casio!ReceiveTimesOut, Casio!TimeRunsOut, CasioFaults
  <2> QED
    BY <1>1, <1>3, <1>6, <1>7, <1>9, <1>13, <2>1 DEF Casio!ReceiveTimesOut
<1>14. CASE Casio!HeaderUnknown \/ Casio!HeaderTooLarge \/ Casio!HeaderEnd
  <2>1. (\E ks : Casio!GoodHeader(ks)) /\ toReceiver # <<>>
    BY <1>14 DEF Casio!HeaderUnknown, Casio!HeaderTooLarge, Casio!HeaderEnd, Casio!GoodHeader, Casio!Receiving
  <2>2. pc' \in {"closed", "idle"}
    BY <1>6, <1>14 DEF Casio!HeaderUnknown, Casio!HeaderTooLarge, Casio!HeaderEnd
  <2> QED
    BY <1>4, <1>5, <1>7, <1>8, <1>9, <1>14, <2>1, <2>2 DEF Casio!HeaderUnknown, Casio!HeaderTooLarge, Casio!HeaderEnd
<1>15. CASE Casio!HeaderAl \/ Casio!HeaderAlEnd \/ Casio!HeaderEmpty
  <2>1. (\E ks : Casio!GoodHeader(ks)) /\ toReceiver # <<>> /\ al' \in BOOLEAN /\ terminated' \in BOOLEAN
    BY <1>9, <1>15 DEF Casio!HeaderAl, Casio!HeaderAlEnd, Casio!HeaderEmpty, Casio!GoodHeader, Casio!Receiving
  <2>2. pc' \in {"closed", "idle", "header", "decode"}
    BY <1>6, <1>15 DEF Casio!HeaderAl, Casio!HeaderAlEnd, Casio!HeaderEmpty, Casio!GoTo
  <2> QED
    BY <1>4, <1>7, <1>8, <1>9, <1>15, <2>1, <2>2 DEF Casio!HeaderAl, Casio!HeaderAlEnd, Casio!HeaderEmpty
<1>16. CASE Casio!HeaderData
  <2>1. (\E ks : Casio!GoodHeader(ks)) /\ toReceiver # <<>> /\ al' \in BOOLEAN /\ terminated' \in BOOLEAN
    BY <1>9, <1>16 DEF Casio!HeaderData, Casio!GoodHeader, Casio!Receiving
  <2>2. pc' \in {"decode", "part"} /\ (pc' = "part" => header'.part # 0)
    BY <1>16 DEF Casio!HeaderData, Casio!GoTo
  <2> QED
    BY <1>4, <1>7, <1>8, <1>9, <1>16, <2>1, <2>2 DEF Casio!HeaderData
<1>17. CASE Casio!ReceivePart
  <2>1. /\ pc = "part" /\ toReceiver # <<>> /\ header' = header /\ UNCHANGED <<al, terminated, calls>>
        /\ \E ps : Casio!TakeAndSend(ps)
    BY <1>17 DEF Casio!ReceivePart, Casio!Receiving
  <2>2. got \in Nat /\ header.part \in Nat /\ got < header.part /\ header.item \in 1 .. MaxItems
    BY <1>1, <2>1, CasioCounts DEF ReceiverTypes, Casio!Packets
  <2>3. CASE Head(toReceiver).intact
    <3>1. /\ got' = got + 1 /\ whole' \in BOOLEAN /\ irrecoverable' = irrecoverable
          /\ IF got + 1 < header.part THEN pc' = pc /\ received' = received
             ELSE pc' = "decode" /\ received' \in {received, received \cup {header.item}}
      BY <1>17, <2>3 DEF Casio!ReceivePart, Casio!GoTo
    <3>2. got' \in 0 .. header.part /\ (pc' = "part" => got' < header.part) /\ pc' \in Casio!Places
      BY <1>7, <2>1, <2>2, <3>1
    <3>3. received' \subseteq 1 .. MaxItems
      BY <1>1, <2>2, <3>1 DEF ReceiverTypes
    <3>4. ReceiverTypes'
      BY <1>1, <1>9, <2>1, <3>1, <3>2, <3>3 DEF ReceiverTypes
    <3> QED
      BY <1>4, <2>1, <3>4
  <2>4. CASE ~Head(toReceiver).intact
    <3>1. irrecoverable' = TRUE /\ UNCHANGED <<got, whole, received>> /\ pc' \in {"closed", "idle"}
      BY <1>6, <1>17, <2>4 DEF Casio!ReceivePart
    <3> QED
      BY <1>3, <1>4, <1>7, <1>9, <2>1, <3>1
  <2> QED
    BY <2>3, <2>4
<1>18. CASE Casio!HeaderForPart
  BY <1>3, <1>4, <1>5, <1>6, <1>7, <1>9, <1>18 DEF Casio!HeaderForPart, Casio!Receiving
<1>19. CASE Casio!Decode \/ Casio!ScreenReceived
  <2>1. pc' \in {"closed", "idle", "header", "any"}
    BY <1>19 DEF Casio!Decode, Casio!ScreenReceived, Casio!AfterDecode, Casio!InLoop, Casio!Returns, Casio!GoTo
  <2>2. toReceiver' = toReceiver /\ CasioFaults' /\ terminated' \in BOOLEAN
    BY <1>1, <1>9, <1>19 DEF Casio!Decode, Casio!ScreenReceived, CasioFaults
  <2> QED
    BY <1>1, <1>3, <1>7, <1>9, <1>19, <2>1, <2>2 DEF Casio!Decode, Casio!ScreenReceived
<1>20. CASE Casio!ReceiveModel
  BY <1>3, <1>4, <1>7, <1>9, <1>20 DEF Casio!ReceiveModel, Casio!Receiving, Casio!GoTo
<1>21. CASE Casio!ModelAcknowledged
  <2>1. pc' \in {"closed", "idle", "header"}
    BY <1>21 DEF Casio!ModelAcknowledged, Casio!Returns, Casio!GoTo
  <2> QED
    BY <1>3, <1>4, <1>7, <1>9, <1>21, <2>1 DEF Casio!ModelAcknowledged, Casio!Receiving
<1> QED
  BY <1>10, <1>11, <1>12, <1>13, <1>14, <1>15, <1>16, <1>17, <1>18, <1>19, <1>20, <1>21 DEF Casio!Receiver

LEMMA ItemPackets ==
  /\ \A t \in Casio!Types : Casio!Byte(t) \in OfItems
  /\ \A k \in Casio!Kinds : Casio!Header(k, 0, 0) \in OfItems /\ Casio!Header(k, 0, 0).part = 0
  /\ \A k \in Casio!Kinds, i \in 1 .. MaxItems, n \in 0 .. MaxParts : Casio!Header(k, i, n) \in OfItems
  /\ \A i \in 0 .. MaxItems, n \in 0 .. MaxParts : Casio!Part(i, n) \in OfItems
<1>1. 0 \in 0 .. MaxItems /\ 0 \in 0 .. MaxParts /\ \A i \in 1 .. MaxItems : i \in 0 .. MaxItems
  BY CasioCounts
<1>2. \A t \in Casio!Types : Casio!Byte(t) \in Casio!Packets /\ Casio!Byte(t).part = 0
  BY CasioPackets DEF Casio!Byte, Casio!Header
<1> QED
  BY <1>1, <1>2, CasioPackets DEF OfItems

(* What the sender does.                                                   *)
LEMMA SenderStepTypes ==
  ASSUME CasioTypes, SenderTypes, Casio!Sender \/ Casio!SenderStarts \/ Casio!CloseSender \/ Casio!SendHeader
  PROVE  PeerTypes' /\ CasioFaults' /\ toReceiver' \in Seq(OfItems) /\ (ReceiverTypes => ReceiverTypes')
<1>1. PeerTypes /\ CasioFaults /\ toReceiver \in Seq(OfItems)
  BY CasioTypesAre
<1>2. ReceiverTypes => ReceiverTypes'
  <2>1. Casio!SenderUnchanged
    BY DEF Casio!Sender, Casio!SenderStarts, Casio!CloseSender, Casio!SendHeader, Casio!SenderGivesUp,
       Casio!SenderEstablished, Casio!SenderModel, Casio!SenderModelAcknowledged, Casio!SenderAnswered
  <2> QED
    BY <2>1 DEF Casio!SenderUnchanged, Casio!receiverVars, Casio!data, Casio!session, ReceiverTypes
<1>3. CasioFaults'
  <2>1. CASE Casio!SenderStarts \/ Casio!SenderGivesUp
    <3>1. UNCHANGED <<lost, damaged>> /\ (late' = late \/ (late < MaxLate /\ late' = late + 1))
      BY <2>1 DEF Casio!SenderStarts, Casio!SenderGivesUp, Casio!SenderTimeRunsOut
    <3> QED
      BY <1>1, <3>1, CasioCounts DEF CasioFaults
  <2>2. CASE ~(Casio!SenderStarts \/ Casio!SenderGivesUp)
    <3>1. UNCHANGED <<lost, damaged, late>>
      BY <2>2 DEF Casio!Sender, Casio!CloseSender, Casio!SendHeader, Casio!SenderEstablished, Casio!SenderModel,
         Casio!SenderModelAcknowledged, Casio!SenderAnswered, Casio!SenderTakes, Casio!SenderSends, Casio!faults
    <3> QED
      BY <1>1, <3>1 DEF CasioFaults
  <2> QED
    BY <2>1, <2>2
<1>4. ASSUME NEW b \in OfItems, Casio!ToReceiver(<<b>>) PROVE toReceiver' \in Seq(OfItems)
  BY <1>1, <1>4 DEF Casio!ToReceiver
<1>5. Casio!ToReceiver(<<>>) => toReceiver' \in Seq(OfItems)
  BY <1>1 DEF Casio!ToReceiver
<1>6. last.part \in Nat /\ last.part <= MaxParts /\ last.item \in 0 .. MaxItems /\ MaxParts \in Nat /\ items \in Nat
  BY <1>1, CasioCounts DEF PeerTypes, Casio!Packets
<1>7. ASSUME s_pc' \in Casio!SenderPlaces, s_al' \in BOOLEAN, UNCHANGED <<last, items>>, s_parts' \in 0 .. last.part,
             accepted' \subseteq 1 .. MaxItems
      PROVE  PeerTypes'
  BY <1>1, <1>7 DEF PeerTypes
<1>8. {"start", "model", "model_ack", "next", "answer", "open", "ended"} \subseteq Casio!SenderPlaces
  BY DEF Casio!SenderPlaces
<1>9. s_al \in BOOLEAN /\ s_parts \in 0 .. last.part /\ accepted \subseteq 1 .. MaxItems /\ s_pc \in Casio!SenderPlaces
  BY <1>1 DEF PeerTypes
<1>10. Casio!Ready \in {"open", "next"}
  BY DEF Casio!Ready
<1>11. CASE Casio!SenderStarts \/ Casio!SenderGivesUp
  <2>1. UNCHANGED <<s_al, last, s_parts, items, accepted>> /\ s_pc' \in {"start", "ended"}
    BY <1>11 DEF Casio!SenderStarts, Casio!SenderGivesUp
  <2>2. toReceiver' \in Seq(OfItems)
    BY <1>1, <1>4, <1>11, ItemPackets DEF Casio!SenderStarts, Casio!SenderGivesUp, Casio!Types
  <2> QED
    BY <1>2, <1>3, <1>7, <1>8, <1>9, <2>1, <2>2
<1>12. CASE Casio!SenderModel \/ Casio!SenderModelAcknowledged
  <2>1. UNCHANGED <<s_al, last, s_parts, items, accepted>> /\ s_pc' \in {"model_ack", "open", "next", "ended"}
    BY <1>10, <1>12 DEF Casio!SenderModel, Casio!SenderModelAcknowledged
  <2>2. toReceiver' \in Seq(OfItems)
    BY <1>4, <1>5, <1>12, ItemPackets DEF Casio!SenderModel, Casio!SenderModelAcknowledged, Casio!SenderTakes, Casio!Types
  <2> QED
    BY <1>2, <1>3, <1>7, <1>8, <1>9, <2>1, <2>2
<1>13. CASE Casio!SenderEstablished
  <2>1. CASE last' = Casio!Header("mdl", 0, 0) /\ s_parts' = 0 /\ s_al' = FALSE /\ s_pc' = "model" /\ Casio!ToReceiver(<<last'>>)
    <3>1. last' \in OfItems /\ last'.part = 0 /\ last' \in Casio!Packets
      BY <2>1, ItemPackets DEF Casio!Kinds, OfItems
    <3>2. UNCHANGED <<items, accepted>> /\ s_parts' \in 0 .. last'.part /\ s_pc' \in Casio!SenderPlaces
      BY <1>8, <1>13, <2>1, <3>1 DEF Casio!SenderEstablished
    <3>4. s_al' \in BOOLEAN
      BY <2>1, Zenon
    <3>3. PeerTypes'
      BY <1>1, <3>1, <3>2, <3>4 DEF PeerTypes
    <3> QED
      BY <1>2, <1>3, <1>4, <2>1, <3>1, <3>3
  <2>2. CASE UNCHANGED last /\ Casio!ToReceiver(<<>>)
    <3>1. UNCHANGED <<items, accepted>> /\ s_al' \in {FALSE, s_al} /\ s_parts' \in {0, s_parts}
      BY <1>13 DEF Casio!SenderEstablished
    <3>2. s_pc' \in {"model", "open", "next", "ended", s_pc}
      BY <1>10, <1>13 DEF Casio!SenderEstablished
    <3>3. s_al' \in BOOLEAN
      BY <1>9, <3>1, Zenon
    <3>4. s_parts' \in 0 .. last.part /\ s_pc' \in Casio!SenderPlaces
      BY <1>6, <1>8, <1>9, <3>1, <3>2
    <3> QED
      BY <1>2, <1>3, <1>5, <1>7, <1>9, <2>2, <3>1, <3>3, <3>4
  <2> QED
    BY <1>13, <2>1, <2>2 DEF Casio!SenderEstablished, Casio!SenderTakes
<1>14. CASE Casio!CloseSender
  <2>1. /\ last' = Casio!Header("end", 0, 0) /\ UNCHANGED <<s_al, s_parts, items, accepted>> /\ s_pc' = "ended"
        /\ Casio!ToReceiver(<<last'>>) /\ s_parts = 0
    BY <1>14 DEF Casio!CloseSender, Casio!SenderSends, SenderTypes
  <2>2. last' \in OfItems /\ last'.part = 0 /\ last' \in Casio!Packets
    BY <2>1, ItemPackets DEF Casio!Kinds, OfItems
  <2>3. 0 \in 0 .. last'.part
    BY <2>2
  <2> QED
    BY <1>1, <1>2, <1>3, <1>4, <1>8, <2>1, <2>2, <2>3 DEF PeerTypes
<1>15. CASE Casio!SendHeader
  <2>1. PICK k \in Casio!Sendable, n \in 0 .. MaxParts : last' = Casio!Header(k, items', n) /\ s_parts' = n
    BY <1>15, CasioCounts DEF Casio!SendHeader
  <2>2. /\ s_al' \in BOOLEAN /\ s_pc' \in {"ended", "answer"} /\ items' \in 1 .. MaxItems /\ accepted' = accepted
        /\ Casio!ToReceiver(<<last'>>)
    BY <1>6, <1>9, <1>15, CasioCounts DEF Casio!SendHeader, Casio!SenderSends
  <2>3. k \in Casio!Kinds
    BY DEF Casio!Sendable, Casio!Cas40Kinds, Casio!Cas50Kinds, Casio!Cas100Kinds, Casio!Kinds, SenderTypes
  <2>4. last' \in OfItems /\ last' \in Casio!Packets /\ last'.part = n /\ last'.item = items' /\ items' \in 0 .. MaxItems
    <3>1. items' \in 0 .. MaxItems
      BY <2>2
    <3> QED
      BY <2>1, <2>2, <2>3, <3>1, ItemPackets, CasioPackets
  <2>5. s_parts' \in 0 .. last'.part
    BY <2>1, <2>4
  <2> QED
    BY <1>1, <1>2, <1>3, <1>4, <1>8, <2>2, <2>4, <2>5 DEF PeerTypes
<1>16. CASE Casio!SenderAnswered
  <2>1. UNCHANGED <<s_al, last, items>>
    BY <1>16 DEF Casio!SenderAnswered
  <2>2. CASE s_parts > 0 /\ Casio!ToReceiver(<<Casio!Part(last.item, last.part - s_parts + 1)>>)
                /\ s_parts' = s_parts - 1 /\ UNCHANGED <<s_pc, accepted>>
    <3>1. last.part - s_parts + 1 \in 0 .. MaxParts /\ s_parts' \in 0 .. last.part
      BY <1>6, <1>9, <2>2
    <3>2. toReceiver' \in Seq(OfItems)
      BY <1>4, <1>6, <2>2, <3>1, ItemPackets
    <3> QED
      BY <1>2, <1>3, <1>7, <1>9, <2>1, <2>2, <3>1, <3>2
  <2>3. CASE /\ Casio!ToReceiver(<<>>) /\ s_pc' \in {"ended", "next"} /\ s_parts' = s_parts
             /\ accepted' = accepted \/ (last.part > 0 /\ accepted' = accepted \cup {last.item})
    <3>1. accepted' \subseteq 1 .. MaxItems
      BY <1>1, <1>9, <2>3 DEF PeerTypes
    <3> QED
      BY <1>2, <1>3, <1>5, <1>7, <1>8, <1>9, <2>1, <2>3, <3>1
  <2> QED
    BY <1>16, <2>2, <2>3 DEF Casio!SenderAnswered, Casio!SenderTakes
<1> QED
  BY <1>11, <1>12, <1>13, <1>14, <1>15, <1>16 DEF Casio!Sender

LEMMA FaultStepTypes ==
  ASSUME CasioTypes, Casio!Lose \/ Casio!Damage
  PROVE  PeerTypes' /\ CasioFaults' /\ toReceiver' \in Seq(OfItems) /\ ReceiverTypes'
<1>1. PeerTypes /\ CasioFaults /\ toReceiver \in Seq(OfItems) /\ ReceiverTypes
  BY CasioTypesAre
<1>2. UNCHANGED <<pc, header, got, whole, received, al, terminated, irrecoverable, calls>>
      /\ UNCHANGED <<s_pc, s_al, last, s_parts, items, accepted>>
  BY DEF Casio!Lose, Casio!Damage, Casio!receiverVars, Casio!data, Casio!session, Casio!senderVars
<1>3. PeerTypes' /\ ReceiverTypes'
  BY <1>1, <1>2 DEF PeerTypes, ReceiverTypes
<1>4. CasioFaults'
  BY <1>1, CasioCounts DEF CasioFaults, Casio!Lose, Casio!Damage
<1>5. CASE toReceiver' = toReceiver \/ (toReceiver # <<>> /\ toReceiver' = Tail(toReceiver))
  BY <1>1, <1>3, <1>4, <1>5
<1>6. CASE toReceiver # <<>> /\ toReceiver' = [toReceiver EXCEPT ![1].intact = FALSE]
  <2> DEFINE v == [toReceiver[1] EXCEPT !.intact = FALSE]
  <2>1. toReceiver[1] \in OfItems
    BY <1>1, <1>6, OneLess
  <2>2. v \in OfItems /\ toReceiver' = [toReceiver EXCEPT ![1] = v]
    BY <1>6, <2>1 DEF OfItems, Casio!Packets
  <2> HIDE DEF v
  <2> QED
    BY <1>1, <1>3, <1>4, <1>6, <2>2, FirstReplaced
<1> QED
  BY <1>5, <1>6 DEF Casio!Lose, Casio!Damage

LEMMA CallStepTypes ==
  ASSUME CasioTypes, Casio!OpenReceiver \/ Casio!ReceiveData \/ Casio!ReceiveScreen
  PROVE  PeerTypes' /\ CasioFaults' /\ toReceiver' \in Seq(OfItems) /\ ReceiverTypes'
<1>1. PeerTypes /\ CasioFaults /\ toReceiver \in Seq(OfItems) /\ ReceiverTypes
  BY CasioTypesAre
<1>2. UNCHANGED <<header, got, whole, received, al, terminated, irrecoverable, toReceiver, lost, damaged, late>>
      /\ UNCHANGED <<s_pc, s_al, last, s_parts, items, accepted>>
      /\ pc' \in {"start", "any", "header"} /\ (calls' = calls \/ (calls < MaxCalls /\ calls' = calls + 1))
  BY DEF Casio!OpenReceiver, Casio!ReceiveData, Casio!ReceiveScreen, Casio!Call, Casio!GoTo, Casio!wires, Casio!faults,
     Casio!data, Casio!session, Casio!senderVars
<1>3. calls' \in 0 .. MaxCalls /\ pc' \in Casio!Places /\ pc' # "part"
  BY <1>1, <1>2, CasioCounts DEF ReceiverTypes, Casio!Places
<1> QED
  BY <1>1, <1>2, <1>3 DEF PeerTypes, CasioFaults, ReceiverTypes

LEMMA CasioStepTypes == ASSUME SenderInv, CasioTypes, Casio!Next PROVE CasioTypes'
<1>1. SenderTypes /\ ReceiverTypes /\ PeerTypes
  BY CasioTypesAre DEF SenderInv
<1>2. toReceiver' \in Seq(Casio!Packets) /\ toSender' \in Seq(Casio!Packets)
  BY CasioStepKeepsInv DEF SenderInv, SenderTypes
<1>3. CASE Casio!Receiver
  <2>1. PeerTypes'
    <3>1. UNCHANGED <<s_pc, s_al, last, s_parts, items, accepted>>
      BY <1>3 DEF Casio!Receiver, Casio!Initiated, Casio!AnswerStart, Casio!ReceiveOther, Casio!ReceiveTimesOut,
         Casio!ReceiveBadHeader, Casio!HeaderUnknown, Casio!HeaderTooLarge, Casio!HeaderEnd, Casio!HeaderAl,
         Casio!HeaderAlEnd, Casio!HeaderEmpty, Casio!HeaderData, Casio!ReceivePart, Casio!HeaderForPart,
         Casio!Decode, Casio!ScreenReceived, Casio!ReceiveModel, Casio!NoModel, Casio!ModelAcknowledged,
         Casio!senderVars
    <3> QED
      BY <1>1, <3>1 DEF PeerTypes
  <2>2. ReceiverTypes' /\ CasioFaults' /\ toReceiver' \in Seq(OfItems)
    BY <1>3, ReceiverStepTypes
  <2> QED
    BY <1>2, <2>1, <2>2, CasioTypesAre DEF CasioTypes, Casio!TypeOK, CasioFaults, ReceiverTypes, PeerTypes
<1>4. CASE ~Casio!Receiver
  <2>1. ReceiverTypes' /\ CasioFaults' /\ PeerTypes' /\ toReceiver' \in Seq(OfItems)
    BY <1>1, <1>4, SenderStepTypes, FaultStepTypes, CallStepTypes DEF Casio!Next, Casio!Program
  <2> QED
    BY <1>2, <2>1 DEF CasioTypes, Casio!TypeOK, CasioFaults, ReceiverTypes, PeerTypes
<1> QED
  BY <1>3, <1>4

LEMMA CasioInitTypes == ASSUME Casio!Init PROVE CasioTypes
<1>1. /\ toReceiver = <<>> /\ toSender = <<>> /\ lost = 0 /\ damaged = 0 /\ late = 0 /\ pc = "closed" /\ got = 0
      /\ whole = TRUE /\ al = FALSE /\ terminated = FALSE /\ irrecoverable = FALSE /\ calls = 0 /\ received = {}
      /\ s_pc = "off" /\ s_al = FALSE /\ s_parts = 0 /\ items = 0 /\ accepted = {}
  BY DEF Casio!Init
<1>2. header = Casio!Header("end", 0, 0) /\ last = Casio!Header("mdl", 0, 0)
  BY DEF Casio!Init
<1>3. header \in Casio!Packets /\ header.part = 0 /\ last \in Casio!Packets /\ last.part = 0
  BY <1>2, ItemPackets DEF Casio!Kinds, OfItems
<1>4. 0 \in 0 .. header.part /\ 0 \in 0 .. last.part /\ ~(header.part > 0) /\ ~(last.part > 0)
  BY <1>3
<1>5. <<>> \in Seq(Casio!Packets) /\ <<>> \in Seq(OfItems)
  OBVIOUS
<1>6. CasioFaults
  BY <1>1, CasioCounts DEF CasioFaults
<1>7. al \in BOOLEAN /\ terminated \in BOOLEAN /\ irrecoverable \in BOOLEAN /\ whole \in BOOLEAN /\ s_al \in BOOLEAN
  BY <1>1, Zenon
<1>8. calls \in 0 .. MaxCalls /\ items \in 0 .. MaxItems /\ pc \in Casio!Places /\ pc # "part"
      /\ s_pc \in Casio!SenderPlaces
  BY <1>1, CasioCounts DEF Casio!Places, Casio!SenderPlaces
<1>9. ReceiverTypes
  BY <1>1, <1>3, <1>4, <1>7, <1>8 DEF ReceiverTypes
<1>10. PeerTypes
  BY <1>1, <1>3, <1>4, <1>7, <1>8 DEF PeerTypes
<1> QED
  BY <1>1, <1>5, <1>6, <1>9, <1>10, CasioTypesAre

-----------------------------------------------------------------------------
(* The types of a detection.                                               *)

(* The detection of a protocol has attempts left as long as it tries.      *)
DetectionInv ==
  /\ Detection!TypeOK
  /\ pc["active"] \in Detection!Probes \cup {"init", "init_nul"} => attempts >= 1
  /\ expected \in 0 .. 1

LEMMA BytesOf ==
  /\ \A b \in {"00", "01", "05", "06", "09", "0B", "10", "13", "15", "16", "18", "d", "c", "x", "info", "end"} :
       b \in Detection!Bytes
  /\ \A b \in Detection!Bytes : <<b>> \in Seq(Detection!Bytes)
  /\ Detection!Check \in Seq(Detection!Bytes) /\ Detection!Ack \in Seq(Detection!Bytes)
  /\ Detection!Nak \in Seq(Detection!Bytes) /\ Detection!HalfDiscover \in Seq(Detection!Bytes)
  /\ Detection!RestOfDiscover \in Seq(Detection!Bytes) /\ Detection!Cas300Ack \in Seq(Detection!Bytes)
  /\ <<"00", "00">> \in Seq(Detection!Bytes) /\ <<"01", "info">> \in Seq(Detection!Bytes)
  /\ <<"18", "d", "end">> \in Seq(Detection!Bytes) /\ <<"15", "d", "d">> \in Seq(Detection!Bytes)
  /\ <<"0B", "d">> \in Seq(Detection!Bytes) /\ <<>> \in Seq(Detection!Bytes)
BY DEF Detection!Bytes, Detection!Check, Detection!Ack, Detection!Nak, Detection!HalfDiscover,
       Detection!RestOfDiscover, Detection!Cas300Ack

LEMMA Concatenated == ASSUME NEW S, NEW s \in Seq(S), NEW t \in Seq(S) PROVE s \o t \in Seq(S)
OBVIOUS

LEMMA SubSequence ==
  ASSUME NEW S, NEW s \in Seq(S), NEW m \in Nat, NEW n \in Nat, m >= 1, n <= Len(s)
  PROVE  SubSeq(s, m, n) \in Seq(S)
OBVIOUS

(* What the detection sends and takes stays bytes.                         *)
Wired == wire \in [Detection!Ends -> Seq(Detection!Bytes)]

LEMMA WiresStay ==
  ASSUME Wired, NEW e \in Detection!Ends, NEW n \in Nat, NEW bs \in Seq(Detection!Bytes),
         Detection!TakeAndSend(e, n, bs)
  PROVE  Wired'
<1>1. Detection!Other(e) \in Detection!Ends /\ Len(wire[e]) \in Nat
  BY DEF Detection!Other, Detection!Ends, Wired
<1>2. PICK w \in Detection!Sent(Detection!Other(e), bs) :
        wire' = [wire EXCEPT ![e] = SubSeq(@, n + 1, Len(@)), ![Detection!Other(e)] = w]
  BY DEF Detection!TakeAndSend
<1>3. w \in Seq(Detection!Bytes)
  <2>1. wire[Detection!Other(e)] \in Seq(Detection!Bytes)
    BY <1>1 DEF Wired
  <2>2. /\ wire[Detection!Other(e)] \o bs \in Seq(Detection!Bytes)
        /\ Append(wire[Detection!Other(e)], "x") \in Seq(Detection!Bytes)
    BY <2>1, BytesOf, Concatenated
  <2> QED
    BY <1>2, <2>1, <2>2 DEF Detection!Sent
<1>4. SubSeq(wire[e], n + 1, Len(wire[e])) \in Seq(Detection!Bytes)
  BY <1>1, SubSequence DEF Wired
<1> QED
  BY <1>1, <1>2, <1>3, <1>4 DEF Wired

LEMMA WiresTaken ==
  ASSUME Wired, NEW e \in Detection!Ends, NEW n \in Nat, Detection!Take(e, n)
  PROVE  Wired' /\ n <= Len(wire[e])
<1>1. <<>> \in Seq(Detection!Bytes) /\ Detection!TakeAndSend(e, n, <<>>)
  BY BytesOf DEF Detection!Take
<1>2. n <= Len(wire[e])
  BY <1>1 DEF Detection!TakeAndSend
<1> QED
  BY <1>1, <1>2, WiresStay

LEMMA DetectionCounts ==
  /\ MaxFaults \in Nat /\ MaxLate \in Nat /\ MaxNotices \in Nat /\ NoticedAttempts \in Nat \ {0} /\ Attempts \in Nat \ {0}
  /\ "active" \in Detection!Ends /\ "passive" \in Detection!Ends
BY AttemptsAssumption, BoundsAssumption DEF Detection!Ends

(* What a step of the detection must keep of the places of the two ends.   *)
EndsAre ==
  /\ pc \in [Detection!Ends -> Detection!Places]
  /\ protocol \in [Detection!Ends -> Detection!Protocols \cup {"none"}]

LEMMA GoingKeepsEnds ==
  ASSUME EndsAre, NEW e \in Detection!Ends, NEW p \in Detection!Places, Detection!GoTo(e, p)
  PROVE  EndsAre' /\ pc'[e] = p /\ pc' = [pc EXCEPT ![e] = p]
BY DEF EndsAre, Detection!GoTo

LEMMA FailingKeepsEnds ==
  ASSUME EndsAre, NEW e \in Detection!Ends, NEW r, Detection!Fails(e, r)
  PROVE  EndsAre' /\ pc'[e] = "over" /\ pc' = [pc EXCEPT ![e] = "over"]
BY DEF EndsAre, Detection!Fails, Detection!Over, Detection!Places

LEMMA FindingKeepsEnds ==
  ASSUME EndsAre, NEW e \in Detection!Ends, NEW p \in Detection!Protocols \cup {"none"}, Detection!Found(e, p)
  PROVE  EndsAre' /\ pc'[e] = "over" /\ pc' = [pc EXCEPT ![e] = "over"]
BY DEF EndsAre, Detection!Found, Detection!Fails, Detection!Over, Detection!Places

LEMMA Findable ==
  /\ \A a : Detection!IfCas300(a) \in Detection!Protocols \cup {"none"}
  /\ \A a : Detection!IfEstablished(a) \in Detection!Protocols \cup {"none"}
  /\ {"SEVEN", "SEVEN_OHP", "CAS", "none"} \subseteq Detection!Protocols \cup {"none"}
BY DEF Detection!IfCas300, Detection!IfEstablished, Detection!Protocols, Detection!CasiolinkVariants

LEMMA TimeIsCounted ==
  ASSUME NEW n, Detection!TimeRunsOut(n), late \in 0 .. MaxLate
  PROVE  late' \in 0 .. MaxLate
BY DetectionCounts DEF Detection!TimeRunsOut

Counted ==
  /\ faults' \in 0 .. MaxFaults /\ late' \in 0 .. MaxLate /\ notices' \in 0 .. MaxNotices + 1
  /\ discovered' \in BOOLEAN /\ next_id' \in 0 .. 1 /\ expected' \in 0 .. 1

AttemptsRemain ==
  /\ attempts' \in 0 .. Attempts \cup 0 .. NoticedAttempts
  /\ pc'["active"] \in Detection!Probes \cup {"init", "init_nul"} => attempts' >= 1

LEMMA DetectionKept ==
  ASSUME Wired', EndsAre', Counted, AttemptsRemain, buf' \in Seq(Detection!Bytes)
  PROVE  DetectionInv'
BY DEF Wired, EndsAre, Counted, AttemptsRemain, DetectionInv, Detection!TypeOK

LEMMA DetectionParts ==
  ASSUME DetectionInv
  PROVE  /\ Wired /\ EndsAre /\ buf \in Seq(Detection!Bytes) /\ attempts \in Nat
         /\ attempts \in 0 .. Attempts \cup 0 .. NoticedAttempts
         /\ faults \in 0 .. MaxFaults /\ late \in 0 .. MaxLate /\ notices \in 0 .. MaxNotices + 1
         /\ discovered \in BOOLEAN /\ next_id \in 0 .. 1 /\ expected \in 0 .. 1
         /\ pc["active"] \in Detection!Probes \cup {"init", "init_nul"} => attempts >= 1
BY DEF DetectionInv, Detection!TypeOK, Wired, EndsAre

(* The active end has taken a first byte, and goes somewhere else, or is   *)
(* over.                                                                   *)
LEMMA ActiveMoves ==
  ASSUME DetectionInv, UNCHANGED <<faults, late, notices, expected, next_id>>, discovered' \in BOOLEAN, attempts' = attempts,
         Wired', EndsAre', buf' \in Seq(Detection!Bytes),
         pc'["active"] \notin Detection!Probes \cup {"init", "init_nul"}
  PROVE  DetectionInv'
BY DetectionParts, DetectionKept DEF Counted, AttemptsRemain

LEMMA AttemptsSet ==
  /\ Attempts \in 0 .. Attempts \cup 0 .. NoticedAttempts /\ Attempts >= 1
  /\ NoticedAttempts \in 0 .. Attempts \cup 0 .. NoticedAttempts /\ NoticedAttempts >= 1
  /\ \A n \in 0 .. Attempts \cup 0 .. NoticedAttempts :
       n >= 1 => n - 1 \in 0 .. Attempts \cup 0 .. NoticedAttempts
BY DetectionCounts

LEMMA ProbesKeepTypes ==
  ASSUME DetectionInv, Detection!OpenActive \/ Detection!ProbeUnanswered
  PROVE  DetectionInv'
<1>1. /\ Wired /\ EndsAre /\ buf \in Seq(Detection!Bytes) /\ attempts \in Nat
      /\ attempts \in 0 .. Attempts \cup 0 .. NoticedAttempts
      /\ faults \in 0 .. MaxFaults /\ late \in 0 .. MaxLate /\ notices \in 0 .. MaxNotices + 1
      /\ discovered \in BOOLEAN /\ next_id \in 0 .. 1 /\ expected \in 0 .. 1
      /\ pc["active"] \in Detection!Probes \cup {"init", "init_nul"} => attempts >= 1
  BY DetectionParts
<1>2. Detection!Probes \subseteq Detection!Places
  BY DEF Detection!Places
<1>3. CASE Detection!OpenActive
  <2>1. /\ attempts' = Attempts /\ Detection!GoTo("active", "check") /\ Detection!TakeAndSend("active", 0, Detection!Check)
        /\ buf' = buf /\ UNCHANGED <<faults, late, notices, expected, discovered, next_id>>
    BY <1>3 DEF Detection!OpenActive, Detection!setting, Detection!counts
  <2>2. Wired'
    BY <1>1, <2>1, WiresStay, BytesOf, DetectionCounts
  <2>3. EndsAre'
    BY <1>1, <1>2, <2>1, GoingKeepsEnds, DetectionCounts DEF Detection!Probes
  <2> QED
    BY <1>1, <2>1, <2>2, <2>3, DetectionKept, AttemptsSet DEF Counted, AttemptsRemain
<1>4. CASE Detection!ProbeUnanswered
  <2>1. /\ pc["active"] \in Detection!Probes /\ Detection!TimeRunsOut(1)
        /\ attempts' = IF pc["active"] = "rest" THEN attempts - 1 ELSE attempts
        /\ buf' = buf /\ UNCHANGED <<faults, notices, expected, discovered, next_id>>
    BY <1>4 DEF Detection!ProbeUnanswered, Detection!setting
  <2>2. late' \in 0 .. MaxLate
    BY <1>1, <2>1, TimeIsCounted
  <2>3. CASE Detection!LastAttempt(pc["active"])
    <3>1. Detection!Fails("active", "NOT_FOUND") /\ wire' = wire
      BY <1>4, <2>3 DEF Detection!ProbeUnanswered
    <3>2. EndsAre' /\ pc'["active"] = "over"
      BY <1>1, <3>1, FailingKeepsEnds, DetectionCounts
    <3>3. Wired' /\ attempts' \in 0 .. Attempts \cup 0 .. NoticedAttempts
      BY <1>1, <2>1, <3>1, AttemptsSet DEF Wired
    <3> QED
      BY <1>1, <2>1, <2>2, <3>2, <3>3, DetectionKept DEF Counted, AttemptsRemain, Detection!Probes
  <2>4. CASE ~Detection!LastAttempt(pc["active"])
    <3>1. PICK p, bs : /\ Detection!GoTo("active", p) /\ Detection!TakeAndSend("active", 0, bs)
                       /\ p = Detection!AfterProbe(pc["active"]).place /\ bs = Detection!AfterProbe(pc["active"]).sends
      BY <1>4, <2>4 DEF Detection!ProbeUnanswered
    <3>2. p \in Detection!Probes /\ bs \in Seq(Detection!Bytes)
      BY <2>1, <3>1, BytesOf DEF Detection!AfterProbe, Detection!Probes
    <3>3. Wired' /\ EndsAre'
      BY <1>1, <1>2, <3>1, <3>2, WiresStay, GoingKeepsEnds, DetectionCounts
    <3>4. attempts' \in 0 .. Attempts \cup 0 .. NoticedAttempts /\ attempts' >= 1
      BY <1>1, <2>1, <2>4, AttemptsSet DEF Detection!LastAttempt
    <3> QED
      BY <1>1, <2>1, <2>2, <3>3, <3>4, DetectionKept DEF Counted, AttemptsRemain
  <2> QED
    BY <2>3, <2>4
<1> QED
  BY <1>3, <1>4

(* The first byte, then those that follow it.                              *)
LEMMA AnswersKeepTypes ==
  ASSUME DetectionInv,
         \/ Detection!AnsweredFive \/ Detection!AnsweredAck \/ Detection!AnsweredNak \/ Detection!AnsweredUnknown
         \/ Detection!AnsweredEstablished
  PROVE  DetectionInv'
<1>1. Wired /\ EndsAre
  BY DetectionParts
<1>2. /\ UNCHANGED <<faults, late, notices, expected, discovered, next_id, attempts>> /\ Detection!Take("active", 1)
      /\ \E b \in Detection!Bytes : buf' = <<b>>
  BY BytesOf DEF Detection!AnsweredFive, Detection!AnsweredAck, Detection!AnsweredNak, Detection!AnsweredUnknown,
     Detection!AnsweredEstablished, Detection!setting, Detection!counts, Detection!FirstByte
<1>3. Wired' /\ buf' \in Seq(Detection!Bytes)
  BY <1>1, <1>2, WiresTaken, BytesOf, DetectionCounts
<1>4. discovered' \in BOOLEAN
  BY <1>2, DetectionParts
<1>5. CASE Detection!AnsweredEstablished
  <2>1. EndsAre' /\ pc'["active"] = "over"
    BY <1>1, <1>5, FindingKeepsEnds, Findable, DetectionCounts DEF Detection!AnsweredEstablished
  <2> QED
    BY <1>2, <1>3, <1>4, <2>1, ActiveMoves DEF Detection!Probes
<1>6. CASE ~Detection!AnsweredEstablished
  <2>1. \E p \in {"five", "ack", "nak", "unknown"} : Detection!GoTo("active", p)
    BY <1>6 DEF Detection!AnsweredFive, Detection!AnsweredAck, Detection!AnsweredNak, Detection!AnsweredUnknown
  <2>2. EndsAre' /\ pc'["active"] \in {"five", "ack", "nak", "unknown"}
    BY <1>1, <2>1, GoingKeepsEnds, DetectionCounts DEF Detection!Places
  <2> QED
    BY <1>2, <1>3, <1>4, <2>2, ActiveMoves DEF Detection!Probes
<1> QED
  BY <1>5, <1>6

LEMMA PacketsKeepTypes ==
  ASSUME DetectionInv,
         Detection!AckReceived \/ Detection!AckEnds \/ Detection!NakReceived \/ Detection!NakEnds
  PROVE  DetectionInv'
<1>1. Wired /\ EndsAre /\ buf \in Seq(Detection!Bytes) /\ discovered \in BOOLEAN
  BY DetectionParts
<1>2. PICK n \in {2, 3} :
        /\ UNCHANGED <<faults, late, notices, expected, discovered, next_id, attempts>> /\ Detection!Take("active", n)
        /\ buf' = buf \o SubSeq(wire["active"], 1, n)
  BY DEF Detection!AckReceived, Detection!AckEnds, Detection!NakReceived, Detection!NakEnds, Detection!setting, Detection!counts
<1>3. Wired' /\ n <= Len(wire["active"])
  BY <1>1, <1>2, WiresTaken, DetectionCounts
<1>4. SubSeq(wire["active"], 1, n) \in Seq(Detection!Bytes)
  BY <1>1, <1>3, SubSequence, DetectionCounts DEF Wired
<1>5. buf' \in Seq(Detection!Bytes)
  BY <1>1, <1>2, <1>4, Concatenated
<1>6. \/ \E p \in {"info", "ack_end", "nak_end", "unknown"} : Detection!GoTo("active", p)
      \/ Detection!Found("active", "SEVEN")
  BY DEF Detection!AckReceived, Detection!AckEnds, Detection!NakReceived, Detection!NakEnds
<1>7. EndsAre' /\ pc'["active"] \in {"info", "ack_end", "nak_end", "unknown", "over"}
  BY <1>1, <1>6, GoingKeepsEnds, FindingKeepsEnds, Findable, DetectionCounts DEF Detection!Places
<1> QED
  BY <1>1, <1>2, <1>3, <1>5, <1>7, ActiveMoves DEF Detection!Probes

LEMMA NextInitiationGoes ==
  ASSUME EndsAre, attempts \in 0 .. Attempts \cup 0 .. NoticedAttempts, attempts >= 1, Detection!NextInitiation
  PROVE  EndsAre' /\ AttemptsRemain
<1>1. attempts' = attempts - 1 /\ attempts' \in 0 .. Attempts \cup 0 .. NoticedAttempts
  BY AttemptsSet DEF Detection!NextInitiation
<1>2. CASE attempts > 1
  <2>1. EndsAre' /\ attempts' >= 1
    BY <1>1, <1>2, GoingKeepsEnds, DetectionCounts DEF Detection!NextInitiation, Detection!Places
  <2> QED
    BY <1>1, <2>1 DEF AttemptsRemain
<1>3. CASE ~(attempts > 1)
  <2>1. \E r \in {"TIMEOUT_START", "TIMEOUT"} : Detection!Fails("active", r)
    BY <1>3 DEF Detection!NextInitiation
  <2>2. EndsAre' /\ pc'["active"] = "over"
    BY <2>1, FailingKeepsEnds, DetectionCounts
  <2> QED
    BY <1>1, <2>2 DEF AttemptsRemain, Detection!Probes
<1> QED
  BY <1>2, <1>3

LEMMA InitiationKeepsTypes ==
  ASSUME DetectionInv,
         Detection!AnsweredNul \/ Detection!MoreFives \/ Detection!InitiationUnanswered \/ Detection!Initiation
  PROVE  DetectionInv'
<1>1. /\ Wired /\ EndsAre /\ buf \in Seq(Detection!Bytes) /\ attempts \in Nat
      /\ attempts \in 0 .. Attempts \cup 0 .. NoticedAttempts
      /\ faults \in 0 .. MaxFaults /\ late \in 0 .. MaxLate /\ notices \in 0 .. MaxNotices + 1
      /\ discovered \in BOOLEAN /\ next_id \in 0 .. 1 /\ expected \in 0 .. 1
      /\ pc["active"] \in Detection!Probes \cup {"init", "init_nul"} => attempts >= 1
  BY DetectionParts
<1>2. UNCHANGED <<faults, notices, expected, discovered, next_id>>
  BY DEF Detection!AnsweredNul, Detection!MoreFives, Detection!InitiationUnanswered, Detection!Initiation,
         Detection!setting, Detection!counts
<1>3. <<"16">> \in Seq(Detection!Bytes) /\ <<>> \in Seq(Detection!Bytes)
  BY BytesOf
<1>4. ASSUME late' \in 0 .. MaxLate, Wired', EndsAre', AttemptsRemain, buf' \in Seq(Detection!Bytes)
      PROVE  DetectionInv'
  BY <1>1, <1>2, <1>4, DetectionKept DEF Counted
<1>5. ASSUME attempts' = NoticedAttempts PROVE AttemptsRemain
  BY <1>5, AttemptsSet DEF AttemptsRemain
<1>6. CASE Detection!AnsweredNul
  <2>1. /\ late' = late /\ attempts' = NoticedAttempts /\ Detection!GoTo("active", "init") /\ buf' = <<"00">>
        /\ Detection!TakeAndSend("active", 1, <<"16">>)
    BY <1>6 DEF Detection!AnsweredNul, Detection!FirstByte, Detection!counts
  <2>2. Wired' /\ EndsAre' /\ buf' \in Seq(Detection!Bytes)
    BY <1>1, <1>3, <2>1, WiresStay, GoingKeepsEnds, BytesOf, DetectionCounts DEF Detection!Places
  <2> QED
    BY <1>1, <1>4, <1>5, <2>1, <2>2
<1>7. CASE Detection!MoreFives
  <2>1. buf' = buf
    BY <1>7 DEF Detection!MoreFives
  <2>2. CASE Detection!Take("active", 1) /\ UNCHANGED <<late, attempts>>
    <3>1. Detection!GoTo("active", "five") \/ Detection!Fails("active", "UNKNOWN") \/ Detection!GoTo("active", "init")
      BY <1>7 DEF Detection!MoreFives
    <3>2. CASE Detection!GoTo("active", "five") \/ Detection!Fails("active", "UNKNOWN")
      <4>1. EndsAre' /\ pc'["active"] \in {"five", "over"}
        BY <1>1, <3>2, GoingKeepsEnds, FailingKeepsEnds, DetectionCounts DEF Detection!Places
      <4>2. AttemptsRemain
        BY <1>1, <2>2, <4>1 DEF AttemptsRemain, Detection!Probes
      <4> QED
        BY <1>1, <1>4, <2>1, <2>2, <4>1, <4>2, WiresTaken, DetectionCounts
    <3>3. CASE Detection!GoTo("active", "init") /\ attempts' = NoticedAttempts
      <4>1. EndsAre'
        BY <1>1, <3>3, GoingKeepsEnds, DetectionCounts DEF Detection!Places
      <4> QED
        BY <1>1, <1>4, <1>5, <2>1, <2>2, <3>3, <4>1, WiresTaken, DetectionCounts
    <3> QED
      BY <1>7, <3>1, <3>2, <3>3 DEF Detection!MoreFives
  <2>3. CASE /\ Detection!FivesAreOver /\ attempts' = NoticedAttempts
             /\ Detection!GoTo("active", "init") /\ Detection!TakeAndSend("active", 0, <<"16">>)
    <3>1. late' \in 0 .. MaxLate
      BY <1>1, <2>3, TimeIsCounted DEF Detection!FivesAreOver
    <3>2. Wired' /\ EndsAre'
      BY <1>1, <1>3, <2>3, WiresStay, GoingKeepsEnds, DetectionCounts DEF Detection!Places
    <3> QED
      BY <1>1, <1>4, <1>5, <2>1, <2>3, <3>1, <3>2
  <2> QED
    BY <1>7, <2>2, <2>3 DEF Detection!MoreFives
<1>8. CASE Detection!InitiationUnanswered
  <2>1. /\ buf' = buf /\ Detection!TimeRunsOut(1) /\ Detection!NextInitiation /\ pc["active"] \in {"init", "init_nul"}
        /\ Detection!TakeAndSend("active", 0, <<"16">>) \/ Detection!TakeAndSend("active", 0, <<>>)
    BY <1>8 DEF Detection!InitiationUnanswered
  <2>2. late' \in 0 .. MaxLate /\ Wired'
    BY <1>1, <1>3, <2>1, TimeIsCounted, WiresStay, DetectionCounts
  <2> QED
    BY <1>1, <1>4, <2>1, <2>2, NextInitiationGoes
<1>9. CASE Detection!Initiation
  <2>1. /\ buf' = buf /\ late' = late /\ pc["active"] \in {"init", "init_nul"}
        /\ Detection!TakeAndSend("active", 1, <<"16">>) \/ Detection!TakeAndSend("active", 1, <<>>)
        /\ \/ Detection!GoTo("active", "init_nul") /\ attempts' = attempts
           \/ Detection!Found("active", Detection!IfCas300(asked["active"])) /\ attempts' = attempts
           \/ Detection!NextInitiation
    BY <1>9 DEF Detection!Initiation, Detection!Take, Detection!counts
  <2>2. Wired'
    BY <1>1, <1>3, <2>1, WiresStay, DetectionCounts
  <2>3. CASE Detection!GoTo("active", "init_nul") /\ attempts' = attempts
    BY <1>1, <1>4, <2>1, <2>2, <2>3, GoingKeepsEnds, DetectionCounts DEF Detection!Places, AttemptsRemain
  <2>4. CASE Detection!Found("active", Detection!IfCas300(asked["active"])) /\ attempts' = attempts
    BY <1>1, <1>4, <2>1, <2>2, <2>4, FindingKeepsEnds, Findable, DetectionCounts DEF AttemptsRemain
  <2> QED
    BY <1>1, <1>4, <2>1, <2>2, <2>3, <2>4, NextInitiationGoes
<1> QED
  BY <1>6, <1>7, <1>8, <1>9

LEMMA EndingsKeepTypes ==
  ASSUME DetectionInv, Detection!Information \/ Detection!OutOfOrder \/ Detection!Unknown
  PROVE  DetectionInv'
<1>1. /\ Wired /\ EndsAre /\ buf \in Seq(Detection!Bytes)
      /\ attempts \in 0 .. Attempts \cup 0 .. NoticedAttempts
      /\ faults \in 0 .. MaxFaults /\ late \in 0 .. MaxLate /\ notices \in 0 .. MaxNotices + 1
      /\ discovered \in BOOLEAN /\ next_id \in 0 .. 1 /\ expected \in 0 .. 1
  BY DetectionParts
<1>2. UNCHANGED <<faults, notices, expected, attempts>> /\ discovered' \in BOOLEAN /\ next_id' \in 0 .. 1
  BY <1>1 DEF Detection!Information, Detection!OutOfOrder, Detection!Unknown, Detection!setting
<1>3. ASSUME late' \in 0 .. MaxLate, Wired', EndsAre', pc'["active"] \in {"over", "unknown"}, buf' \in Seq(Detection!Bytes)
      PROVE  DetectionInv'
  BY <1>1, <1>2, <1>3, DetectionKept DEF Counted, AttemptsRemain, Detection!Probes
<1>4. \A r : Detection!Fails("active", r) => EndsAre' /\ pc'["active"] \in {"over", "unknown"}
  BY <1>1, FailingKeepsEnds, DetectionCounts
<1>5. \A a : Detection!Found("active", Detection!IfCas300(a)) => EndsAre' /\ pc'["active"] \in {"over", "unknown"}
  BY <1>1, FindingKeepsEnds, Findable, DetectionCounts
<1>6. late' \in 0 .. MaxLate
  BY <1>1, TimeIsCounted DEF Detection!Information, Detection!OutOfOrder, Detection!Unknown
<1>7. CASE Detection!Information
  <2>1. buf' = buf /\ (wire' = wire \/ Detection!TakeAndSend("active", 1, Detection!Cas300Ack) \/ Detection!Take("active", 1))
    BY <1>7 DEF Detection!Information
  <2>2. Wired'
    BY <1>1, <2>1, WiresStay, WiresTaken, BytesOf, DetectionCounts DEF Wired
  <2>3. (\E r : Detection!Fails("active", r)) \/ Detection!Found("active", Detection!IfCas300(asked["active"]))
    BY <1>7 DEF Detection!Information
  <2> QED
    BY <1>1, <1>3, <1>4, <1>5, <1>6, <2>1, <2>2, <2>3
<1>8. CASE Detection!OutOfOrder
  <2>1. buf' = buf /\ (wire' = wire \/ wire' = [wire EXCEPT !["active"] = <<>>])
    BY <1>8 DEF Detection!OutOfOrder
  <2>2. Wired'
    BY <1>1, <2>1, BytesOf DEF Wired
  <2>3. (\E r : Detection!Fails("active", r)) \/ Detection!Found("active", Detection!IfCas300(asked["active"]))
    BY <1>8 DEF Detection!OutOfOrder
  <2> QED
    BY <1>1, <1>3, <1>4, <1>5, <1>6, <2>1, <2>2, <2>3
<1>9. CASE Detection!Unknown
  <2>1. CASE wire["active"] # <<>> /\ Detection!Take("active", 1) /\ buf' = Append(buf, Head(wire["active"])) /\ Detection!GoTo("active", "unknown")
    <3>1. Head(wire["active"]) \in Detection!Bytes
      BY <1>1, <2>1, DetectionCounts DEF Wired
    <3>2. Wired' /\ buf' \in Seq(Detection!Bytes)
      BY <1>1, <2>1, <3>1, WiresTaken, DetectionCounts
    <3>3. EndsAre' /\ pc'["active"] = "unknown"
      BY <1>1, <2>1, GoingKeepsEnds, DetectionCounts DEF Detection!Places
    <3> QED
      BY <1>3, <1>6, <3>2, <3>3
  <2>2. CASE Detection!Fails("active", "UNKNOWN") /\ UNCHANGED <<wire, buf>>
    BY <1>1, <1>3, <1>4, <1>6, <2>2 DEF Wired
  <2> QED
    BY <1>9, <2>1, <2>2 DEF Detection!Unknown
<1> QED
  BY <1>7, <1>8, <1>9

(* What the passive end, the calculators and the wires do.                 *)
LEMMA PassiveKeepsTypes ==
  ASSUME DetectionInv,
         \/ Detection!OpenPassive \/ Detection!Passive \/ Detection!Device \/ Detection!Notice
         \/ Detection!Lose \/ Detection!Damage \/ \E e \in Detection!Ends : Detection!TransportFails(e)
  PROVE  DetectionInv'
<1>1. /\ Wired /\ EndsAre /\ buf \in Seq(Detection!Bytes)
      /\ attempts \in 0 .. Attempts \cup 0 .. NoticedAttempts
      /\ faults \in 0 .. MaxFaults /\ late \in 0 .. MaxLate /\ notices \in 0 .. MaxNotices + 1
      /\ discovered \in BOOLEAN /\ next_id \in 0 .. 1 /\ expected \in 0 .. 1
      /\ pc["active"] \in Detection!Probes \cup {"init", "init_nul"} => attempts >= 1
  BY DetectionParts
<1>2. UNCHANGED <<late, expected, discovered, next_id, attempts, buf>>
  BY DEF Detection!OpenPassive, Detection!Passive, Detection!CheckBegins, Detection!ScreenBegins, Detection!OtherBegins,
     Detection!StartReceived, Detection!UnknownReceived, Detection!Device, Detection!CalculatorAnswers,
     Detection!CalculatorSends, Detection!Notice, Detection!Lose, Detection!Damage, Detection!TransportFails,
     Detection!setting, Detection!counts, Detection!activeVars
<1>3. faults' \in 0 .. MaxFaults /\ notices' \in 0 .. MaxNotices + 1
  <2> USE DEF Detection!setting, Detection!counts, Detection!activeVars
  <2> DEFINE Bounded == /\ faults' = faults \/ (faults < MaxFaults /\ faults' = faults + 1)
                        /\ notices' = notices \/ (notices <= MaxNotices /\ notices' = notices + 1)
                           \/ notices' = MaxNotices + 1
  <2>1. ASSUME Detection!OpenPassive \/ Detection!Passive PROVE Bounded
    <3>1. UNCHANGED Detection!counts
      BY <2>1, Zenon DEF Detection!OpenPassive, Detection!Passive, Detection!CheckBegins, Detection!ScreenBegins,
         Detection!OtherBegins, Detection!StartReceived, Detection!UnknownReceived
    <3> QED
      BY <3>1
  <2>2. ASSUME Detection!Device PROVE Bounded
    <3>1. CASE Detection!CalculatorAnswers
      BY <3>1 DEF Detection!CalculatorAnswers
    <3>2. CASE Detection!CalculatorSends
      <4>1. UNCHANGED faults
        BY <3>2 DEF Detection!CalculatorSends
      <4>2. (notices < MaxNotices /\ notices' = notices + 1) \/ notices' = MaxNotices + 1
        BY <3>2, Zenon DEF Detection!CalculatorSends
      <4> QED
        BY <1>1, <4>1, <4>2, DetectionCounts
    <3> QED
      BY <2>2, <3>1, <3>2 DEF Detection!Device
  <2>3. ASSUME Detection!Notice PROVE Bounded
    BY <1>1, <2>3, DetectionCounts DEF Detection!Notice
  <2>4. ASSUME Detection!Lose \/ Detection!Damage \/ \E e \in Detection!Ends : Detection!TransportFails(e) PROVE Bounded
    BY <2>4 DEF Detection!Lose, Detection!Damage, Detection!TransportFails
  <2>5. Bounded
    BY <2>1, <2>2, <2>3, <2>4
  <2> QED
    BY <1>1, <2>5, DetectionCounts
<1>4. ASSUME Wired', EndsAre', pc'["active"] \in {pc["active"], "over"} PROVE DetectionInv'
  BY <1>1, <1>2, <1>3, <1>4, DetectionKept DEF Counted, AttemptsRemain, Detection!Probes
<1>5. ASSUME Wired', UNCHANGED <<pc, protocol>> PROVE DetectionInv'
  BY <1>1, <1>4, <1>5 DEF EndsAre
<1>6. CASE Detection!OpenPassive
  BY <1>1, <1>4, <1>6, GoingKeepsEnds, DetectionCounts DEF Detection!OpenPassive, Detection!Places, Wired, EndsAre
<1>7. CASE Detection!Passive
  <2>1. \/ \E n \in Nat, bs \in Seq(Detection!Bytes) : Detection!TakeAndSend("passive", n, bs)
        \/ \E n \in Nat : Detection!Take("passive", n)
    <3>1. <<"13">> \in Seq(Detection!Bytes) /\ Len(Detection!Check) \in Nat /\ 1 \in Nat
      BY BytesOf
    <3> QED
      BY <1>7, <3>1, BytesOf DEF Detection!Passive, Detection!CheckBegins, Detection!ScreenBegins, Detection!OtherBegins,
         Detection!StartReceived, Detection!UnknownReceived
  <2>2. Wired'
    BY <1>1, <2>1, WiresStay, WiresTaken, DetectionCounts
  <2>3. \/ \E p \in Detection!Protocols \cup {"none"} : Detection!Found("passive", p)
        \/ Detection!Fails("passive", "UNKNOWN") \/ Detection!GoTo("passive", "first")
    BY <1>7, Findable DEF Detection!Passive, Detection!CheckBegins, Detection!ScreenBegins, Detection!OtherBegins,
         Detection!StartReceived, Detection!UnknownReceived
  <2>4. EndsAre' /\ pc'["active"] = pc["active"]
    <3>1. "first" \in Detection!Places
      BY DEF Detection!Places
    <3>2. EndsAre' /\ (pc' = [pc EXCEPT !["passive"] = "over"] \/ pc' = [pc EXCEPT !["passive"] = "first"])
      BY <1>1, <2>3, <3>1, GoingKeepsEnds, FindingKeepsEnds, FailingKeepsEnds, DetectionCounts
    <3> QED
      BY <1>1, <3>2, DetectionCounts DEF EndsAre
  <2> QED
    BY <1>4, <2>2, <2>4
<1>8. CASE Detection!Device \/ Detection!Notice
  <2>1. UNCHANGED <<pc, protocol>>
    BY <1>8 DEF Detection!Device, Detection!CalculatorAnswers, Detection!CalculatorSends, Detection!Notice, Detection!endVars
  <2>2. \E e \in Detection!Ends, n \in Nat, bs \in Seq(Detection!Bytes) : Detection!TakeAndSend(e, n, bs)
    <3>1. CASE Detection!CalculatorAnswers
      <4>1. PICK a \in Detection!Answers : Detection!TakeAndSend("passive", a[1], a[2])
        BY <3>1 DEF Detection!CalculatorAnswers
      <4>2. /\ <<"13">> \in Seq(Detection!Bytes) /\ <<"05">> \in Seq(Detection!Bytes)
            /\ Detection!Cas300Ack \o <<"01", "info">> \in Seq(Detection!Bytes)
            /\ Detection!Cas300Ack \o <<"18", "d", "end">> \in Seq(Detection!Bytes)
        BY BytesOf, Concatenated
      <4>3. \E n \in {1, 6, 13}, bs \in {<<>>, <<"13">>, <<"05">>, <<"00", "00">>, <<"15", "d", "d">>, Detection!Ack, Detection!Nak,
                  Detection!Cas300Ack \o <<"01", "info">>, Detection!Cas300Ack \o <<"18", "d", "end">>} : a = <<n, bs>>
        BY DEF Detection!Answers
      <4>4. PICK n \in {1, 6, 13}, bs \in Seq(Detection!Bytes) : a = <<n, bs>>
        BY <4>2, <4>3, BytesOf
      <4>5. a[1] \in Nat /\ a[2] \in Seq(Detection!Bytes)
        BY <4>4
      <4> QED
        BY <4>1, <4>5, DetectionCounts
    <3>2. CASE Detection!CalculatorSends
      <4>1. <<"10">> \in Seq(Detection!Bytes) /\ <<"16">> \in Seq(Detection!Bytes) /\ 0 \in Nat
        BY BytesOf
      <4>2. PICK bs : Detection!TakeAndSend("active", 0, bs) /\ bs \in {<<"10">>, <<"16">>, <<"0B", "d">>, Detection!Check}
        BY <3>2 DEF Detection!CalculatorSends
      <4>3. bs \in Seq(Detection!Bytes)
        BY <4>1, <4>2, BytesOf
      <4> QED
        BY <4>1, <4>2, <4>3, DetectionCounts
    <3>3. CASE Detection!Notice
      <4>1. <<"09">> \in Seq(Detection!Bytes) /\ Detection!TakeAndSend("passive", 0, <<"09">>) /\ 0 \in Nat
        BY <3>3, BytesOf DEF Detection!Notice
      <4> QED
        BY <4>1, DetectionCounts
    <3> QED
      BY <1>8, <3>1, <3>2, <3>3 DEF Detection!Device
  <2> QED
    BY <1>1, <1>5, <2>1, <2>2, WiresStay
<1>9. CASE Detection!Lose \/ Detection!Damage
  <2>1. UNCHANGED <<pc, protocol>>
    BY <1>9 DEF Detection!Lose, Detection!Damage, Detection!endVars
  <2>2. PICK e \in Detection!Ends :
          wire[e] # <<>> /\ (wire' = [wire EXCEPT ![e] = Tail(@)] \/ wire' = [wire EXCEPT ![e][1] = "x"])
    BY <1>9 DEF Detection!Lose, Detection!Damage
  <2>3. Tail(wire[e]) \in Seq(Detection!Bytes) /\ [wire[e] EXCEPT ![1] = "x"] \in Seq(Detection!Bytes)
    BY <1>1, <2>2, BytesOf, FirstReplaced DEF Wired
  <2>4. wire' = [wire EXCEPT ![e] = Tail(wire[e])] \/ wire' = [wire EXCEPT ![e] = [wire[e] EXCEPT ![1] = "x"]]
    BY <2>2
  <2>5. Wired'
    BY <1>1, <2>2, <2>3, <2>4 DEF Wired
  <2> QED
    BY <1>5, <2>1, <2>5
<1>10. CASE \E e \in Detection!Ends : Detection!TransportFails(e)
  <2>1. PICK e \in Detection!Ends : Detection!Fails(e, "GONE") /\ wire' = wire
    BY <1>10 DEF Detection!TransportFails
  <2>2. EndsAre' /\ pc' = [pc EXCEPT ![e] = "over"]
    BY <1>1, <2>1, FailingKeepsEnds
  <2>3. pc'["active"] \in {pc["active"], "over"}
    BY <1>1, <2>1, <2>2, DetectionCounts DEF EndsAre
  <2> QED
    BY <1>1, <1>4, <2>1, <2>2, <2>3 DEF Wired
<1> QED
  BY <1>6, <1>7, <1>8, <1>9, <1>10

LEMMA BeginKeepsTypes ==
  ASSUME DetectionInv, Detection!Begin
  PROVE  DetectionInv'
<1>1. /\ UNCHANGED <<wire, faults, late, notices, protocol, buf, attempts, discovered, next_id>> /\ expected' \in 0 .. 1
      /\ pc' = [e \in Detection!Ends |-> IF kind'[e] # "library" THEN "over" ELSE "off"]
  BY DEF Detection!Begin, Detection!counts, Detection!activeVars
<1>2. pc' \in [Detection!Ends -> Detection!Places] /\ pc'["active"] \in {"over", "off"}
  BY <1>1, DetectionCounts DEF Detection!Places
<1> QED
  BY <1>1, <1>2 DEF DetectionInv, Detection!TypeOK, Detection!Probes

LEMMA DetectionStepTypes == ASSUME DetectionInv, Detection!Next PROVE DetectionInv'
BY BeginKeepsTypes, ProbesKeepTypes, AnswersKeepTypes, PacketsKeepTypes, InitiationKeepsTypes, EndingsKeepTypes,
   PassiveKeepsTypes DEF Detection!Next, Detection!Active

LEMMA DetectionInitTypes == ASSUME Detection!Init PROVE DetectionInv
<1>1. <<>> \in Seq(Detection!Bytes)
  OBVIOUS
<1>2. /\ 0 \in 0 .. MaxFaults /\ 0 \in 0 .. MaxLate /\ 0 \in 0 .. MaxNotices + 1 /\ 0 \in 0 .. Attempts \cup 0 .. NoticedAttempts
      /\ 0 \in 0 .. 1
  BY DetectionCounts
<1> QED
  BY <1>1, <1>2 DEF Detection!Init, DetectionInv, Detection!TypeOK, Detection!Places, Detection!Probes, Detection!Ends

-----------------------------------------------------------------------------
(* What the ends of a detection hear, and what they say.                   *)

(* Detection, with at most three faults.  What the ends are, and where: an  *)
(* end of the library returns once it is over, and a calculator stays.     *)
Incoming == wire["active"]
Outgoing == wire["passive"]
Within(s, S) == \A i \in 1 .. Len(s) : s[i] \in S

SettingInv ==
  /\ kind \in [Detection!Ends -> Detection!Actives \cup Detection!Passives]
  /\ DOMAIN asked = Detection!Ends /\ DOMAIN result = Detection!Ends
  /\ kind["active"] \in Detection!Actives \cup {"none"} /\ kind["passive"] \in Detection!Passives
  /\ kind["active"] = "none" =>
       /\ kind["passive"] = "none" /\ Incoming = <<>> /\ Outgoing = <<>>
       /\ \A e \in Detection!Ends : pc[e] = "off" /\ result[e] = "none"
  /\ kind["active"] # "none" =>
       /\ kind["active"] = "library" \/ kind["passive"] = "library"
       /\ \A e \in Detection!Ends : kind[e] # "library" => pc[e] = "over" /\ result[e] = "none"
       /\ asked["active"] \in Detection!Askable("active") /\ asked["passive"] \in Detection!Askable("passive")
  /\ \A e \in Detection!Ends : kind[e] = "library" => (pc[e] = "over" <=> result[e] # "none")
  /\ pc["passive"] \in {"off", "first", "over"}
  /\ pc["active"] \notin {"first", "packet"}

(* The bytes the passive end may send.                                     *)
Speech ==
  CASE kind["passive"] = "seven" -> {"06", "15", "d", "c", "x"}
    [] kind["passive"] = "cas" -> {"13", "x"}
    [] kind["passive"] = "classpad_new" -> {"13", "00", "05", "09", "x"}
    [] kind["passive"] = "classpad_used" ->
         IF expected = 0 THEN {"06", "01", "18", "info", "end", "d", "x"} ELSE {"15", "d", "x"}
    [] kind["passive"] = "library" ->
         IF result["passive"] # "OK" THEN {}
         ELSE IF protocol["passive"] = "SEVEN" THEN {"06", "d", "x"} ELSE {"13", "x"}
    [] OTHER -> {}

(* The protocol the active end has found is the right one.                 *)
Right ==
  CASE kind["passive"] = "seven" -> protocol["active"] = "SEVEN"
    [] kind["passive"] \in {"cas", "classpad_new"} -> protocol["active"] \in Detection!CasiolinkVariants
    [] kind["passive"] = "classpad_used" ->
         protocol["active"] = "CAS300" /\ next_id = expected /\ (discovered <=> expected = 0)
    [] kind["passive"] = "library" ->
         result["passive"] = "OK" /\ (protocol["active"] = "SEVEN" <=> protocol["passive"] = "SEVEN")
    [] OTHER -> FALSE

(* Where the active end is tells who has answered.                         *)
Placed ==
  /\ pc["active"] \in {"ack", "ack_end", "info"} => "06" \in Speech
  /\ pc["active"] = "info" => "01" \in Speech
  /\ pc["active"] \in {"nak", "nak_end"} => "15" \in Speech
  /\ pc["active"] \in {"five", "init", "init_nul"} => kind["passive"] = "classpad_new"
  /\ pc["active"] \in {"ack", "nak"} => Len(buf) = 1
  /\ pc["active"] = "ack_end" => Len(buf) = 4
  /\ pc["active"] = "nak_end" => Len(buf) = 3
  /\ pc["active"] # "over" => next_id = 0 /\ discovered = FALSE

(* An acknowledgement of a ClassPad that starts at i has two bytes that are *)
(* not digits.                                                             *)
Marked(s, i) ==
  /\ i + 3 <= Len(s) /\ s[i + 3] # "d"
  /\ \E k \in {i + 4, i + 5} : k <= Len(s) /\ s[k] # "d"

(* What is left of them, once its first byte was received and m were lost. *)
MarksLeft(s, m) ==
  /\ m < 3 => 3 - m <= Len(s) /\ s[3 - m] # "d"
  /\ \E k \in {4 - m, 5 - m} : k <= Len(s) /\ s[k] # "d"

(* Three faults do not make a refusal of Protocol 7.00 as short as one of a *)
(* ClassPad 300, as it only comes if a check was not answered; nor an      *)
(* acknowledgement of a ClassPad one of Protocol 7.00.                     *)
Distinct ==
  /\ kind["passive"] = "seven" =>
       /\ pc["active"] = "nak" => Len(Incoming) + faults >= 6
       /\ pc["active"] = "nak_end" => Len(Incoming) + faults >= 4
  /\ kind["passive"] = "classpad_used" /\ faults <= 3 =>
       /\ pc["active"] = "ack" => \E m \in 0 .. 3 : m <= faults /\ MarksLeft(Incoming, m)
       /\ pc["active"] = "ack_end" => \E j \in 2 .. 4 : buf[j] # "d"

OnTheWay ==
  /\ Within(Incoming, Speech)
  /\ kind["passive"] = "seven" => \A i \in 1 .. Len(Incoming) : Incoming[i] = "15" => Len(Incoming) >= i + 5
  /\ kind["passive"] = "classpad_used" =>
       \A i \in 1 .. Len(Incoming) : Incoming[i] = "06" => Marked(Incoming, i)

HeardInv ==
  /\ OnTheWay /\ Placed /\ Distinct
  /\ faults <= 3 /\ result["active"] = "OK" => Right

(* A Protocol 7.00 device that hears everything answers the check first.   *)
AskedInv ==
  kind["passive"] = "seven" =>
    /\ pc["active"] = "off" => Incoming = <<>> /\ Outgoing = <<>>
    /\ faults = 0 /\ pc["active"] \in Detection!Probes =>
         \/ Incoming = <<>> /\ Detection!Starts("passive", Detection!Check)
         \/ Incoming # <<>> /\ Incoming[1] = "06"

(* The bytes a calculator at the active end may send.                      *)
Saying ==
  CASE kind["active"] = "seven" -> {"10", "05", "d", "x"}
    [] kind["active"] = "screen" -> {"0B", "d", "x"}
    [] OTHER -> {"16", "x"}
SaidInv ==
  kind["active"] \notin {"none", "library"} =>
    /\ Within(Outgoing, Saying)
    /\ result["passive"] = "OK" => protocol["passive"] \in Detection!Speaks("active")

(* A wire after its first bytes were taken or lost.                        *)
Shifted(n) ==
  /\ n <= Len(Incoming) /\ Len(Incoming') = Len(Incoming) - n
  /\ \A i \in 1 .. Len(Incoming') : Incoming'[i] = Incoming[i + n]

LEMMA ShiftedBy ==
  ASSUME NEW S, NEW s \in Seq(S), NEW n \in Nat, n <= Len(s), NEW t, t = SubSeq(s, n + 1, Len(s))
  PROVE  Len(t) = Len(s) - n /\ \A i \in 1 .. Len(t) : t[i] = s[i + n]
OBVIOUS

LEMMA WiresAre ==
  ASSUME Wired
  PROVE  /\ Incoming \in Seq(Detection!Bytes) /\ Outgoing \in Seq(Detection!Bytes)
         /\ Len(Incoming) \in Nat /\ Len(Outgoing) \in Nat
BY DetectionCounts DEF Wired, Incoming, Outgoing

LEMMA ActiveSendsBytes ==
  ASSUME Wired, NEW n \in Nat, NEW bs, Detection!TakeAndSend("active", n, bs)
  PROVE  Shifted(n) /\ Outgoing' \in Detection!Sent("passive", bs)
<1>1. PICK w \in Detection!Sent("passive", bs) :
           wire' = [wire EXCEPT !["active"] = SubSeq(@, n + 1, Len(@)), !["passive"] = w]
  BY DEF Detection!TakeAndSend, Detection!Other
<1>2. Incoming' = SubSeq(Incoming, n + 1, Len(Incoming)) /\ Outgoing' = w
  BY <1>1, DetectionCounts DEF Wired, Incoming, Outgoing
<1>3. n <= Len(Incoming)
  BY DEF Detection!TakeAndSend, Incoming
<1> QED
  BY <1>1, <1>2, <1>3, WiresAre, ShiftedBy DEF Shifted

LEMMA PassiveSendsBytes ==
  ASSUME Wired, NEW n \in Nat, NEW bs, Detection!TakeAndSend("passive", n, bs)
  PROVE  /\ n <= Len(Outgoing) /\ Outgoing' = SubSeq(Outgoing, n + 1, Len(Outgoing))
         /\ Len(Outgoing') = Len(Outgoing) - n
         /\ \A i \in 1 .. Len(Outgoing') : Outgoing'[i] = Outgoing[i + n]
         /\ Incoming' \in Detection!Sent("active", bs)
<1>1. PICK w \in Detection!Sent("active", bs) :
           wire' = [wire EXCEPT !["passive"] = SubSeq(@, n + 1, Len(@)), !["active"] = w]
  BY DEF Detection!TakeAndSend, Detection!Other
<1>2. Outgoing' = SubSeq(Outgoing, n + 1, Len(Outgoing)) /\ Incoming' = w
  BY <1>1, DetectionCounts DEF Wired, Incoming, Outgoing
<1>3. n <= Len(Outgoing)
  BY DEF Detection!TakeAndSend, Outgoing
<1> QED
  BY <1>1, <1>2, <1>3, WiresAre, ShiftedBy

(* The bytes sent are added to the wire, or not all of them.                *)
LEMMA BytesAreSent ==
  ASSUME NEW e \in Detection!Ends, NEW bs, NEW w \in Detection!Sent(e, bs)
  PROVE  /\ w = wire[e] \/ w = wire[e] \o bs \/ w = Append(wire[e], "x")
         /\ pc[e] # "off" /\ result[e] \in {"none", "OK"} /\ Detection!Hears /\ bs # <<>> => w = wire[e] \o bs
         /\ bs = <<>> \/ pc[e] = "off" \/ result[e] \notin {"none", "OK"} => w = wire[e]
         /\ Detection!Hears => w = wire[e] \/ w = wire[e] \o bs
BY DEF Detection!Sent

LEMMA CalculatorsHear ==
  ASSUME SettingInv, kind["active"] # "library" \/ kind["passive"] # "library"
  PROVE  Detection!Hears
BY DEF SettingInv, Detection!Hears

LEMMA JoinedTo ==
  ASSUME NEW S, NEW s \in Seq(S), NEW t \in Seq(S)
  PROVE  /\ s \o t \in Seq(S) /\ Len(s \o t) = Len(s) + Len(t)
         /\ \A i \in 1 .. Len(s) : (s \o t)[i] = s[i]
         /\ \A i \in 1 .. Len(t) : (s \o t)[Len(s) + i] = t[i]
         /\ \A i \in 1 .. Len(s \o t) : i > Len(s) => i - Len(s) \in 1 .. Len(t) /\ (s \o t)[i] = t[i - Len(s)]
OBVIOUS

LEMMA AppendedTo ==
  ASSUME NEW S, NEW s \in Seq(S), NEW b \in S
  PROVE  /\ Append(s, b) \in Seq(S) /\ Len(Append(s, b)) = Len(s) + 1 /\ Append(s, b)[Len(s) + 1] = b
         /\ \A i \in 1 .. Len(s) : Append(s, b)[i] = s[i]
OBVIOUS

LEMMA WireLoses ==
  ASSUME Wired, NEW e \in Detection!Ends, wire[e] # <<>>, wire' = [wire EXCEPT ![e] = Tail(@)]
  PROVE  /\ \A f \in Detection!Ends : f # e => wire'[f] = wire[f]
         /\ Len(wire[e]) >= 1 /\ Len(wire'[e]) = Len(wire[e]) - 1
         /\ \A i \in 1 .. Len(wire'[e]) : wire'[e][i] = wire[e][i + 1]
<1>1. wire[e] \in Seq(Detection!Bytes) /\ wire'[e] = Tail(wire[e])
  BY DEF Wired
<1> QED
  BY <1>1 DEF Wired

LEMMA WireDamaged ==
  ASSUME Wired, NEW e \in Detection!Ends, wire[e] # <<>>, wire' = [wire EXCEPT ![e][1] = "x"]
  PROVE  /\ \A f \in Detection!Ends : f # e => wire'[f] = wire[f]
         /\ Len(wire'[e]) = Len(wire[e]) /\ Len(wire[e]) >= 1 /\ wire'[e][1] = "x"
         /\ \A i \in 2 .. Len(wire[e]) : wire'[e][i] = wire[e][i]
<1>1. wire[e] \in Seq(Detection!Bytes) /\ wire'[e] = [wire[e] EXCEPT ![1] = "x"]
  BY DEF Wired
<1> QED
  BY <1>1 DEF Wired

(* An end of the library goes on, or returns.                               *)
Goes(e, places) ==
  \/ \E p \in places : Detection!GoTo(e, p)
  \/ \E r, p : r # "none" /\ Detection!Over(e, r, p)

Onward == Detection!Places \ {"off", "over", "first", "packet"}

LEMMA ActiveIsLibrary ==
  ASSUME SettingInv, pc["active"] \notin {"off", "over"}
  PROVE  kind["active"] = "library" /\ result["active"] = "none"
BY DetectionCounts DEF SettingInv

LEMMA FirstIsLibrary ==
  ASSUME SettingInv, pc["passive"] \notin {"off", "over"}
  PROVE  kind["passive"] = "library" /\ result["passive"] = "none"
BY DetectionCounts DEF SettingInv

LEMMA FailsGoes ==
  ASSUME NEW e, NEW places, NEW r, r # "none", Detection!Fails(e, r)
  PROVE  Goes(e, places)
BY DEF Goes, Detection!Fails

LEMMA FoundGoes ==
  ASSUME NEW e, NEW places, NEW p, Detection!Found(e, p)
  PROVE  Goes(e, places)
BY DEF Goes, Detection!Fails, Detection!Found

LEMMA GoToGoes ==
  ASSUME NEW e, NEW places, NEW p \in places, Detection!GoTo(e, p)
  PROVE  Goes(e, places)
BY DEF Goes

LEMMA ActiveStepGoes ==
  ASSUME EndsAre, SettingInv, Detection!Active
  PROVE  pc["active"] \in Onward /\ Goes("active", Onward) /\ UNCHANGED <<kind, asked, expected, faults, notices>>
<1> DEFINE A == Onward
<1>1. /\ {"five", "init", "init_nul", "ack", "ack_end", "info", "nak", "nak_end", "unknown"} \subseteq A
      /\ Detection!Probes \subseteq A
  BY DEF Onward, Detection!Places, Detection!Probes
<1>a. UNCHANGED <<kind, asked, expected, faults, notices>>
  BY DEF Detection!Active, Detection!ProbeUnanswered, Detection!AnsweredNul, Detection!AnsweredFive, Detection!MoreFives,
         Detection!InitiationUnanswered, Detection!Initiation, Detection!AnsweredAck, Detection!AckReceived, Detection!AckEnds,
         Detection!Information, Detection!AnsweredEstablished, Detection!AnsweredNak, Detection!NakReceived,
         Detection!NakEnds, Detection!OutOfOrder, Detection!AnsweredUnknown, Detection!Unknown,
         Detection!setting, Detection!counts
<1>b. pc["active"] \in A
  BY <1>1 DEF Detection!Active, Detection!ProbeUnanswered, Detection!AnsweredNul, Detection!AnsweredFive, Detection!MoreFives,
         Detection!InitiationUnanswered, Detection!Initiation, Detection!AnsweredAck, Detection!AckReceived, Detection!AckEnds,
         Detection!Information, Detection!AnsweredEstablished, Detection!AnsweredNak, Detection!NakReceived,
         Detection!NakEnds, Detection!OutOfOrder, Detection!AnsweredUnknown, Detection!Unknown, Detection!FirstByte
<1> SUFFICES Goes("active", A)
  BY <1>a, <1>b
<1> HIDE DEF A
<1>2. CASE Detection!ProbeUnanswered
  <2>1. \/ Detection!Fails("active", "NOT_FOUND")
        \/ Detection!GoTo("active", Detection!AfterProbe(pc["active"]).place)
    BY <1>2 DEF Detection!ProbeUnanswered
  <2>2. Detection!AfterProbe(pc["active"]).place \in Detection!Probes
    BY <1>2 DEF Detection!ProbeUnanswered, Detection!AfterProbe, Detection!Probes
  <2> QED
    BY <1>1, <2>1, <2>2, FailsGoes, GoToGoes
<1>3. CASE Detection!InitiationUnanswered \/ Detection!Initiation
  <2>1. \/ \E r \in {"TIMEOUT_START", "TIMEOUT"} : Detection!Fails("active", r)
        \/ \E p \in {"init", "init_nul"} : Detection!GoTo("active", p)
        \/ Detection!Found("active", Detection!IfCas300(asked["active"]))
    BY <1>3 DEF Detection!InitiationUnanswered, Detection!Initiation, Detection!NextInitiation
  <2> QED
    BY <1>1, <2>1, FailsGoes, GoToGoes, FoundGoes
<1>4. CASE \/ Detection!AnsweredNul \/ Detection!AnsweredFive \/ Detection!MoreFives \/ Detection!AnsweredAck
           \/ Detection!AnsweredNak \/ Detection!AnsweredUnknown \/ Detection!NakReceived \/ Detection!Unknown
  <2>1. \/ Detection!Fails("active", "UNKNOWN")
        \/ \E p \in {"init", "five", "ack", "nak", "unknown", "nak_end"} : Detection!GoTo("active", p)
    BY <1>4 DEF Detection!AnsweredNul, Detection!AnsweredFive, Detection!MoreFives, Detection!AnsweredAck,
                Detection!AnsweredNak, Detection!AnsweredUnknown, Detection!NakReceived, Detection!Unknown
  <2> QED
    BY <1>1, <2>1, FailsGoes, GoToGoes
<1>5. CASE Detection!AckReceived \/ Detection!AckEnds \/ Detection!NakEnds \/ Detection!AnsweredEstablished
  <2>1. \/ \E p \in {"info", "ack_end", "unknown"} : Detection!GoTo("active", p)
        \/ \E p : Detection!Found("active", p)
    BY <1>5 DEF Detection!AckReceived, Detection!AckEnds, Detection!NakEnds, Detection!AnsweredEstablished
  <2> QED
    BY <1>1, <2>1, GoToGoes, FoundGoes
<1>6. CASE Detection!Information \/ Detection!OutOfOrder
  <2>1. \/ \E p : Detection!Found("active", p)
        \/ \E r \in {"CORRUPT", "UNKNOWN", "TIMEOUT"} : Detection!Fails("active", r)
    BY <1>6 DEF Detection!Information, Detection!OutOfOrder
  <2> QED
    BY <2>1, FailsGoes, FoundGoes
<1> QED
  BY <1>2, <1>3, <1>4, <1>5, <1>6 DEF Detection!Active

LEMMA PassiveStepGoes ==
  ASSUME EndsAre, SettingInv, Detection!Passive
  PROVE  pc["passive"] = "first" /\ Goes("passive", {"first"}) /\ UNCHANGED <<kind, asked, expected, faults, late, notices>>
<1>1. pc["passive"] = "first" /\ UNCHANGED <<kind, asked, expected, faults, late, notices>>
  BY DEF Detection!Passive, Detection!CheckBegins, Detection!ScreenBegins, Detection!OtherBegins, Detection!StartReceived,
         Detection!UnknownReceived, Detection!setting, Detection!counts, Detection!First
<1>2. \/ Detection!GoTo("passive", "first") \/ Detection!Fails("passive", "UNKNOWN")
      \/ \E p : Detection!Found("passive", p)
  BY DEF Detection!Passive, Detection!CheckBegins, Detection!ScreenBegins, Detection!OtherBegins, Detection!StartReceived,
         Detection!UnknownReceived
<1>3. "first" \in {"first"}
  OBVIOUS
<1> QED
  BY <1>1, <1>2, <1>3, FailsGoes, FoundGoes, GoToGoes

LEMMA SettingKept ==
  ASSUME EndsAre, SettingInv, UNCHANGED <<kind, asked>>, kind["active"] # "none",
         \/ UNCHANGED <<pc, result>>
         \/ kind["active"] = "library" /\ pc["active"] # "over" /\ Goes("active", Onward)
         \/ kind["passive"] = "library" /\ pc["passive"] # "over" /\ Goes("passive", {"first"})
  PROVE  SettingInv'
<1>1. CASE UNCHANGED <<pc, result>>
  BY <1>1 DEF SettingInv
<1>2. ASSUME NEW e \in Detection!Ends, kind[e] = "library", pc[e] # "over",
             NEW p \in Detection!Places \ {"off", "over"}, Detection!GoTo(e, p),
             e = "active" => p \notin {"first", "packet"}, e = "passive" => p = "first"
      PROVE  SettingInv'
  <2>1. pc' = [pc EXCEPT ![e] = p] /\ result' = result /\ result[e] = "none"
    BY <1>2 DEF Detection!GoTo, SettingInv
  <2>2. pc'[e] = p /\ \A f \in Detection!Ends : f # e => pc'[f] = pc[f]
    BY <2>1 DEF EndsAre
  <2> QED
    BY <1>2, <2>1, <2>2, DetectionCounts DEF SettingInv
<1>3. ASSUME NEW e \in Detection!Ends, kind[e] = "library", NEW r, NEW p, r # "none", Detection!Over(e, r, p)
      PROVE  SettingInv'
  <2>1. pc' = [pc EXCEPT ![e] = "over"] /\ result' = [result EXCEPT ![e] = r]
    BY <1>3 DEF Detection!Over
  <2>2. pc'[e] = "over" /\ \A f \in Detection!Ends : f # e => pc'[f] = pc[f]
    BY <2>1 DEF EndsAre
  <2>3. result'[e] = r /\ (\A f \in Detection!Ends : f # e => result'[f] = result[f]) /\ DOMAIN result' = Detection!Ends
    BY <2>1 DEF SettingInv
  <2> QED
    BY <1>3, <2>2, <2>3, DetectionCounts DEF SettingInv
<1>4. /\ \A p \in Onward : p \in Detection!Places \ {"off", "over"} /\ p \notin {"first", "packet"}
      /\ "first" \in Detection!Places \ {"off", "over"} /\ "active" # "passive"
  BY DEF Onward, Detection!Places
<1>5. CASE kind["active"] = "library" /\ pc["active"] # "over" /\ Goes("active", Onward)
  BY <1>2, <1>3, <1>4, <1>5, DetectionCounts DEF Goes
<1>6. CASE kind["passive"] = "library" /\ pc["passive"] # "over" /\ Goes("passive", {"first"})
  BY <1>2, <1>3, <1>4, <1>6, DetectionCounts DEF Goes
<1> QED
  BY <1>1, <1>5, <1>6

LEMMA UnchangedIsShifted ==
  ASSUME Wired, wire'["active"] = wire["active"]
  PROVE  Shifted(0)
BY WiresAre DEF Shifted, Incoming

LEMMA LeavesOtherEnd ==
  ASSUME EndsAre, SettingInv, NEW e \in Detection!Ends, NEW places, Goes(e, places)
  PROVE  \A f \in Detection!Ends : f # e => pc'[f] = pc[f] /\ result'[f] = result[f] /\ protocol'[f] = protocol[f]
<1>1. CASE \E p \in places : Detection!GoTo(e, p)
  BY <1>1 DEF Detection!GoTo, EndsAre
<1>2. CASE \E r, p : Detection!Over(e, r, p)
  BY <1>2 DEF Detection!Over, EndsAre, SettingInv
<1> QED
  BY <1>1, <1>2 DEF Goes

LEMMA SpeechStays ==
  ASSUME UNCHANGED <<kind, expected>>, result'["passive"] = result["passive"], protocol'["passive"] = protocol["passive"]
  PROVE  Speech' = Speech
BY DEF Speech

LEMMA MarksCarried ==
  ASSUME NEW s, NEW t, Len(s) \in Nat, Len(t) \in Nat, NEW i \in Nat, NEW l \in Nat, Marked(s, i),
         \A j \in 1 .. Len(s) : j > i => (j - i) + l \in 1 .. Len(t) /\ t[(j - i) + l] = s[j]
  PROVE  Marked(t, l)
<1>1. ASSUME NEW m \in {3, 4, 5}, i + m <= Len(s), s[i + m] # "d"
      PROVE  l + m <= Len(t) /\ t[l + m] # "d"
  <2>1. i + m \in 1 .. Len(s) /\ i + m > i /\ ((i + m) - i) + l = l + m
    BY <1>1
  <2>2. ((i + m) - i) + l \in 1 .. Len(t) /\ t[((i + m) - i) + l] = s[i + m]
    BY <2>1
  <2> QED
    BY <1>1, <2>1, <2>2
<1>2. l + 3 <= Len(t) /\ t[l + 3] # "d"
  BY <1>1 DEF Marked
<1>3. PICK k \in {i + 4, i + 5} : k <= Len(s) /\ s[k] # "d"
  BY DEF Marked
<1>4. PICK m \in {4, 5} : k = i + m
  BY <1>3
<1>5. l + m <= Len(t) /\ t[l + m] # "d"
  BY <1>1, <1>3, <1>4
<1> QED
  BY <1>2, <1>5 DEF Marked

LEMMA WayIsShifted ==
  ASSUME Wired, Wired', OnTheWay, NEW n \in Nat, Shifted(n), Speech' = Speech, kind' = kind
  PROVE  OnTheWay'
<1>1. Len(Incoming) \in Nat /\ Len(Incoming') \in Nat
  <2>1. Len(Incoming) \in Nat
    BY WiresAre
  <2>2. Len(wire'["active"]) \in Nat
    BY DetectionCounts DEF Wired
  <2> QED
    BY <2>1, <2>2 DEF Incoming
<1>2. \A i \in 1 .. Len(Incoming') : i + n \in 1 .. Len(Incoming) /\ Incoming'[i] = Incoming[i + n]
  BY <1>1 DEF Shifted
<1>3. Within(Incoming, Speech)' 
  BY <1>2 DEF Within, OnTheWay
<1>4. ASSUME kind'["passive"] = "seven", NEW i \in 1 .. Len(Incoming'), Incoming'[i] = "15"
      PROVE  Len(Incoming') >= i + 5
  <2>1. Len(Incoming) >= (i + n) + 5
    BY <1>2, <1>4 DEF OnTheWay
  <2> QED
    BY <1>1, <2>1 DEF Shifted
<1>5. ASSUME kind'["passive"] = "classpad_used", NEW i \in 1 .. Len(Incoming'), Incoming'[i] = "06"
      PROVE  Marked(Incoming', i)
  <2>1. Marked(Incoming, i + n)
    BY <1>2, <1>5 DEF OnTheWay
  <2>2. ASSUME NEW j \in 1 .. Len(Incoming), j > i + n
        PROVE  (j - (i + n)) + i \in 1 .. Len(Incoming') /\ Incoming'[(j - (i + n)) + i] = Incoming[j]
    <3>1. (j - (i + n)) + i \in 1 .. Len(Incoming') /\ ((j - (i + n)) + i) + n = j
      BY <1>1, <2>2 DEF Shifted
    <3> QED
      BY <1>2, <3>1
  <2>3. i \in Nat /\ i + n \in Nat
    OBVIOUS
  <2> QED
    BY <1>1, <2>1, <2>2, <2>3, MarksCarried
<1> QED
  BY <1>3, <1>4, <1>5 DEF OnTheWay

LEMMA GoingOnIsHeard ==
  ASSUME DetectionInv, SettingInv, HeardInv, Wired', UNCHANGED <<kind, expected>>, NEW n \in Nat, Shifted(n),
         kind["active"] = "library", pc["active"] # "over",
         NEW p, Detection!GoTo("active", p), Placed', Distinct'
  PROVE  HeardInv'
<1>1. result' = result /\ protocol' = protocol /\ result["active"] = "none" /\ Wired
  BY DetectionCounts, DetectionParts DEF Detection!GoTo, SettingInv
<1>2. OnTheWay'
  BY <1>1, SpeechStays, WayIsShifted DEF HeardInv
<1> QED
  BY <1>1, <1>2 DEF HeardInv

LEMMA ReturnIsHeard ==
  ASSUME DetectionInv, SettingInv, HeardInv, Wired', UNCHANGED <<kind, expected>>, NEW n \in Nat, Shifted(n),
         NEW r, NEW p, Detection!Over("active", r, p), r # "none",
         faults' <= 3 /\ r = "OK" => Right'
  PROVE  HeardInv'
<1>1. Wired /\ EndsAre /\ Goes("active", {})
  BY DetectionParts DEF Goes
<1>2. /\ pc'["passive"] = pc["passive"] /\ result'["passive"] = result["passive"]
      /\ protocol'["passive"] = protocol["passive"]
  BY <1>1, LeavesOtherEnd, DetectionCounts
<1>3. OnTheWay'
  BY <1>1, <1>2, SpeechStays, WayIsShifted DEF HeardInv
<1>4. pc'["active"] = "over" /\ result'["active"] = r
  BY <1>1, DetectionCounts DEF Detection!Over, EndsAre, SettingInv
<1>5. Placed' /\ Distinct'
  BY <1>4 DEF Placed, Distinct
<1> QED
  BY <1>3, <1>4, <1>5 DEF HeardInv

LEMMA FailureIsHeard ==
  ASSUME DetectionInv, SettingInv, HeardInv, Wired', UNCHANGED <<kind, expected>>, NEW n \in Nat, Shifted(n),
         NEW r, Detection!Fails("active", r), r \notin {"none", "OK"}
  PROVE  HeardInv'
BY ReturnIsHeard DEF Detection!Fails

LEMMA FindingIsHeard ==
  ASSUME DetectionInv, SettingInv, HeardInv, Wired', UNCHANGED <<kind, expected>>, NEW n \in Nat, Shifted(n),
         NEW p, Detection!Found("active", p), faults' <= 3 /\ p # "none" /\ protocol'["active"] = p => Right'
  PROVE  HeardInv'
<1>1. CASE p = "none"
  BY <1>1, FailureIsHeard DEF Detection!Found
<1>2. CASE p # "none"
  <2>1. Detection!Over("active", "OK", p)
    BY <1>2 DEF Detection!Found
  <2>2. EndsAre
    BY DetectionParts
  <2>3. protocol'["active"] = p
    BY <2>1, <2>2, DetectionCounts DEF Detection!Over, EndsAre
  <2> QED
    BY <1>2, <2>1, <2>3, ReturnIsHeard
<1> QED
  BY <1>1, <1>2

LEMMA PlacedAt ==
  ASSUME EndsAre, SettingInv, HeardInv, NEW p, Detection!GoTo("active", p),
         UNCHANGED <<kind, expected, next_id, discovered>>, pc["active"] # "over",
         p \in {"ack", "ack_end", "info"} => "06" \in Speech,
         p = "info" => "01" \in Speech,
         p \in {"nak", "nak_end"} => "15" \in Speech,
         p \in {"five", "init", "init_nul"} => kind["passive"] = "classpad_new",
         p \in {"ack", "nak"} => Len(buf') = 1,
         p = "ack_end" => Len(buf') = 4,
         p = "nak_end" => Len(buf') = 3
  PROVE  Placed' /\ pc'["active"] = p
<1>1. pc'["active"] = p
  BY DetectionCounts DEF EndsAre, Detection!GoTo
<1>2. Speech' = Speech
  BY SpeechStays DEF Detection!GoTo
<1>3. next_id' = 0 /\ discovered' = FALSE
  BY DEF HeardInv, Placed
<1> QED
  BY <1>1, <1>2, <1>3 DEF Placed

(* Places where nothing is counted.                                         *)
LEMMA GoingElsewhereIsHeard ==
  ASSUME DetectionInv, SettingInv, HeardInv, Wired', UNCHANGED <<kind, expected, next_id, discovered>>,
         NEW n \in Nat, Shifted(n), kind["active"] = "library", pc["active"] # "over",
         NEW p, Detection!GoTo("active", p), p \notin {"ack", "ack_end", "nak", "nak_end", "info"},
         p \in {"five", "init", "init_nul"} => kind["passive"] = "classpad_new"
  PROVE  HeardInv'
<1>1. EndsAre
  BY DetectionParts
<1>2. Placed' /\ pc'["active"] = p
  BY <1>1, PlacedAt
<1>3. Distinct'
  BY <1>2 DEF Distinct
<1> QED
  BY <1>2, <1>3, GoingOnIsHeard

LEMMA FirstIsSpoken ==
  ASSUME DetectionInv, HeardInv, Incoming # <<>>
  PROVE  Head(Incoming) = Incoming[1] /\ Incoming[1] \in Speech /\ Len(Incoming) >= 1
<1>1. Incoming \in Seq(Detection!Bytes) /\ Len(Incoming) \in Nat
  BY DetectionParts, WiresAre
<1>2. Len(Incoming) >= 1 /\ Head(Incoming) = Incoming[1]
  BY <1>1
<1>3. 1 \in 1 .. Len(Incoming)
  BY <1>1, <1>2
<1> QED
  BY <1>2, <1>3 DEF HeardInv, OnTheWay, Within

(* Who has said what is heard.                                              *)
LEMMA SaidBy ==
  /\ "00" \in Speech \/ "05" \in Speech => kind["passive"] = "classpad_new"
  /\ "13" \in Speech => \/ kind["passive"] \in {"cas", "classpad_new"}
                        \/ kind["passive"] = "library" /\ result["passive"] = "OK" /\ protocol["passive"] # "SEVEN"
  /\ "06" \in Speech => \/ kind["passive"] = "seven" \/ kind["passive"] = "classpad_used"
                        \/ kind["passive"] = "library" /\ result["passive"] = "OK" /\ protocol["passive"] = "SEVEN"
  /\ "01" \in Speech => kind["passive"] = "classpad_used" /\ expected = 0
  /\ "15" \in Speech => \/ kind["passive"] = "seven"
                        \/ kind["passive"] = "classpad_used" /\ expected # 0
  /\ "c" \in Speech => kind["passive"] = "seven"
BY DEF Speech

LEMMA ProbingIsHeard ==
  ASSUME DetectionInv, SettingInv, HeardInv, Wired',
         \/ Detection!OpenActive \/ Detection!ProbeUnanswered \/ Detection!AnsweredNul \/ Detection!AnsweredFive
         \/ Detection!AnsweredUnknown
  PROVE  HeardInv'
<1>1. /\ Wired /\ UNCHANGED <<kind, expected, faults, next_id, discovered>>
      /\ kind["active"] = "library" /\ pc["active"] # "over"
  <2>1. Wired /\ UNCHANGED <<kind, expected, faults, next_id, discovered>>
    BY DetectionParts DEF Detection!OpenActive, Detection!ProbeUnanswered, Detection!AnsweredNul, Detection!AnsweredFive,
         Detection!AnsweredUnknown, Detection!setting, Detection!counts
  <2>2. \/ pc["active"] = "off" /\ kind["active"] = "library"
        \/ pc["active"] \in Detection!Probes
    BY DEF Detection!OpenActive, Detection!ProbeUnanswered, Detection!AnsweredNul, Detection!AnsweredFive,
         Detection!AnsweredUnknown, Detection!FirstByte
  <2>3. pc["active"] # "over" /\ kind["active"] = "library"
    BY <2>2, ActiveIsLibrary DEF Detection!Probes
  <2> QED
    BY <2>1, <2>3
<1>2. CASE Detection!OpenActive
  <2>1. Detection!GoTo("active", "check") /\ Shifted(0)
    BY <1>1, <1>2, ActiveSendsBytes DEF Detection!OpenActive
  <2> QED
    BY <1>1, <2>1, GoingElsewhereIsHeard
<1>3. CASE Detection!ProbeUnanswered
  <2>1. CASE Detection!LastAttempt(pc["active"])
    <3>1. Detection!Fails("active", "NOT_FOUND") /\ Shifted(0)
      BY <1>1, <1>3, <2>1, UnchangedIsShifted DEF Detection!ProbeUnanswered
    <3> QED
      BY <1>1, <3>1, FailureIsHeard
  <2>2. CASE ~Detection!LastAttempt(pc["active"])
    <3>1. PICK p : Detection!GoTo("active", p) /\ Shifted(0) /\ p = Detection!AfterProbe(pc["active"]).place
      BY <1>1, <1>3, <2>2, ActiveSendsBytes DEF Detection!ProbeUnanswered
    <3>2. p \in {"check", "start", "half", "rest"}
      BY <1>3, <3>1 DEF Detection!AfterProbe, Detection!Probes, Detection!ProbeUnanswered
    <3> QED
      BY <1>1, <3>1, <3>2, GoingElsewhereIsHeard
  <2> QED
    BY <2>1, <2>2
<1>4. CASE Detection!AnsweredNul \/ Detection!AnsweredFive
  <2>1. /\ Shifted(1) /\ \E p \in {"init", "five"} : Detection!GoTo("active", p)
        /\ Incoming # <<>> /\ Head(Incoming) \in {"00", "05"}
    BY <1>1, <1>4, ActiveSendsBytes DEF Detection!AnsweredNul, Detection!AnsweredFive, Detection!Take, Detection!FirstByte, Incoming
  <2>2. kind["passive"] = "classpad_new"
    BY <2>1, FirstIsSpoken, SaidBy
  <2> QED
    BY <1>1, <2>1, <2>2, GoingElsewhereIsHeard
<1>5. CASE Detection!AnsweredUnknown
  <2>1. Shifted(1) /\ Detection!GoTo("active", "unknown")
    BY <1>1, <1>5, ActiveSendsBytes DEF Detection!AnsweredUnknown, Detection!Take
  <2> QED
    BY <1>1, <2>1, GoingElsewhereIsHeard
<1> QED
  BY <1>2, <1>3, <1>4, <1>5

LEMMA InitiationIsHeard ==
  ASSUME DetectionInv, SettingInv, HeardInv, Wired',
         Detection!MoreFives \/ Detection!InitiationUnanswered \/ Detection!Initiation \/ Detection!Unknown
  PROVE  HeardInv'
<1>1. /\ Wired /\ UNCHANGED <<kind, expected, faults, next_id, discovered>>
      /\ kind["active"] = "library" /\ pc["active"] # "over"
  <2>1. Wired /\ UNCHANGED <<kind, expected, faults, next_id, discovered>>
    BY DetectionParts DEF Detection!MoreFives, Detection!InitiationUnanswered, Detection!Initiation, Detection!Unknown,
         Detection!setting, Detection!counts
  <2>2. pc["active"] \in {"five", "init", "init_nul", "unknown"}
    BY DEF Detection!MoreFives, Detection!InitiationUnanswered, Detection!Initiation, Detection!Unknown
  <2> QED
    BY <2>1, <2>2, ActiveIsLibrary
<1>2. \E n \in {0, 1} : Shifted(n)
  <2>1. \/ wire' = wire
        \/ \E n \in {0, 1} : \E bs : Detection!TakeAndSend("active", n, bs)
    BY DEF Detection!MoreFives, Detection!InitiationUnanswered, Detection!Initiation, Detection!Unknown, Detection!Take
  <2> QED
    BY <1>1, <2>1, ActiveSendsBytes, UnchangedIsShifted
<1>3. CASE Detection!Unknown
  <2>1. Detection!GoTo("active", "unknown") \/ Detection!Fails("active", "UNKNOWN")
    BY <1>3 DEF Detection!Unknown
  <2> QED
    BY <1>1, <1>2, <2>1, GoingElsewhereIsHeard, FailureIsHeard
<1>4. CASE Detection!MoreFives \/ Detection!InitiationUnanswered \/ Detection!Initiation
  <2>1. kind["passive"] = "classpad_new"
    BY <1>4 DEF HeardInv, Placed, Detection!MoreFives, Detection!InitiationUnanswered, Detection!Initiation
  <2>2. \/ \E p \in {"five", "init", "init_nul"} : Detection!GoTo("active", p)
        \/ \E r \in {"UNKNOWN", "TIMEOUT_START", "TIMEOUT"} : Detection!Fails("active", r)
        \/ Detection!Found("active", Detection!IfCas300(asked["active"]))
    BY <1>4 DEF Detection!MoreFives, Detection!InitiationUnanswered, Detection!Initiation, Detection!NextInitiation
  <2>3. CASE Detection!Found("active", Detection!IfCas300(asked["active"]))
    <3>1. Detection!IfCas300(asked["active"]) # "none" => Detection!IfCas300(asked["active"]) \in Detection!CasiolinkVariants
      BY DEF Detection!IfCas300, Detection!CasiolinkVariants
    <3>2. protocol'["active"] \in Detection!CasiolinkVariants => Right'
      BY <1>1, <2>1 DEF Right
    <3> QED
      BY <1>1, <1>2, <2>3, <3>1, <3>2, FindingIsHeard
  <2> QED
    BY <1>1, <1>2, <2>1, <2>2, <2>3, GoingElsewhereIsHeard, FailureIsHeard
<1> QED
  BY <1>3, <1>4

LEMMA FindingLeavesPassive ==
  ASSUME EndsAre, SettingInv, NEW p, Detection!Found("active", p)
  PROVE  result'["passive"] = result["passive"] /\ protocol'["passive"] = protocol["passive"]
<1>1. Goes("active", {})
  BY FoundGoes
<1> QED
  BY <1>1, LeavesOtherEnd, DetectionCounts

LEMMA BytesAreKept ==
  ASSUME Wired, buf \in Seq(Detection!Bytes), NEW k \in Nat, k <= Len(Incoming),
         buf' = buf \o SubSeq(wire["active"], 1, k)
  PROVE  /\ Len(buf') = Len(buf) + k /\ Len(buf) \in Nat
         /\ \A i \in 1 .. Len(buf) : buf'[i] = buf[i]
         /\ \A i \in 1 .. k : buf'[Len(buf) + i] = Incoming[i]
<1>1. Incoming \in Seq(Detection!Bytes)
  BY WiresAre
<1>2. /\ SubSeq(Incoming, 1, k) \in Seq(Detection!Bytes) /\ Len(SubSeq(Incoming, 1, k)) = k
      /\ \A i \in 1 .. k : SubSeq(Incoming, 1, k)[i] = Incoming[i]
  BY <1>1
<1> DEFINE t == SubSeq(Incoming, 1, k)
<1>3. buf' = buf \o t
  BY DEF Incoming
<1> HIDE DEF t
<1>4. t \in Seq(Detection!Bytes) /\ Len(t) = k /\ \A i \in 1 .. k : t[i] = Incoming[i]
  BY <1>2 DEF t
<1>5. Len(buf) \in Nat
  OBVIOUS
<1>6. /\ Len(buf \o t) = Len(buf) + Len(t)
      /\ \A i \in 1 .. Len(buf) : (buf \o t)[i] = buf[i]
      /\ \A i \in 1 .. Len(t) : (buf \o t)[Len(buf) + i] = t[i]
  <2>1. t \in Seq(Detection!Bytes)
    BY <1>4
  <2> QED
    BY <2>1
<1> QED
  BY <1>3, <1>4, <1>5, <1>6

LEMMA AcknowledgedIsHeard ==
  ASSUME DetectionInv, SettingInv, HeardInv, Wired',
         Detection!AnsweredAck \/ Detection!AckReceived \/ Detection!AckEnds
  PROVE  HeardInv'
<1>1. /\ Wired /\ EndsAre /\ buf \in Seq(Detection!Bytes) /\ faults \in Nat
      /\ UNCHANGED <<kind, expected, faults, next_id, discovered>>
  BY DetectionParts, DetectionCounts DEF Detection!AnsweredAck, Detection!AckReceived, Detection!AckEnds,
         Detection!setting, Detection!counts
<1>2. kind["active"] = "library" /\ pc["active"] # "over"
  <2>1. pc["active"] \in Detection!Probes \cup {"ack", "ack_end"}
    BY DEF Detection!AnsweredAck, Detection!AckReceived, Detection!AckEnds, Detection!FirstByte
  <2> QED
    BY <2>1, ActiveIsLibrary DEF Detection!Probes
<1>3. CASE Detection!AnsweredAck
  <2>1. /\ Shifted(1) /\ Detection!GoTo("active", "ack") /\ Incoming # <<>> /\ Head(Incoming) = "06" /\ buf' = <<"06">>
    BY <1>1, <1>3, ActiveSendsBytes DEF Detection!AnsweredAck, Detection!Take, Detection!FirstByte, Incoming
  <2>2. Incoming[1] = "06" /\ "06" \in Speech /\ Len(Incoming) >= 1 /\ Len(Incoming) \in Nat
    BY <1>1, <2>1, FirstIsSpoken, WiresAre
  <2>3. Len(buf') = 1
    BY <2>1
  <2>4. Placed' /\ pc'["active"] = "ack"
    BY <1>1, <1>2, <2>1, <2>2, <2>3, PlacedAt
  <2>5. ASSUME kind'["passive"] = "classpad_used"
        PROVE  \E m \in 0 .. 3 : m <= faults' /\ MarksLeft(Incoming', m)
    <3>1. 1 \in 1 .. Len(Incoming)
      BY <2>2
    <3>2. Marked(Incoming, 1)
      BY <1>1, <2>2, <2>5, <3>1 DEF HeardInv, OnTheWay
    <3>3. Len(Incoming') = Len(Incoming) - 1 /\ \A i \in 1 .. Len(Incoming') : Incoming'[i] = Incoming[i + 1]
      BY <2>1 DEF Shifted
    <3>4. ASSUME NEW m \in {3, 4, 5}, m + 1 <= Len(Incoming), Incoming[m + 1] # "d"
          PROVE  m <= Len(Incoming') /\ Incoming'[m] # "d"
      <4>1. m <= Len(Incoming') /\ m \in 1 .. Len(Incoming')
        BY <2>2, <3>3, <3>4
      <4> QED
        BY <3>3, <3>4, <4>1
    <3>5. /\ 3 + 1 <= Len(Incoming) /\ Incoming[3 + 1] # "d"
          /\ \E k \in {4, 5} : k + 1 <= Len(Incoming) /\ Incoming[k + 1] # "d"
      BY <3>2 DEF Marked
    <3>6. MarksLeft(Incoming', 0)
      BY <3>4, <3>5 DEF MarksLeft
    <3> QED
      BY <1>1, <3>6
  <2>6. Distinct'
    BY <2>4, <2>5 DEF Distinct
  <2> QED
    BY <1>1, <1>2, <2>1, <2>4, <2>6, GoingOnIsHeard
<1>4. CASE Detection!AckReceived
  <2>1. /\ Shifted(3) /\ buf' = buf \o SubSeq(wire["active"], 1, 3) /\ pc["active"] = "ack"
        /\ Detection!GoTo("active", IF buf'[4] = "01" THEN "info" ELSE "ack_end")
    BY <1>1, <1>4, ActiveSendsBytes DEF Detection!AckReceived, Detection!Take
  <2>2. "06" \in Speech /\ Len(buf) = 1 /\ 3 <= Len(Incoming)
    BY <2>1 DEF HeardInv, Placed, Shifted
  <2>3. Len(buf') = 4 /\ \A i \in 1 .. 3 : buf'[i + 1] = Incoming[i]
    BY <1>1, <2>1, <2>2, BytesAreKept
  <2>4. buf'[4] = Incoming[3] /\ Incoming[3] \in Speech
    <3>1. 3 \in 1 .. 3 /\ 3 + 1 = 4 /\ 3 \in 1 .. Len(Incoming)
      BY <1>1, <2>2, WiresAre
    <3> QED
      BY <2>3, <3>1 DEF HeardInv, OnTheWay, Within
  <2>5. PICK p \in {"info", "ack_end"} : Detection!GoTo("active", p) /\ (p = "info" => buf'[4] = "01")
    BY <2>1
  <2>6. Placed' /\ pc'["active"] = p
    BY <1>1, <1>2, <2>2, <2>3, <2>4, <2>5, PlacedAt
  <2>7. ASSUME kind'["passive"] = "classpad_used", faults' <= 3
        PROVE  \E j \in 2 .. 4 : buf'[j] # "d"
    <3>1. PICK j \in 1 .. 3 : Incoming[j] # "d"
      <4>1. PICK m \in 0 .. 3 : MarksLeft(Incoming, m)
        BY <1>1, <2>1, <2>7 DEF HeardInv, Distinct
      <4>2. CASE m < 3
        <5>1. 3 - m \in 1 .. 3 /\ Incoming[3 - m] # "d"
          BY <4>1, <4>2 DEF MarksLeft
        <5> QED
          BY <5>1
      <4>3. CASE m = 3
        <5>1. \E k \in {1, 2} : Incoming[k] # "d"
          BY <4>1, <4>3 DEF MarksLeft
        <5> QED
          BY <5>1
      <4> QED
        BY <4>2, <4>3
    <3>2. j + 1 \in 2 .. 4 /\ buf'[j + 1] # "d"
      BY <2>3, <3>1
    <3> QED
      BY <3>2
  <2>8. Distinct'
    BY <2>6, <2>7 DEF Distinct
  <2> QED
    BY <1>1, <1>2, <2>1, <2>5, <2>6, <2>8, GoingOnIsHeard
<1>5. CASE Detection!AckEnds
  <2>1. /\ Shifted(2) /\ buf' = buf \o SubSeq(wire["active"], 1, 2) /\ pc["active"] = "ack_end"
    BY <1>1, <1>5, ActiveSendsBytes DEF Detection!AckEnds, Detection!Take
  <2>2. CASE Detection!IsAck(buf')
    <3>1. Detection!Found("active", "SEVEN") /\ buf' = Detection!Ack
      BY <1>5, <2>2 DEF Detection!AckEnds, Detection!IsAck
    <3>2. "06" \in Speech /\ Len(buf) = 4 /\ 2 <= Len(Incoming)
      BY <2>1 DEF HeardInv, Placed, Shifted
    <3>3. \A j \in 2 .. 4 : buf[j] = "d"
      <4>1. \A j \in 2 .. 4 : Detection!Ack[j] = "d"
        BY DEF Detection!Ack
      <4>2. \A i \in 1 .. 4 : buf'[i] = buf[i]
        BY <1>1, <2>1, <3>2, BytesAreKept
      <4> QED
        BY <3>1, <4>1, <4>2
    <3>4. kind["passive"] = "classpad_used" => faults > 3
      BY <1>1, <2>1, <3>3 DEF HeardInv, Distinct
    <3>5. result'["passive"] = result["passive"] /\ protocol'["passive"] = protocol["passive"]
      BY <1>1, <3>1, FindingLeavesPassive
    <3>6. faults' <= 3 /\ protocol'["active"] = "SEVEN" => Right'
      BY <1>1, <3>2, <3>4, <3>5, SaidBy DEF Right
    <3> QED
      BY <1>1, <2>1, <3>1, <3>6, FindingIsHeard
  <2>3. CASE ~Detection!IsAck(buf')
    <3>1. Detection!GoTo("active", "unknown")
      BY <1>5, <2>3 DEF Detection!AckEnds
    <3> QED
      BY <1>1, <1>2, <2>1, <3>1, GoingElsewhereIsHeard
  <2> QED
    BY <2>2, <2>3
<1> QED
  BY <1>3, <1>4, <1>5

LEMMA InformationIsHeard ==
  ASSUME DetectionInv, SettingInv, HeardInv, Wired', Detection!Information
  PROVE  HeardInv'
<1>1. /\ Wired /\ EndsAre /\ UNCHANGED <<kind, expected, faults, next_id, asked>> /\ pc["active"] = "info"
      /\ discovered' = (result'["active"] = "OK")
  BY DetectionParts DEF Detection!Information, Detection!setting
<1>2. next_id = 0 /\ kind["passive"] = "classpad_used" /\ expected = 0
  BY <1>1, SaidBy DEF HeardInv, Placed
<1>3. CASE Detection!Found("active", Detection!IfCas300(asked["active"])) /\ \E bs : Detection!TakeAndSend("active", 1, bs)
  <2>1. Shifted(1)
    BY <1>1, <1>3, ActiveSendsBytes
  <2>2. ASSUME Detection!IfCas300(asked["active"]) # "none", protocol'["active"] = Detection!IfCas300(asked["active"])
        PROVE  Right'
    <3>1. result'["active"] = "OK" /\ protocol'["active"] = "CAS300"
      BY <1>1, <1>3, <2>2, DetectionCounts DEF Detection!Found, Detection!Over, Detection!IfCas300, SettingInv
    <3>2. discovered' = TRUE
      BY <1>1, <3>1, Zenon
    <3> QED
      BY <1>1, <1>2, <3>1, <3>2 DEF Right
  <2> QED
    BY <1>1, <1>3, <2>1, <2>2, FindingIsHeard
<1>4. CASE \E n \in {0, 1} : Shifted(n) /\ \E r \in {"CORRUPT", "UNKNOWN", "TIMEOUT"} : Detection!Fails("active", r)
  BY <1>1, <1>4, FailureIsHeard
<1>5. \/ Detection!Found("active", Detection!IfCas300(asked["active"])) /\ \E bs : Detection!TakeAndSend("active", 1, bs)
      \/ /\ wire' = wire \/ Detection!Take("active", 1)
         /\ \E r \in {"CORRUPT", "UNKNOWN", "TIMEOUT"} : Detection!Fails("active", r)
  BY DEF Detection!Information
<1>6. /\ wire' = wire => Shifted(0)
      /\ Detection!Take("active", 1) => Shifted(1)
  BY <1>1, UnchangedIsShifted, ActiveSendsBytes DEF Detection!Take
<1> QED
  BY <1>3, <1>4, <1>5, <1>6

LEMMA EstablishedIsHeard ==
  ASSUME DetectionInv, SettingInv, HeardInv, Wired', Detection!AnsweredEstablished
  PROVE  HeardInv'
<1>1. /\ Wired /\ EndsAre /\ UNCHANGED <<kind, expected, faults, next_id>> /\ Incoming # <<>> /\ Head(Incoming) = "13"
      /\ Shifted(1) /\ Detection!Found("active", Detection!IfEstablished(asked["active"]))
  BY DetectionParts, ActiveSendsBytes DEF Detection!AnsweredEstablished, Detection!setting, Detection!counts, Detection!Take,
     Detection!FirstByte, Incoming
<1>2. "13" \in Speech
  BY <1>1, FirstIsSpoken
<1>3. result'["passive"] = result["passive"] /\ protocol'["passive"] = protocol["passive"]
  BY <1>1, FindingLeavesPassive
<1>4. Detection!IfEstablished(asked["active"]) \in Detection!CasiolinkVariants \cup {"none"}
  BY DEF Detection!IfEstablished, Detection!CasiolinkVariants
<1>5. \A p \in Detection!CasiolinkVariants : p # "SEVEN"
  BY DEF Detection!CasiolinkVariants
<1>6. protocol'["active"] \in Detection!CasiolinkVariants => Right'
  BY <1>1, <1>2, <1>3, <1>5, SaidBy DEF Right
<1> QED
  BY <1>1, <1>4, <1>6, FindingIsHeard

LEMMA RefusalIsHeard ==
  ASSUME DetectionInv, SettingInv, HeardInv, AskedInv, Wired',
         Detection!AnsweredNak \/ Detection!NakReceived \/ Detection!NakEnds
  PROVE  HeardInv'
<1>1. /\ Wired /\ EndsAre /\ buf \in Seq(Detection!Bytes) /\ faults \in Nat /\ Len(Incoming) \in Nat
      /\ UNCHANGED <<kind, expected, faults, next_id, discovered>>
  BY DetectionParts, DetectionCounts, WiresAre DEF Detection!AnsweredNak, Detection!NakReceived, Detection!NakEnds,
         Detection!setting, Detection!counts
<1>2. kind["active"] = "library" /\ pc["active"] # "over"
  <2>1. pc["active"] \in Detection!Probes \cup {"nak", "nak_end"}
    BY DEF Detection!AnsweredNak, Detection!NakReceived, Detection!NakEnds, Detection!FirstByte
  <2> QED
    BY <2>1, ActiveIsLibrary DEF Detection!Probes
<1>3. CASE Detection!AnsweredNak
  <2>1. /\ Shifted(1) /\ Detection!GoTo("active", "nak") /\ Incoming # <<>> /\ Head(Incoming) = "15" /\ buf' = <<"15">>
    BY <1>1, <1>3, ActiveSendsBytes DEF Detection!AnsweredNak, Detection!Take, Detection!FirstByte, Incoming
  <2>2. Incoming[1] = "15" /\ "15" \in Speech /\ Len(Incoming) >= 1
    BY <1>1, <2>1, FirstIsSpoken
  <2>3. Len(buf') = 1
    BY <2>1
  <2>4. Placed' /\ pc'["active"] = "nak"
    BY <1>1, <1>2, <2>1, <2>2, <2>3, PlacedAt
  <2>5. ASSUME kind'["passive"] = "seven"
        PROVE  Len(Incoming') + faults' >= 6
    <3>1. 1 \in 1 .. Len(Incoming)
      BY <1>1, <2>2
    <3>2. Len(Incoming) >= 1 + 5
      BY <1>1, <2>2, <2>5, <3>1 DEF HeardInv, OnTheWay
    <3>3. faults # 0
      <4>1. pc["active"] \in Detection!Probes
        BY <1>3 DEF Detection!AnsweredNak, Detection!FirstByte
      <4> QED
        BY <1>1, <2>1, <2>2, <2>5, <4>1 DEF AskedInv
    <3>4. Len(Incoming') = Len(Incoming) - 1
      BY <2>1 DEF Shifted
    <3> QED
      BY <1>1, <3>2, <3>3, <3>4
  <2>6. Distinct'
    BY <2>4, <2>5 DEF Distinct
  <2> QED
    BY <1>1, <1>2, <2>1, <2>4, <2>6, GoingOnIsHeard
<1>4. CASE Detection!NakReceived
  <2>1. /\ Shifted(2) /\ buf' = buf \o SubSeq(wire["active"], 1, 2) /\ pc["active"] = "nak"
        /\ Detection!GoTo("active", "nak_end")
    BY <1>1, <1>4, ActiveSendsBytes DEF Detection!NakReceived, Detection!Take
  <2>2. "15" \in Speech /\ Len(buf) = 1 /\ 2 <= Len(Incoming)
    BY <2>1 DEF HeardInv, Placed, Shifted
  <2>3. Len(buf') = 3
    <3>1. Len(buf') = Len(buf) + 2
      BY <1>1, <2>1, <2>2, BytesAreKept
    <3> QED
      BY <2>2, <3>1
  <2>4. Placed' /\ pc'["active"] = "nak_end"
    BY <1>1, <1>2, <2>1, <2>2, <2>3, PlacedAt
  <2>5. ASSUME kind'["passive"] = "seven"
        PROVE  Len(Incoming') + faults' >= 4
    <3>1. Len(Incoming) + faults >= 6
      BY <1>1, <2>1, <2>5 DEF HeardInv, Distinct
    <3> QED
      BY <1>1, <2>1, <3>1 DEF Shifted
  <2>6. Distinct'
    BY <2>4, <2>5 DEF Distinct
  <2> QED
    BY <1>1, <1>2, <2>1, <2>4, <2>6, GoingOnIsHeard
<1>5. CASE Detection!NakEnds
  <2>1. /\ Shifted(3) /\ buf' = buf \o SubSeq(wire["active"], 1, 3) /\ pc["active"] = "nak_end"
    BY <1>1, <1>5, ActiveSendsBytes DEF Detection!NakEnds, Detection!Take
  <2>2. CASE buf' = Detection!Nak
    <3>1. Detection!Found("active", "SEVEN")
      BY <1>5, <2>2 DEF Detection!NakEnds
    <3>2. Len(buf) = 3 /\ 3 <= Len(Incoming)
      BY <2>1 DEF HeardInv, Placed, Shifted
    <3>3. "c" \in Speech
      <4>1. Detection!Nak[6] = "c"
        BY DEF Detection!Nak
      <4>2. \A i \in 1 .. 3 : buf'[3 + i] = Incoming[i]
        BY <1>1, <2>1, <3>2, BytesAreKept
      <4>3. 3 \in 1 .. 3 /\ 3 + 3 = 6 /\ 3 \in 1 .. Len(Incoming)
        BY <1>1, <3>2
      <4>4. Incoming[3] \in Speech
        BY <4>3 DEF HeardInv, OnTheWay, Within
      <4> QED
        BY <2>2, <4>1, <4>2, <4>3, <4>4
    <3>4. protocol'["active"] = "SEVEN" => Right'
      BY <1>1, <3>3, SaidBy DEF Right
    <3> QED
      BY <1>1, <2>1, <3>1, <3>4, FindingIsHeard
  <2>3. CASE buf' # Detection!Nak
    <3>1. Detection!GoTo("active", "unknown")
      BY <1>5, <2>3 DEF Detection!NakEnds
    <3> QED
      BY <1>1, <1>2, <2>1, <3>1, GoingElsewhereIsHeard
  <2> QED
    BY <2>2, <2>3
<1> QED
  BY <1>3, <1>4, <1>5

LEMMA OutOfOrderIsHeard ==
  ASSUME DetectionInv, SettingInv, HeardInv, Wired', Detection!OutOfOrder
  PROVE  HeardInv'
<1>1. /\ Wired /\ EndsAre /\ UNCHANGED <<kind, expected, faults, discovered, asked>> /\ pc["active"] = "nak_end"
      /\ Len(Incoming) \in Nat /\ faults \in Nat /\ expected \in 0 .. 1
  BY DetectionParts, DetectionCounts, WiresAre DEF Detection!OutOfOrder, Detection!setting
<1>2. CASE Incoming # <<>>
  <2>1. Detection!Fails("active", "TIMEOUT") /\ wire' = [wire EXCEPT !["active"] = <<>>]
    BY <1>2 DEF Detection!OutOfOrder, Incoming
  <2>2. Incoming' = <<>>
    BY <1>1, <2>1, DetectionCounts DEF Wired, Incoming
  <2>3. Shifted(Len(Incoming))
    BY <1>1, <2>2 DEF Shifted
  <2> QED
    BY <1>1, <2>1, <2>3, FailureIsHeard
<1>3. CASE Incoming = <<>>
  <2>1. Shifted(0) /\ Len(Incoming) = 0
    BY <1>1, <1>3, UnchangedIsShifted DEF Detection!OutOfOrder, Incoming
  <2>2. CASE SubSeq(buf, 2, 3) = <<"d", "d">>
    <3>1. Detection!Found("active", Detection!IfCas300(asked["active"])) /\ next_id' = expected
      BY <1>3, <2>2 DEF Detection!OutOfOrder, Incoming
    <3>2. "15" \in Speech /\ discovered = FALSE /\ (kind["passive"] = "seven" => faults > 3)
      BY <1>1, <2>1 DEF HeardInv, Placed, Distinct
    <3>3. Detection!IfCas300(asked["active"]) \in {"CAS300", "none"}
      BY DEF Detection!IfCas300
    <3>4. faults' <= 3 /\ protocol'["active"] = "CAS300" => Right'
      BY <1>1, <3>1, <3>2, SaidBy DEF Right
    <3> QED
      BY <1>1, <2>1, <3>1, <3>3, <3>4, FindingIsHeard
  <2>3. CASE SubSeq(buf, 2, 3) # <<"d", "d">>
    <3>1. Detection!Fails("active", "UNKNOWN")
      BY <1>3, <2>3 DEF Detection!OutOfOrder, Incoming
    <3> QED
      BY <1>1, <2>1, <3>1, FailureIsHeard
  <2> QED
    BY <2>2, <2>3
<1> QED
  BY <1>2, <1>3

(* Answers that are whole.                                                  *)
Replying(bs) ==
  /\ bs \in Seq(Detection!Bytes) /\ Within(bs, Speech)
  /\ kind["passive"] = "seven" => \A i \in 1 .. Len(bs) : bs[i] = "15" => Len(bs) >= i + 5
  /\ kind["passive"] = "classpad_used" =>
       \A i \in 1 .. Len(bs) : bs[i] = "06" => Marked(bs, i)

LEMMA MarksStay ==
  ASSUME NEW s, NEW t, Len(s) \in Nat, Len(t) \in Nat, Len(s) <= Len(t), \A j \in 1 .. Len(s) : t[j] = s[j],
         NEW m \in 0 .. 3, MarksLeft(s, m)
  PROVE  MarksLeft(t, m)
<1>1. m < 3 => 3 - m <= Len(t) /\ t[3 - m] # "d"
  <2>1. m < 3 => 3 - m <= Len(s) /\ 3 - m \in 1 .. Len(s) /\ s[3 - m] # "d"
    BY DEF MarksLeft
  <2> QED
    BY <2>1
<1>2. PICK k \in {4 - m, 5 - m} : k <= Len(s) /\ s[k] # "d"
  BY DEF MarksLeft
<1>3. k \in 1 .. Len(s) /\ k <= Len(t)
  BY <1>2
<1> QED
  BY <1>1, <1>2, <1>3 DEF MarksLeft

LEMMA AnswerIsHeard ==
  ASSUME Wired, faults \in Nat, HeardInv, NEW bs, Replying(bs), UNCHANGED <<kind, expected, faults, pc, result, protocol, buf, next_id, discovered>>,
         Incoming' = Incoming \/ Incoming' = Incoming \o bs
  PROVE  HeardInv'
<1>1. Speech' = Speech /\ Right' = Right /\ Placed' = Placed
  <2>1. Speech' = Speech
    BY SpeechStays
  <2>2. Right' = Right
    BY DEF Right
  <2> QED
    BY <2>1, <2>2 DEF Placed
<1>2. CASE Incoming' = Incoming
  <2>1. OnTheWay' = OnTheWay /\ Distinct' = Distinct
    BY <1>1, <1>2 DEF OnTheWay, Distinct, Within
  <2> QED
    BY <1>1, <2>1 DEF HeardInv
<1>3. CASE Incoming' = Incoming \o bs
  <2> DEFINE s == Incoming
             t == Incoming'
             k == Len(s)
  <2>1. /\ k \in Nat /\ Len(bs) \in Nat /\ Len(t) = k + Len(bs)
        /\ \A i \in 1 .. k : t[i] = s[i]
        /\ \A i \in 1 .. Len(bs) : t[k + i] = bs[i]
        /\ \A i \in 1 .. Len(t) : i > k => i - k \in 1 .. Len(bs) /\ t[i] = bs[i - k]
    <3>1. s \in Seq(Detection!Bytes) /\ bs \in Seq(Detection!Bytes)
      BY WiresAre DEF Replying
    <3>2. k \in Nat /\ Len(bs) \in Nat
      BY <3>1
    <3>3. /\ Len(s \o bs) = k + Len(bs)
          /\ \A i \in 1 .. k : (s \o bs)[i] = s[i]
          /\ \A i \in 1 .. Len(bs) : (s \o bs)[k + i] = bs[i]
          /\ \A i \in 1 .. Len(s \o bs) : i > k => i - k \in 1 .. Len(bs) /\ (s \o bs)[i] = bs[i - k]
      BY <3>1, JoinedTo
    <3> QED
      BY <1>3, <3>2, <3>3
  <2>2. /\ \A i \in 1 .. k : s[i] \in Speech
        /\ \A i \in 1 .. Len(bs) : bs[i] \in Speech
        /\ kind["passive"] = "seven" => \A i \in 1 .. k : s[i] = "15" => k >= i + 5
        /\ kind["passive"] = "classpad_used" =>
             \A i \in 1 .. k : s[i] = "06" => Marked(s, i)
    BY DEF HeardInv, OnTheWay, Within, Replying
  <2>3. /\ kind["passive"] = "seven" => \A i \in 1 .. Len(bs) : bs[i] = "15" => Len(bs) >= i + 5
        /\ kind["passive"] = "classpad_used" =>
             \A i \in 1 .. Len(bs) : bs[i] = "06" => Marked(bs, i)
    BY DEF Replying
  <2>4. Distinct'
    <3>1. /\ kind["passive"] = "seven" =>
               /\ pc["active"] = "nak" => k + faults >= 6
               /\ pc["active"] = "nak_end" => k + faults >= 4
          /\ kind["passive"] = "classpad_used" /\ faults <= 3 =>
               /\ pc["active"] = "ack" => \E m \in 0 .. 3 : m <= faults /\ MarksLeft(s, m)
               /\ pc["active"] = "ack_end" => \E j \in 2 .. 4 : buf[j] # "d"
      BY DEF HeardInv, Distinct
    <3>2. ASSUME kind["passive"] = "seven"
          PROVE  /\ pc["active"] = "nak" => Len(t) + faults >= 6
                 /\ pc["active"] = "nak_end" => Len(t) + faults >= 4
      <4>1. /\ k + faults >= 6 => Len(t) + faults >= 6
            /\ k + faults >= 4 => Len(t) + faults >= 4
        BY <2>1
      <4> QED
        BY <2>1, <3>1, <3>2
    <3>3. ASSUME kind["passive"] = "classpad_used", faults <= 3, pc["active"] = "ack"
          PROVE  \E m \in 0 .. 3 : m <= faults /\ MarksLeft(t, m)
      <4>1. PICK m \in 0 .. 3 : m <= faults /\ MarksLeft(s, m)
        BY <3>1, <3>3
      <4>2. k \in Nat /\ Len(t) \in Nat /\ k <= Len(t)
        BY <2>1
      <4>3. MarksLeft(t, m)
        BY <2>1, <4>1, <4>2, MarksStay
      <4> QED
        BY <4>1, <4>3
    <3> QED
      BY <3>1, <3>2, <3>3 DEF Distinct
  <2>5. \A i \in 1 .. Len(t) : i \in 1 .. k \/ (i > k /\ i - k \in 1 .. Len(bs) /\ t[i] = bs[i - k])
    BY <2>1
  <2>6. \A i \in 1 .. Len(t) : t[i] \in Speech
    BY <2>1, <2>2, <2>5
  <2>7. ASSUME kind["passive"] = "seven", NEW i \in 1 .. Len(t), t[i] = "15"
        PROVE  Len(t) >= i + 5
    BY <2>1, <2>2, <2>3, <2>5, <2>7
  <2>8. ASSUME kind["passive"] = "classpad_used", NEW i \in 1 .. Len(t), t[i] = "06"
        PROVE  Marked(t, i)
    <3>a. i \in Nat /\ k \in Nat /\ Len(t) \in Nat /\ Len(bs) \in Nat
      BY <2>1
    <3>1. CASE i \in 1 .. k
      <4>1. Marked(s, i)
        BY <2>1, <2>2, <2>8, <3>1
      <4>2. ASSUME NEW j \in 1 .. k, j > i PROVE (j - i) + i \in 1 .. Len(t) /\ t[(j - i) + i] = s[j]
        <5>1. (j - i) + i = j /\ j \in 1 .. Len(t)
          BY <2>1, <3>a
        <5> QED
          BY <2>1, <5>1
      <4> QED
        BY <3>a, <4>1, <4>2, MarksCarried
    <3>2. CASE i > k /\ i - k \in 1 .. Len(bs) /\ t[i] = bs[i - k]
      <4>1. Marked(bs, i - k)
        BY <2>3, <2>8, <3>2
      <4>2. ASSUME NEW j \in 1 .. Len(bs), j > i - k
            PROVE  (j - (i - k)) + i \in 1 .. Len(t) /\ t[(j - (i - k)) + i] = bs[j]
        <5>1. (j - (i - k)) + i = k + j /\ k + j \in 1 .. Len(t)
          BY <2>1, <3>a
        <5> QED
          BY <2>1, <5>1
      <4>3. i - k \in Nat
        BY <3>2
      <4> QED
        BY <3>a, <4>1, <4>2, <4>3, MarksCarried
    <3> QED
      BY <2>5, <3>1, <3>2
  <2>9. OnTheWay'
    BY <1>1, <2>6, <2>7, <2>8 DEF OnTheWay, Within
  <2> QED
    BY <1>1, <2>4, <2>9 DEF HeardInv
<1> QED
  BY <1>2, <1>3

LEMMA FirstAlone ==
  ASSUME NEW S, NEW s \in Seq(S), Len(s) >= 1
  PROVE  SubSeq(s, 1, 1) = <<s[1]>>
<1> DEFINE t == SubSeq(s, 1, 1)
<1>1. t \in Seq(S) /\ Len(t) = 1 /\ t[1] = s[1]
  OBVIOUS
<1> HIDE DEF t
<1>2. t = [i \in 1 .. Len(t) |-> t[i]]
  BY <1>1
<1>3. t = [i \in 1 .. 1 |-> s[1]]
  <2>1. t = [i \in 1 .. 1 |-> t[i]]
    BY <1>1, <1>2
  <2>2. \A i \in 1 .. 1 : t[i] = s[1]
    BY <1>1
  <2> QED
    BY <2>1, <2>2
<1>4. <<s[1]>> = [i \in 1 .. 1 |-> s[1]]
  OBVIOUS
<1> QED
  BY <1>3, <1>4 DEF t

LEMMA BeginsWith16 ==
  ASSUME Wired, Outgoing # <<>>
  PROVE  Detection!Starts("passive", <<"16">>) <=> Outgoing[1] = "16"
<1>1. Outgoing \in Seq(Detection!Bytes) /\ Len(Outgoing) >= 1 /\ Len(<<"16">>) = 1
  BY WiresAre
<1>2. SubSeq(<<"16">>, 1, 1) = <<"16">> /\ SubSeq(Outgoing, 1, 1) = <<Outgoing[1]>>
  <2>1. SubSeq(Outgoing, 1, 1) = <<Outgoing[1]>>
    BY <1>1, FirstAlone
  <2> DEFINE u == <<"16">>
  <2>2. u \in Seq(Detection!Bytes) /\ u[1] = "16" /\ Len(u) >= 1
    BY BytesOf
  <2> HIDE DEF u
  <2>3. SubSeq(u, 1, 1) = <<u[1]>>
    BY <2>2, FirstAlone
  <2> QED
    BY <2>1, <2>2, <2>3 DEF u
<1>3. Detection!Starts("passive", <<"16">>) <=> SubSeq(<<"16">>, 1, 1) = SubSeq(Outgoing, 1, 1)
  BY <1>1 DEF Detection!Starts, Detection!IsPrefix, Outgoing
<1>4. <<"16">> = <<Outgoing[1]>> <=> Outgoing[1] = "16"
  OBVIOUS
<1> QED
  BY <1>2, <1>3, <1>4

LEMMA PrefixFirst ==
  ASSUME NEW S, NEW s \in Seq(S), NEW t \in Seq(S), Len(s) >= 1, Len(s) <= Len(t),
         SubSeq(s, 1, Len(s)) = SubSeq(t, 1, Len(s))
  PROVE  t[1] = s[1]
<1>1. SubSeq(s, 1, Len(s))[1] = s[1] /\ SubSeq(t, 1, Len(s))[1] = t[1]
  OBVIOUS
<1> QED
  BY <1>1

LEMMA Discovery ==
  /\ Detection!HalfDiscover \o Detection!RestOfDiscover \in Seq(Detection!Bytes)
  /\ Len(Detection!HalfDiscover \o Detection!RestOfDiscover) = 13
  /\ (Detection!HalfDiscover \o Detection!RestOfDiscover)[1] = "01"
  /\ \A i \in 2 .. 13 : (Detection!HalfDiscover \o Detection!RestOfDiscover)[i] \in {"d", "c"}
<1> DEFINE s == Detection!HalfDiscover
           t == Detection!RestOfDiscover
<1>1. /\ s \in Seq(Detection!Bytes) /\ t \in Seq(Detection!Bytes)
      /\ Len(s) = 6 /\ Len(t) = 7 /\ s[1] = "01" /\ \A i \in 2 .. 6 : s[i] \in {"d", "c"}
  BY BytesOf DEF Detection!HalfDiscover, Detection!RestOfDiscover
<1>2. \A i \in 1 .. 7 : t[i] \in {"d", "c"}
  BY DEF Detection!RestOfDiscover
<1> HIDE DEF s, t
<1>3. /\ s \o t \in Seq(Detection!Bytes) /\ Len(s \o t) = 13
      /\ \A i \in 1 .. 6 : (s \o t)[i] = s[i]
      /\ \A i \in 7 .. 13 : i - 6 \in 1 .. 7 /\ (s \o t)[i] = t[i - 6]
  <2>1. s \in Seq(Detection!Bytes) /\ t \in Seq(Detection!Bytes)
    BY <1>1
  <2>2. /\ s \o t \in Seq(Detection!Bytes) /\ Len(s \o t) = Len(s) + Len(t)
        /\ \A i \in 1 .. Len(s) + Len(t) : (s \o t)[i] = IF i <= Len(s) THEN s[i] ELSE t[i - Len(s)]
    BY <2>1, ConcatAt
  <2>3. /\ s \o t \in Seq(Detection!Bytes) /\ Len(s \o t) = 13
        /\ \A i \in 1 .. 13 : (s \o t)[i] = IF i <= 6 THEN s[i] ELSE t[i - 6]
    BY <1>1, <2>2
  <2>4. ASSUME NEW i \in 1 .. 6 PROVE i \in 1 .. 13 /\ i <= 6
    OBVIOUS
  <2>5. ASSUME NEW i \in 7 .. 13 PROVE i \in 1 .. 13 /\ ~(i <= 6) /\ i - 6 \in 1 .. 7
    OBVIOUS
  <2> QED
    BY <2>3, <2>4, <2>5
<1>4. \A i \in 2 .. 13 : (i \in 2 .. 6 /\ i \in 1 .. 6) \/ i \in 7 .. 13
  OBVIOUS
<1>5. ASSUME NEW i \in 2 .. 13 PROVE (s \o t)[i] \in {"d", "c"}
  BY <1>1, <1>2, <1>3, <1>4
<1>6. (s \o t)[1] = "01"
  BY <1>1, <1>3
<1> QED
  BY <1>3, <1>5, <1>6 DEF s, t

LEMMA Beginnings ==
  ASSUME Wired
  PROVE  /\ Detection!Starts("passive", Detection!Check) => Len(Outgoing) >= 6 /\ Outgoing[1] = "05"
         /\ Detection!Starts("passive", Detection!HalfDiscover) => Len(Outgoing) >= 6 /\ Outgoing[1] = "01"
         /\ Detection!Starts("passive", Detection!HalfDiscover \o Detection!RestOfDiscover) =>
              Len(Outgoing) >= 13 /\ Outgoing[1] = "01"
<1>1. Outgoing \in Seq(Detection!Bytes)
  BY WiresAre
<1>2. ASSUME NEW s \in Seq(Detection!Bytes), Len(s) >= 1, Detection!Starts("passive", s)
      PROVE  Len(Outgoing) >= Len(s) /\ Outgoing[1] = s[1]
  <2>1. Len(s) <= Len(Outgoing) /\ SubSeq(s, 1, Len(s)) = SubSeq(Outgoing, 1, Len(s))
    BY <1>2 DEF Detection!Starts, Detection!IsPrefix, Outgoing
  <2> QED
    BY <1>1, <1>2, <2>1, PrefixFirst
<1>3. /\ Len(Detection!Check) = 6 /\ Detection!Check[1] = "05"
      /\ Len(Detection!HalfDiscover) = 6 /\ Detection!HalfDiscover[1] = "01"
  BY DEF Detection!Check, Detection!HalfDiscover
<1>4. /\ Detection!Starts("passive", Detection!Check) => Len(Outgoing) >= 6 /\ Outgoing[1] = "05"
      /\ Detection!Starts("passive", Detection!HalfDiscover) => Len(Outgoing) >= 6 /\ Outgoing[1] = "01"
  <2> DEFINE s == Detection!Check
             t == Detection!HalfDiscover
  <2>1. s \in Seq(Detection!Bytes) /\ t \in Seq(Detection!Bytes) /\ Len(s) = 6 /\ s[1] = "05" /\ Len(t) = 6 /\ t[1] = "01"
    BY <1>3, BytesOf
  <2> HIDE DEF s, t
  <2>2. Len(s) >= 1 /\ Len(t) >= 1
    BY <2>1
  <2>3. /\ Detection!Starts("passive", s) => Len(Outgoing) >= Len(s) /\ Outgoing[1] = s[1]
        /\ Detection!Starts("passive", t) => Len(Outgoing) >= Len(t) /\ Outgoing[1] = t[1]
    BY <1>2, <2>1, <2>2
  <2> QED
    BY <2>1, <2>3 DEF s, t
<1>5. Detection!Starts("passive", Detection!HalfDiscover \o Detection!RestOfDiscover) =>
              Len(Outgoing) >= 13 /\ Outgoing[1] = "01"
  <2> DEFINE s == Detection!HalfDiscover \o Detection!RestOfDiscover
  <2>1. s \in Seq(Detection!Bytes) /\ Len(s) = 13 /\ s[1] = "01"
    BY Discovery
  <2> HIDE DEF s
  <2>a. s \in Seq(Detection!Bytes) /\ Len(s) >= 1
    BY <2>1
  <2>2. Detection!Starts("passive", s) => Len(Outgoing) >= Len(s) /\ Outgoing[1] = s[1]
    BY <1>2, <2>a
  <2> QED
    BY <2>1, <2>2 DEF s
<1> QED
  BY <1>4, <1>5

(* What a calculator answers, and how many bytes it takes.                  *)
FoundAnswer == Detection!Cas300Ack \o <<"01", "info">>
OtherAnswer == Detection!Cas300Ack \o <<"18", "d", "end">>

LEMMA AnswersAre ==
  ASSUME Wired, Outgoing # <<>>, kind["passive"] # "library", NEW a \in Detection!Answers
  PROVE  \/ a = <<1, <<>>>>
         \/ kind["passive"] = "seven" /\ Len(Outgoing) >= 6 /\ Outgoing[1] \in {"01", "05"}
              /\ \E bs \in {Detection!Ack, Detection!Nak, <<>>} : a = <<6, bs>>
         \/ kind["passive"] \in {"cas", "classpad_new"} /\ Outgoing[1] = "16" /\ a = <<1, <<"13">>>>
         \/ kind["passive"] = "classpad_new" /\ Outgoing[1] = "16" /\ a = <<1, <<"00", "00">>>>
         \/ kind["passive"] = "classpad_new" /\ Outgoing[1] # "16" /\ a = <<1, <<"05">>>>
         \/ kind["passive"] = "classpad_used" /\ Len(Outgoing) >= 13 /\ Outgoing[1] = "01"
              /\ \E bs \in IF expected = 0 THEN {FoundAnswer, OtherAnswer} ELSE {<<"15", "d", "d">>} : a = <<13, bs>>
<1>1. /\ Detection!Starts("passive", Detection!Check) => Len(Outgoing) >= 6 /\ Outgoing[1] = "05"
      /\ Detection!Starts("passive", Detection!HalfDiscover) => Len(Outgoing) >= 6 /\ Outgoing[1] = "01"
      /\ Detection!Starts("passive", Detection!HalfDiscover \o Detection!RestOfDiscover) =>
           Len(Outgoing) >= 13 /\ Outgoing[1] = "01"
      /\ Detection!Starts("passive", <<"16">>) <=> Outgoing[1] = "16"
  BY Beginnings, BeginsWith16
<1>2. CASE kind["passive"] = "seven"
  <2>1. \/ Detection!Starts("passive", Detection!Check) /\ a = <<6, Detection!Ack>>
        \/ Detection!Starts("passive", Detection!HalfDiscover) /\ \E bs \in {Detection!Nak, <<>>} : a = <<6, bs>>
        \/ a = <<1, <<>>>>
    BY <1>2 DEF Detection!Answers
  <2> QED
    BY <1>1, <1>2, <2>1
<1>3. CASE kind["passive"] = "cas"
  <2>1. a = <<1, IF Detection!Starts("passive", <<"16">>) THEN <<"13">> ELSE <<>>>>
    BY <1>3 DEF Detection!Answers
  <2> QED
    BY <1>1, <1>3, <2>1
<1>4. CASE kind["passive"] = "classpad_new"
  <2>1. a \in IF Detection!Starts("passive", <<"16">>) THEN {<<1, <<"13">>>>, <<1, <<"00", "00">>>>}
              ELSE {<<1, <<"05">>>>, <<1, <<>>>>}
    BY <1>4 DEF Detection!Answers
  <2> QED
    BY <1>1, <1>4, <2>1
<1>5. CASE kind["passive"] = "classpad_used"
  <2>1. a \in IF Detection!Starts("passive", Detection!HalfDiscover \o Detection!RestOfDiscover)
              THEN {<<13, IF expected = 0 THEN FoundAnswer ELSE <<"15", "d", "d">>>>,
                    <<13, IF expected = 0 THEN OtherAnswer ELSE <<"15", "d", "d">>>>}
              ELSE {<<1, <<>>>>}
    BY <1>5 DEF Detection!Answers, FoundAnswer, OtherAnswer
  <2> QED
    BY <1>1, <1>5, <2>1
<1>6. CASE kind["passive"] \notin {"seven", "cas", "classpad_new", "classpad_used", "library"}
  BY <1>6 DEF Detection!Answers
<1> QED
  BY <1>2, <1>3, <1>4, <1>5, <1>6

LEMMA PacketsAreWhole ==
  /\ kind["passive"] # "library" => Replying(<<>>)
  /\ kind["passive"] = "seven" => Replying(Detection!Ack) /\ Replying(Detection!Nak)
  /\ kind["passive"] \in {"cas", "classpad_new"} => Replying(<<"13">>)
  /\ kind["passive"] = "classpad_new" => Replying(<<"00", "00">>) /\ Replying(<<"05">>) /\ Replying(<<"09">>)
  /\ kind["passive"] = "classpad_used" /\ expected = 0 => Replying(FoundAnswer) /\ Replying(OtherAnswer)
  /\ kind["passive"] = "classpad_used" /\ expected # 0 => Replying(<<"15", "d", "d">>)
<1>1. Replying(<<>>)
  BY BytesOf DEF Replying, Within
<1>2. ASSUME kind["passive"] = "seven" PROVE Replying(Detection!Ack) /\ Replying(Detection!Nak)
  <2>1. /\ Detection!Ack \in Seq(Detection!Bytes) /\ Detection!Nak \in Seq(Detection!Bytes)
        /\ Len(Detection!Ack) = 6 /\ Len(Detection!Nak) = 6
        /\ \A i \in 1 .. 6 : Detection!Ack[i] \in {"06", "d"}
        /\ Detection!Nak[1] = "15" /\ \A i \in 2 .. 6 : Detection!Nak[i] \in {"d", "c"}
    BY BytesOf DEF Detection!Ack, Detection!Nak
  <2>2. {"06", "15", "d", "c"} \subseteq Speech
    BY <1>2 DEF Speech
  <2>3. \A i \in 1 .. 6 : i = 1 \/ i \in 2 .. 6
    OBVIOUS
  <2>4. Replying(Detection!Ack)
    BY <1>2, <2>1, <2>2 DEF Replying, Within
  <2>5. \A i \in 1 .. 6 : Detection!Nak[i] = "15" => i = 1
    BY <2>1, <2>3
  <2>6. Within(Detection!Nak, Speech)
    BY <2>1, <2>2, <2>3 DEF Within
  <2> QED
    BY <1>2, <2>1, <2>4, <2>5, <2>6 DEF Replying
<1>3. ASSUME kind["passive"] \in {"cas", "classpad_new"} PROVE Replying(<<"13">>)
  <2>1. "13" \in Speech /\ <<"13">> \in Seq(Detection!Bytes)
    BY <1>3, BytesOf DEF Speech
  <2> QED
    BY <1>3, <2>1 DEF Replying, Within
<1>4. ASSUME kind["passive"] = "classpad_new"
      PROVE  Replying(<<"00", "00">>) /\ Replying(<<"05">>) /\ Replying(<<"09">>)
  <2>1. {"00", "05", "09"} \subseteq Speech /\ <<"05">> \in Seq(Detection!Bytes) /\ <<"09">> \in Seq(Detection!Bytes)
    BY <1>4, BytesOf DEF Speech
  <2> QED
    BY <1>4, <2>1, BytesOf DEF Replying, Within
<1>5. ASSUME kind["passive"] = "classpad_used", expected = 0 PROVE Replying(FoundAnswer) /\ Replying(OtherAnswer)
  <2>1. {"06", "01", "18", "info", "end", "d"} \subseteq Speech
    BY <1>5 DEF Speech
  <2>2. FoundAnswer \in Seq(Detection!Bytes) /\ OtherAnswer \in Seq(Detection!Bytes)
    BY BytesOf, Concatenated DEF FoundAnswer, OtherAnswer
  <2>3. /\ Len(FoundAnswer) = 5 /\ FoundAnswer[1] = "06" /\ FoundAnswer[2] = "d" /\ FoundAnswer[3] = "d"
        /\ FoundAnswer[4] = "01" /\ FoundAnswer[5] = "info"
    BY ThreeAndTwo DEF FoundAnswer, Detection!Cas300Ack
  <2>4. /\ Len(OtherAnswer) = 6 /\ OtherAnswer[1] = "06" /\ OtherAnswer[2] = "d" /\ OtherAnswer[3] = "d"
        /\ OtherAnswer[4] = "18" /\ OtherAnswer[5] = "d" /\ OtherAnswer[6] = "end"
    BY ThreeAndThree DEF OtherAnswer, Detection!Cas300Ack
  <2>5. \A i \in 1 .. 5 : i \in {1, 2, 3, 4, 5}
    OBVIOUS
  <2>6. \A i \in 1 .. 6 : i \in {1, 2, 3, 4, 5, 6}
    OBVIOUS
  <2>7. Within(FoundAnswer, Speech) /\ \A i \in 1 .. 5 : FoundAnswer[i] = "06" => i = 1
    BY <2>1, <2>3, <2>5 DEF Within
  <2>8. Within(OtherAnswer, Speech) /\ \A i \in 1 .. 6 : OtherAnswer[i] = "06" => i = 1
    BY <2>1, <2>4, <2>6 DEF Within
  <2>9. Marked(FoundAnswer, 1) /\ Marked(OtherAnswer, 1)
    <3>1. 1 + 3 = 4 /\ 1 + 4 = 5 /\ 1 + 5 = 6 /\ 5 \in {1 + 4, 1 + 5} /\ 6 \in {1 + 4, 1 + 5}
      OBVIOUS
    <3>2. Marked(FoundAnswer, 1)
      BY <2>3, <3>1 DEF Marked
    <3>3. Marked(OtherAnswer, 1)
      BY <2>4, <3>1 DEF Marked
    <3> QED
      BY <3>2, <3>3
  <2> QED
    BY <1>5, <2>2, <2>3, <2>4, <2>7, <2>8, <2>9 DEF Replying
<1>6. ASSUME kind["passive"] = "classpad_used", expected # 0 PROVE Replying(<<"15", "d", "d">>)
  <2>1. {"15", "d"} \subseteq Speech
    BY <1>6 DEF Speech
  <2> QED
    BY <1>6, <2>1, BytesOf DEF Replying, Within
<1> QED
  BY <1>1, <1>2, <1>3, <1>4, <1>5, <1>6

LEMMA CalculatorIsHeard ==
  ASSUME DetectionInv, SettingInv, HeardInv, Detection!CalculatorAnswers \/ Detection!Notice
  PROVE  HeardInv'
<1>1. /\ Wired /\ faults \in Nat /\ UNCHANGED <<kind, expected, faults, pc, result, protocol, buf, next_id, discovered>>
  BY DetectionParts, DetectionCounts DEF Detection!CalculatorAnswers, Detection!Notice, Detection!setting, Detection!counts,
     Detection!endVars, Detection!activeVars
<1>2. kind["passive"] # "library" /\ \E n \in Nat : \E bs : Replying(bs) /\ Detection!TakeAndSend("passive", n, bs)
  <2>1. CASE Detection!CalculatorAnswers
    <3>1. kind["passive"] # "library" /\ Outgoing # <<>>
      BY <2>1 DEF Detection!CalculatorAnswers, Detection!PassiveReacts, Outgoing
    <3>2. PICK a \in Detection!Answers : Detection!TakeAndSend("passive", a[1], a[2])
      BY <2>1 DEF Detection!CalculatorAnswers
    <3>3. PICK n \in {1, 6, 13} : \E bs : a = <<n, bs>> /\ Replying(bs)
      BY <1>1, <3>1, AnswersAre, PacketsAreWhole
    <3>4. PICK bs : a = <<n, bs>> /\ Replying(bs)
      BY <3>3
    <3>5. n \in Nat /\ a[1] = n /\ a[2] = bs
      BY <3>4
    <3> QED
      BY <3>1, <3>2, <3>4, <3>5
  <2>2. CASE Detection!Notice
    <3>1. kind["passive"] = "classpad_new" /\ Detection!TakeAndSend("passive", 0, <<"09">>) /\ 0 \in Nat
      BY <2>2 DEF Detection!Notice
    <3> QED
      BY <3>1, PacketsAreWhole
  <2> QED
    BY <2>1, <2>2
<1>3. PICK n \in Nat, bs \in {b \in Seq(Detection!Bytes) : Replying(b)} : Detection!TakeAndSend("passive", n, bs)
  BY <1>2 DEF Replying
<1>4. Incoming' = Incoming \/ Incoming' = Incoming \o bs
  <2>1. Incoming' \in Detection!Sent("active", bs)
    BY <1>1, <1>3, PassiveSendsBytes
  <2>2. Detection!Hears
    BY <1>2, CalculatorsHear
  <2> QED
    BY <2>1, <2>2, BytesAreSent, DetectionCounts DEF Incoming
<1> QED
  BY <1>1, <1>3, <1>4, AnswerIsHeard

(* Nothing has come from an end of the library that has not answered.       *)
LEMMA NothingIsHeard ==
  ASSUME Wired, HeardInv, Speech = {}
  PROVE  /\ Incoming = <<>> /\ Len(Incoming) = 0
         /\ pc["active"] \notin {"ack", "ack_end", "info", "nak", "nak_end"}
<1>1. Incoming \in Seq(Detection!Bytes) /\ Len(Incoming) \in Nat
  BY WiresAre
<1>2. Len(Incoming) = 0
  <2>1. SUFFICES ASSUME Len(Incoming) >= 1 PROVE FALSE
    BY <1>1
  <2>2. 1 \in 1 .. Len(Incoming)
    BY <1>1, <2>1
  <2> QED
    BY <2>2 DEF HeardInv, OnTheWay, Within
<1>3. Incoming = <<>>
  BY <1>1, <1>2
<1> QED
  BY <1>2, <1>3 DEF HeardInv, Placed

LEMMA PassiveFinds ==
  ASSUME DetectionInv, SettingInv, Detection!Passive
  PROVE  \E n \in Nat, bs \in {<<>>, <<"13">>, Detection!Ack} :
           /\ Detection!TakeAndSend("passive", n, bs)
           /\ \/ bs = <<>> /\ Detection!GoTo("passive", "first")
              \/ bs = <<>> /\ Detection!Fails("passive", "UNKNOWN")
              \/ bs = Detection!Ack /\ Outgoing[1] = "05" /\ Detection!Over("passive", "OK", "SEVEN")
              \/ bs = <<>> /\ Outgoing[1] = "0B" /\ Detection!Over("passive", "OK", "SEVEN_OHP")
              \/ /\ bs = <<"13">> /\ Outgoing[1] = "16"
                 /\ \E p \in Detection!CasiolinkVariants \cup {"CAS"} : Detection!Over("passive", "OK", p)
<1> DEFINE Result(n, bs) ==
             /\ Detection!TakeAndSend("passive", n, bs)
             /\ \/ bs = <<>> /\ Detection!GoTo("passive", "first")
                \/ bs = <<>> /\ Detection!Fails("passive", "UNKNOWN")
                \/ bs = Detection!Ack /\ Outgoing[1] = "05" /\ Detection!Over("passive", "OK", "SEVEN")
                \/ bs = <<>> /\ Outgoing[1] = "0B" /\ Detection!Over("passive", "OK", "SEVEN_OHP")
                \/ /\ bs = <<"13">> /\ Outgoing[1] = "16"
                   /\ \E p \in Detection!CasiolinkVariants \cup {"CAS"} : Detection!Over("passive", "OK", p)
<1>1. \A b : Detection!First(b) => Outgoing[1] = b
  <2>1. Outgoing \in Seq(Detection!Bytes)
    BY DetectionParts, WiresAre
  <2> QED
    BY <2>1 DEF Detection!First, Outgoing
<1>2. CASE Detection!CheckBegins
  <2>1. Outgoing[1] = "05" /\ Len(Detection!Check) \in Nat
    BY <1>1, <1>2, BytesOf DEF Detection!CheckBegins
  <2>2. CASE SubSeq(wire["passive"], 1, Len(Detection!Check)) = Detection!Check
    <3>1. /\ Detection!TakeAndSend("passive", Len(Detection!Check), Detection!Ack)
          /\ Detection!Found("passive", "SEVEN")
      BY <1>2, <2>2 DEF Detection!CheckBegins
    <3>2. Result(Len(Detection!Check), Detection!Ack)
      BY <2>1, <3>1 DEF Detection!Found
    <3> QED
      BY <2>1, <3>2
  <2>3. CASE SubSeq(wire["passive"], 1, Len(Detection!Check)) # Detection!Check
    <3>1. /\ Detection!TakeAndSend("passive", Len(Detection!Check), <<>>)
          /\ Detection!Found("passive", "none")
      BY <1>2, <2>3 DEF Detection!CheckBegins
    <3>2. Result(Len(Detection!Check), <<>>)
      BY <3>1 DEF Detection!Found
    <3> QED
      BY <2>1, <3>2
  <2> QED
    BY <2>2, <2>3
<1>3. CASE Detection!ScreenBegins
  <2>1. Outgoing[1] = "0B" /\ Detection!TakeAndSend("passive", 1, <<>>) /\ Detection!Over("passive", "OK", "SEVEN_OHP")
    BY <1>1, <1>3 DEF Detection!ScreenBegins, Detection!Take, Detection!Found
  <2>2. Result(1, <<>>)
    BY <2>1
  <2> QED
    BY <2>2
<1>4. CASE Detection!OtherBegins
  <2>1. Result(1, <<>>)
    BY <1>4 DEF Detection!OtherBegins, Detection!Take
  <2> QED
    BY <2>1
<1>5. CASE Detection!StartReceived
  <2>1. /\ Outgoing[1] = "16" /\ Detection!TakeAndSend("passive", 1, <<"13">>)
        /\ Detection!Found("passive", IF asked["passive"] = "AUTO" THEN "CAS" ELSE Detection!IfEstablished(asked["passive"]))
        /\ pc["passive"] = "first"
    BY <1>1, <1>5 DEF Detection!StartReceived, Detection!First
  <2>2. asked["passive"] \in Detection!CasiolinkVariants \cup {"AUTO"}
    <3>1. kind["active"] # "none"
      BY <2>1, DetectionCounts DEF SettingInv
    <3> QED
      BY <3>1 DEF SettingInv, Detection!Askable
  <2>3. PICK p \in Detection!CasiolinkVariants \cup {"CAS"} : Detection!Found("passive", p)
    BY <2>1, <2>2 DEF Detection!IfEstablished, Detection!CasiolinkVariants
  <2>4. Detection!Over("passive", "OK", p)
    BY <2>3 DEF Detection!Found, Detection!CasiolinkVariants
  <2>5. Result(1, <<"13">>)
    BY <2>1, <2>4
  <2> QED
    BY <2>5
<1>6. CASE Detection!UnknownReceived
  <2>1. Result(1, <<>>)
    BY <1>6 DEF Detection!UnknownReceived, Detection!Take
  <2> QED
    BY <2>1
<1> QED
  BY <1>2, <1>3, <1>4, <1>5, <1>6 DEF Detection!Passive

LEMMA PassiveIsHeard ==
  ASSUME DetectionInv, SettingInv, HeardInv, Detection!Passive
  PROVE  HeardInv'
<1>1. /\ Wired /\ EndsAre /\ faults \in Nat
      /\ UNCHANGED <<kind, expected, faults, next_id, discovered, buf>>
  BY DetectionParts, DetectionCounts DEF Detection!Passive, Detection!CheckBegins, Detection!ScreenBegins,
     Detection!OtherBegins, Detection!StartReceived, Detection!UnknownReceived, Detection!setting, Detection!counts,
     Detection!activeVars
<1>2. kind["passive"] = "library" /\ result["passive"] = "none"
  <2>1. pc["passive"] = "first"
    BY PassiveStepGoes, <1>1
  <2> QED
    BY <2>1, FirstIsLibrary
<1>3. /\ Incoming = <<>> /\ Len(Incoming) = 0
      /\ pc["active"] \notin {"ack", "ack_end", "info", "nak", "nak_end"}
  <2>1. Speech = {}
    BY <1>2 DEF Speech
  <2> QED
    BY <1>1, <2>1, NothingIsHeard
<1>4. pc'["active"] = pc["active"] /\ result'["active"] = result["active"]
  <2>1. Goes("passive", {"first"})
    BY <1>1, PassiveStepGoes
  <2> QED
    BY <1>1, <2>1, LeavesOtherEnd, DetectionCounts
<1>5. faults > 3 \/ result["active"] # "OK"
  BY <1>1, <1>2 DEF HeardInv, Right
<1>6. PICK n \in Nat, bs \in {<<>>, <<"13">>, Detection!Ack} :
           /\ Detection!TakeAndSend("passive", n, bs)
           /\ \/ bs = <<>> /\ Detection!GoTo("passive", "first")
              \/ bs = <<>> /\ Detection!Fails("passive", "UNKNOWN")
              \/ bs = Detection!Ack /\ Outgoing[1] = "05" /\ Detection!Over("passive", "OK", "SEVEN")
              \/ bs = <<>> /\ Outgoing[1] = "0B" /\ Detection!Over("passive", "OK", "SEVEN_OHP")
              \/ /\ bs = <<"13">> /\ Outgoing[1] = "16"
                 /\ \E p \in Detection!CasiolinkVariants \cup {"CAS"} : Detection!Over("passive", "OK", p)
  BY PassiveFinds
<1>7. Incoming' \in Detection!Sent("active", bs)
  BY <1>1, <1>6, PassiveSendsBytes
<1>8. Incoming' \in {<<>>, <<"x">>} \/ Incoming' = bs
  <2>1. /\ <<"13">> \in Seq(Detection!Bytes) /\ Detection!Ack \in Seq(Detection!Bytes) /\ <<>> \in Seq(Detection!Bytes)
    BY BytesOf
  <2>2. \A s \in Seq(Detection!Bytes) : <<>> \o s = s
    OBVIOUS
  <2>3. Append(<<>>, "x") = <<"x">>
    OBVIOUS
  <2>4. bs \in Seq(Detection!Bytes)
    BY <1>6, <2>1
  <2>5. \/ Incoming' = wire["active"] \/ Incoming' = wire["active"] \o bs
        \/ Incoming' = Append(wire["active"], "x")
    BY <1>7, BytesAreSent, DetectionCounts
  <2> QED
    BY <1>3, <2>2, <2>3, <2>4, <2>5 DEF Incoming
<1>9. bs = <<>> => Incoming' = <<>>
  BY <1>3, <1>7, BytesAreSent, DetectionCounts DEF Incoming
<1>10. OnTheWay'
  <2>1. CASE Incoming' = <<>>
    BY <1>1, <1>2, <2>1 DEF OnTheWay, Within
  <2>2. CASE bs = Detection!Ack /\ Detection!Over("passive", "OK", "SEVEN")
    <3>1. result'["passive"] = "OK" /\ protocol'["passive"] = "SEVEN"
      BY <1>1, <2>2, DetectionCounts DEF Detection!Over, EndsAre, SettingInv
    <3>2. Speech' = {"06", "d", "x"}
      BY <1>1, <1>2, <3>1 DEF Speech
    <3>3. Len(Detection!Ack) = 6 /\ \A i \in 1 .. 6 : Detection!Ack[i] \in {"06", "d", "x"}
      BY DEF Detection!Ack
    <3>4. Within(Detection!Ack, {"06", "d", "x"}) /\ Within(<<"x">>, {"06", "d", "x"}) /\ Within(<<>>, {"06", "d", "x"})
      BY <3>3 DEF Within
    <3>5. Within(Incoming', {"06", "d", "x"})
      BY <1>8, <2>2, <3>4
    <3> QED
      BY <1>1, <1>2, <3>2, <3>5 DEF OnTheWay, Within
  <2>3. CASE bs = <<"13">> /\ \E p \in Detection!CasiolinkVariants \cup {"CAS"} : Detection!Over("passive", "OK", p)
    <3>1. PICK p \in Detection!CasiolinkVariants \cup {"CAS"} : Detection!Over("passive", "OK", p)
      BY <2>3
    <3>2. p # "SEVEN"
      BY DEF Detection!CasiolinkVariants
    <3>3. result'["passive"] = "OK" /\ protocol'["passive"] # "SEVEN"
      BY <1>1, <3>1, <3>2, DetectionCounts DEF Detection!Over, EndsAre, SettingInv
    <3>4. Speech' = {"13", "x"}
      BY <1>1, <1>2, <3>3 DEF Speech
    <3>5. Within(<<"13">>, {"13", "x"}) /\ Within(<<"x">>, {"13", "x"}) /\ Within(<<>>, {"13", "x"})
      BY DEF Within
    <3>6. Within(Incoming', {"13", "x"})
      BY <1>8, <2>3, <3>5
    <3> QED
      BY <1>1, <1>2, <3>4, <3>6 DEF OnTheWay, Within
  <2> QED
    BY <1>6, <1>9, <2>1, <2>2, <2>3
<1>11. Placed' /\ Distinct'
  BY <1>1, <1>2, <1>3, <1>4 DEF HeardInv, Placed, Distinct
<1> QED
  BY <1>1, <1>4, <1>5, <1>10, <1>11 DEF HeardInv

LEMMA NoFewer ==
  ASSUME NEW f \in Nat, NEW g \in {f, f + 1}
  PROVE  /\ \A j \in Nat : (j + f >= 4 => j + g >= 4) /\ (j + f >= 6 => j + g >= 6)
         /\ \A m \in 0 .. 3 : m <= f => m <= g
         /\ g <= 3 => f <= 3
OBVIOUS

(* The wire to the active end is left alone.                                *)
LEMMA ApartIsHeard ==
  ASSUME HeardInv, UNCHANGED <<kind, expected, pc, result, protocol, next_id, discovered, buf>>,
         Wired, faults \in Nat, faults' \in {faults, faults + 1}, Incoming' = Incoming
  PROVE  HeardInv'
<1>1. Speech' = Speech /\ Right' = Right
  BY SpeechStays DEF Right
<1>2. OnTheWay' /\ Placed'
  BY <1>1 DEF HeardInv, OnTheWay, Placed, Within
<1>3. Distinct'
  <2>1. Len(Incoming) \in Nat
    BY WiresAre
  <2>2. /\ \A j \in Nat : (j + faults >= 4 => j + faults' >= 4) /\ (j + faults >= 6 => j + faults' >= 6)
        /\ \A m \in 0 .. 3 : m <= faults => m <= faults'
        /\ faults' <= 3 => faults <= 3
    BY NoFewer
  <2> QED
    BY <2>1, <2>2 DEF HeardInv, Distinct, MarksLeft
<1>4. faults' <= 3 => faults <= 3
  BY NoFewer
<1> QED
  BY <1>1, <1>2, <1>3, <1>4 DEF HeardInv

(* The wires, the transports, and the beginnings.                           *)
LEMMA MarksShift ==
  ASSUME NEW s, NEW t, Len(s) \in Nat, Len(s) >= 1, Len(t) = Len(s) - 1, \A j \in 1 .. Len(s) - 1 : t[j] = s[j + 1],
         NEW m \in 0 .. 3, m < 3, MarksLeft(s, m)
  PROVE  MarksLeft(t, m + 1)
<1>1. ASSUME NEW j \in 2 .. 5, j <= Len(s), s[j] # "d"
      PROVE  j - 1 <= Len(t) /\ t[j - 1] # "d"
  <2>1. j - 1 \in 1 .. Len(s) - 1 /\ (j - 1) + 1 = j
    BY <1>1
  <2>2. t[j - 1] = s[(j - 1) + 1]
    BY <2>1
  <2> QED
    BY <1>1, <2>1, <2>2
<1>2. m + 1 < 3 => 3 - (m + 1) <= Len(t) /\ t[3 - (m + 1)] # "d"
  <2>1. m + 1 < 3 => 3 - m \in 2 .. 5 /\ (3 - m) - 1 = 3 - (m + 1)
    OBVIOUS
  <2>2. 3 - m <= Len(s) /\ s[3 - m] # "d"
    BY DEF MarksLeft
  <2> QED
    BY <1>1, <2>1, <2>2
<1>3. PICK k \in {4 - m, 5 - m} : k <= Len(s) /\ s[k] # "d"
  BY DEF MarksLeft
<1>4. k \in 2 .. 5 /\ k - 1 \in {4 - (m + 1), 5 - (m + 1)}
  BY <1>3
<1>5. k - 1 <= Len(t) /\ t[k - 1] # "d"
  BY <1>1, <1>3, <1>4
<1> QED
  BY <1>2, <1>4, <1>5 DEF MarksLeft

LEMMA MarksRemain ==
  ASSUME NEW s, NEW t, Len(s) \in Nat, Len(t) = Len(s), \A j \in 1 .. Len(s) : s[j] # "d" => t[j] # "d",
         NEW m \in 0 .. 3, MarksLeft(s, m)
  PROVE  MarksLeft(t, m)
<1>1. m < 3 => 3 - m <= Len(t) /\ t[3 - m] # "d"
  <2>1. m < 3 => 3 - m <= Len(s) /\ 3 - m \in 1 .. Len(s) /\ s[3 - m] # "d"
    BY DEF MarksLeft
  <2> QED
    BY <2>1
<1>2. PICK k \in {4 - m, 5 - m} : k <= Len(s) /\ s[k] # "d"
  BY DEF MarksLeft
<1>3. k \in 1 .. Len(s) /\ k <= Len(t)
  BY <1>2
<1> QED
  BY <1>1, <1>2, <1>3 DEF MarksLeft

LEMMA LossIsHeard ==
  ASSUME DetectionInv, SettingInv, HeardInv, DetectionInv', Detection!Lose
  PROVE  HeardInv'
<1>1. /\ Wired /\ Wired' /\ faults \in Nat /\ faults' = faults + 1
      /\ UNCHANGED <<kind, expected, pc, result, protocol, next_id, discovered, buf>>
  <2>1. Wired /\ faults \in Nat
    BY DetectionParts, DetectionCounts
  <2>2. Wired'
    BY DEF DetectionInv, Detection!TypeOK, Wired
  <2> QED
    BY <2>1, <2>2 DEF Detection!Lose, Detection!setting, Detection!endVars, Detection!activeVars
<1>2. PICK e \in Detection!Ends : wire[e] # <<>> /\ wire' = [wire EXCEPT ![e] = Tail(@)]
  BY DEF Detection!Lose
<1>3. CASE e = "passive"
  <2>1. Incoming' = Incoming
    BY <1>1, <1>2, <1>3, WireLoses, DetectionCounts DEF Incoming
  <2> QED
    BY <1>1, <2>1, ApartIsHeard
<1>4. CASE e = "active"
  <2> DEFINE k == Len(Incoming)
  <2>1. k \in Nat /\ Shifted(1)
    <3>1. k \in Nat
      BY <1>1, WiresAre
    <3>2. /\ Len(wire["active"]) >= 1 /\ Len(wire'["active"]) = Len(wire["active"]) - 1
          /\ \A i \in 1 .. Len(wire'["active"]) : wire'["active"][i] = wire["active"][i + 1]
      BY <1>1, <1>2, <1>4, WireLoses, DetectionCounts
    <3> QED
      BY <3>1, <3>2 DEF Shifted, Incoming
  <2>2. Speech' = Speech /\ Right' = Right
    BY <1>1, SpeechStays DEF Right
  <2>3. OnTheWay'
    BY <1>1, <2>1, <2>2, WayIsShifted DEF HeardInv
  <2>4. Placed'
    BY <1>1, <2>2 DEF HeardInv, Placed
  <2>5. /\ Len(Incoming') = k - 1 /\ k >= 1
        /\ \A i \in 1 .. k - 1 : Incoming'[i] = Incoming[i + 1]
    BY <2>1 DEF Shifted
  <2>6. /\ kind["passive"] = "seven" =>
             /\ pc["active"] = "nak" => k + faults >= 6
             /\ pc["active"] = "nak_end" => k + faults >= 4
        /\ kind["passive"] = "classpad_used" /\ faults <= 3 =>
             /\ pc["active"] = "ack" => \E m \in 0 .. 3 : m <= faults /\ MarksLeft(Incoming, m)
             /\ pc["active"] = "ack_end" => \E j \in 2 .. 4 : buf[j] # "d"
    BY DEF HeardInv, Distinct
  <2>7. (k - 1) + faults' = k + faults
    BY <1>1, <2>1
  <2>8. ASSUME kind["passive"] = "classpad_used", faults' <= 3, pc["active"] = "ack"
        PROVE  \E m \in 0 .. 3 : m <= faults' /\ MarksLeft(Incoming', m)
    <3>1. PICK m \in 0 .. 3 : m <= faults /\ MarksLeft(Incoming, m)
      BY <1>1, <2>6, <2>8
    <3>2. m < 3 /\ m + 1 \in 0 .. 3 /\ m + 1 <= faults'
      BY <1>1, <2>8, <3>1
    <3>3. MarksLeft(Incoming', m + 1)
      BY <2>1, <2>5, <3>1, <3>2, MarksShift
    <3> QED
      BY <3>2, <3>3
  <2>9. Distinct'
    <3>1. faults' <= 3 => faults <= 3
      BY <1>1
    <3> QED
      BY <1>1, <2>5, <2>6, <2>7, <2>8, <3>1 DEF Distinct
  <2> QED
    BY <1>1, <2>2, <2>3, <2>4, <2>9 DEF HeardInv
<1> QED
  BY <1>2, <1>3, <1>4 DEF Detection!Ends

LEMMA DamageIsHeard ==
  ASSUME DetectionInv, SettingInv, HeardInv, Detection!Damage
  PROVE  HeardInv'
<1>1. /\ Wired /\ faults \in Nat /\ faults' = faults + 1
      /\ UNCHANGED <<kind, expected, pc, result, protocol, next_id, discovered, buf>>
  BY DetectionParts, DetectionCounts DEF Detection!Damage, Detection!setting, Detection!endVars, Detection!activeVars
<1>2. PICK e \in Detection!Ends : wire[e] # <<>> /\ wire' = [wire EXCEPT ![e][1] = "x"]
  BY DEF Detection!Damage
<1>3. CASE e = "passive"
  <2>1. Incoming' = Incoming
    BY <1>1, <1>2, <1>3, WireDamaged, DetectionCounts DEF Incoming
  <2> QED
    BY <1>1, <2>1, ApartIsHeard
<1>4. CASE e = "active"
  <2> DEFINE k == Len(Incoming)
  <2>1. /\ k \in Nat /\ k >= 1 /\ Len(Incoming') = k /\ Incoming'[1] = "x"
        /\ \A i \in 2 .. k : Incoming'[i] = Incoming[i]
    <3>1. k \in Nat
      BY <1>1, WiresAre
    <3> QED
      BY <1>1, <1>2, <1>4, <3>1, WireDamaged, DetectionCounts DEF Incoming
  <2>a. \A i \in 1 .. k : i = 1 \/ i \in 2 .. k
    BY <2>1
  <2>2. Speech' = Speech /\ Right' = Right
    BY <1>1, SpeechStays DEF Right
  <2>3. /\ \A i \in 1 .. k : Incoming[i] \in Speech
        /\ kind["passive"] = "seven" => \A i \in 1 .. k : Incoming[i] = "15" => k >= i + 5
        /\ kind["passive"] = "classpad_used" =>
             \A i \in 1 .. k : Incoming[i] = "06" => Marked(Incoming, i)
    BY DEF HeardInv, OnTheWay, Within
  <2>4. "x" \in Speech
    <3>1. 1 \in 1 .. k
      BY <2>1
    <3>2. Incoming[1] \in Speech
      BY <2>3, <3>1
    <3>3. Speech # {} => "x" \in Speech
      BY DEF Speech
    <3> QED
      BY <3>2, <3>3
  <2>5. ASSUME kind["passive"] = "classpad_used", NEW i \in 1 .. k, Incoming'[i] = "06"
        PROVE  Marked(Incoming', i)
    <3>1. i \in 2 .. k
      BY <2>1, <2>5, <2>a
    <3>2. Marked(Incoming, i)
      BY <2>1, <2>3, <2>5, <3>1
    <3>3. ASSUME NEW j \in 1 .. k, j > i
          PROVE  (j - i) + i \in 1 .. Len(Incoming') /\ Incoming'[(j - i) + i] = Incoming[j]
      <4>1. (j - i) + i = j /\ j \in 2 .. k
        BY <2>1, <3>1, <3>3
      <4> QED
        BY <2>1, <4>1
    <3>4. i \in Nat /\ Len(Incoming') \in Nat
      BY <2>1
    <3> QED
      BY <2>1, <3>2, <3>3, <3>4, MarksCarried
  <2>6. OnTheWay'
    <3>1. \A i \in 1 .. k : Incoming'[i] \in Speech
      BY <2>1, <2>3, <2>4, <2>a
    <3>2. kind["passive"] = "seven" => \A i \in 1 .. k : Incoming'[i] = "15" => k >= i + 5
      BY <2>1, <2>3, <2>a
    <3> QED
      BY <1>1, <2>1, <2>2, <2>5, <3>1, <3>2 DEF OnTheWay, Within
  <2>7. Placed'
    BY <1>1, <2>2 DEF HeardInv, Placed
  <2>8. /\ kind["passive"] = "seven" =>
             /\ pc["active"] = "nak" => k + faults >= 6
             /\ pc["active"] = "nak_end" => k + faults >= 4
        /\ kind["passive"] = "classpad_used" /\ faults <= 3 =>
             /\ pc["active"] = "ack" => \E m \in 0 .. 3 : m <= faults /\ MarksLeft(Incoming, m)
             /\ pc["active"] = "ack_end" => \E j \in 2 .. 4 : buf[j] # "d"
    BY DEF HeardInv, Distinct
  <2>9. ASSUME kind["passive"] = "classpad_used", faults' <= 3, pc["active"] = "ack"
        PROVE  \E m \in 0 .. 3 : m <= faults' /\ MarksLeft(Incoming', m)
    <3>1. PICK m \in 0 .. 3 : m <= faults /\ MarksLeft(Incoming, m)
      BY <1>1, <2>8, <2>9
    <3>2. m <= faults'
      BY <1>1, <3>1
    <3>3. ASSUME NEW j \in 1 .. k, Incoming[j] # "d" PROVE Incoming'[j] # "d"
      BY <2>1, <2>a, <3>3
    <3>4. MarksLeft(Incoming', m)
      BY <2>1, <3>1, <3>3, MarksRemain
    <3> QED
      BY <3>2, <3>4
  <2>10. Distinct'
    <3>1. /\ faults' <= 3 => faults <= 3
          /\ k + faults >= 6 => k + faults' >= 6
          /\ k + faults >= 4 => k + faults' >= 4
      BY <1>1, <2>1
    <3> QED
      BY <1>1, <2>1, <2>8, <2>9, <3>1 DEF Distinct
  <2>11. faults' <= 3 => faults <= 3
    BY <1>1
  <2> QED
    BY <1>1, <2>2, <2>6, <2>7, <2>10, <2>11 DEF HeardInv
<1> QED
  BY <1>2, <1>3, <1>4 DEF Detection!Ends

LEMMA CallOfCalculatorIsHeard ==
  ASSUME DetectionInv, SettingInv, HeardInv, Detection!CalculatorSends
  PROVE  HeardInv' /\ Incoming' = Incoming
<1>1. /\ Wired /\ faults \in Nat /\ UNCHANGED <<kind, expected, faults, pc, result, protocol, buf, next_id, discovered>>
  BY DetectionParts, DetectionCounts DEF Detection!CalculatorSends, Detection!setting, Detection!endVars, Detection!activeVars
<1>2. PICK bs : Detection!TakeAndSend("active", 0, bs)
  BY DEF Detection!CalculatorSends
<1>3. Shifted(0)
  BY <1>1, <1>2, ActiveSendsBytes
<1>4. Incoming = <<>>
  BY DetectionCounts DEF Detection!CalculatorSends, Incoming
<1>5. Incoming' = <<>>
  <2>1. PICK w : wire' = [wire EXCEPT !["active"] = SubSeq(@, 0 + 1, Len(@)), !["passive"] = w]
    BY <1>2 DEF Detection!TakeAndSend, Detection!Other
  <2>2. Incoming' = SubSeq(Incoming, 1, Len(Incoming))
    BY <1>1, <2>1, DetectionCounts DEF Wired, Incoming
  <2>3. SubSeq(<<>>, 1, 0) = <<>> /\ Len(<<>>) = 0
    OBVIOUS
  <2> QED
    BY <1>4, <2>2, <2>3
<1> QED
  BY <1>1, <1>4, <1>5, ApartIsHeard

LEMMA TransportIsHeard ==
  ASSUME DetectionInv, SettingInv, HeardInv, DetectionInv', NEW e \in Detection!Ends, Detection!TransportFails(e)
  PROVE  HeardInv'
<1>1. /\ Wired /\ EndsAre /\ faults \in Nat /\ faults' = faults + 1 /\ wire' = wire
      /\ UNCHANGED <<kind, expected, next_id, discovered, buf>>
      /\ kind[e] = "library" /\ pc[e] \notin {"off", "over"} /\ Detection!Fails(e, "GONE")
  BY DetectionParts, DetectionCounts DEF Detection!TransportFails, Detection!setting, Detection!activeVars
<1>2. Incoming' = Incoming /\ Shifted(0) /\ Wired'
  BY <1>1, UnchangedIsShifted DEF Incoming, Wired
<1>3. CASE e = "active"
  BY <1>1, <1>2, <1>3, FailureIsHeard
<1>4. CASE e = "passive"
  <2>1. result["passive"] = "none" /\ Speech = {}
    BY <1>1, <1>4, FirstIsLibrary DEF Speech
  <2>2. /\ Incoming = <<>> /\ Len(Incoming) = 0
        /\ pc["active"] \notin {"ack", "ack_end", "info", "nak", "nak_end"}
    BY <1>1, <2>1, NothingIsHeard
  <2>3. pc'["active"] = pc["active"] /\ result'["active"] = result["active"]
    <3>1. Goes("passive", {})
      BY <1>1, <1>4, FailsGoes
    <3> QED
      BY <1>1, <3>1, LeavesOtherEnd, DetectionCounts
  <2>4. faults > 3 \/ result["active"] # "OK"
    BY <1>1, <1>4, <2>1 DEF HeardInv, Right
  <2>5. faults' > 3 \/ result'["active"] # "OK"
    BY <1>1, <2>3, <2>4
  <2>6. OnTheWay'
    BY <1>1, <1>2, <1>4, <2>2 DEF OnTheWay, Within
  <2>7. Placed' /\ Distinct'
    BY <1>1, <1>2, <1>4, <2>2, <2>3 DEF HeardInv, Placed, Distinct
  <2>8. ~(faults' <= 3 /\ result'["active"] = "OK")
    BY <1>1, <2>5
  <2> QED
    BY <2>6, <2>7, <2>8 DEF HeardInv
<1> QED
  BY <1>3, <1>4 DEF Detection!Ends

LEMMA OpeningIsHeard ==
  ASSUME DetectionInv, SettingInv, HeardInv, Detection!OpenPassive
  PROVE  HeardInv'
<1>1. /\ Wired /\ EndsAre /\ UNCHANGED <<kind, expected, faults, next_id, discovered, buf, wire>>
      /\ Detection!GoTo("passive", "first")
  BY DetectionParts DEF Detection!OpenPassive, Detection!setting, Detection!counts, Detection!activeVars
<1>2. pc'["active"] = pc["active"] /\ result' = result /\ protocol' = protocol
  BY <1>1, DetectionCounts DEF Detection!GoTo, EndsAre
<1>3. Incoming' = Incoming /\ Speech' = Speech /\ Right' = Right
  <2>1. Speech' = Speech
    BY <1>1, <1>2, SpeechStays
  <2> QED
    BY <1>1, <1>2, <2>1 DEF Incoming, Right
<1>4. OnTheWay' /\ Placed' /\ Distinct'
  BY <1>1, <1>2, <1>3 DEF HeardInv, OnTheWay, Placed, Distinct, Within
<1> QED
  BY <1>1, <1>2, <1>3, <1>4 DEF HeardInv

LEMMA BeginIsHeard ==
  ASSUME DetectionInv, SettingInv, HeardInv, Detection!Begin
  PROVE  HeardInv'
<1>1. /\ UNCHANGED <<wire, faults, result, protocol, next_id, discovered, buf>>
      /\ kind["active"] = "none" /\ pc["active"] = "off"
      /\ pc' = [e \in Detection!Ends |-> IF kind'[e] # "library" THEN "over" ELSE "off"]
  BY DetectionCounts DEF Detection!Begin, Detection!counts, Detection!activeVars
<1>2. Incoming = <<>> /\ result["active"] = "none"
  BY <1>1, DetectionCounts DEF SettingInv
<1>3. Incoming' = <<>> /\ Len(Incoming') = 0 /\ pc'["active"] \in {"over", "off"} /\ result'["active"] = "none"
  <2>1. Incoming' = <<>>
    BY <1>1, <1>2 DEF Incoming
  <2>2. Len(Incoming') = 0
    BY <2>1
  <2> QED
    BY <1>1, <1>2, <2>1, <2>2, DetectionCounts
<1>4. OnTheWay'
  BY <1>3 DEF OnTheWay, Within
<1>5. Placed'
  <2>1. next_id' = 0 /\ discovered' = FALSE
    BY <1>1 DEF HeardInv, Placed
  <2> QED
    BY <1>3, <2>1 DEF Placed
<1>6. Distinct'
  BY <1>3 DEF Distinct
<1> QED
  BY <1>3, <1>4, <1>5, <1>6 DEF HeardInv

LEMMA StepIsHeard ==
  ASSUME DetectionInv, SettingInv, HeardInv, AskedInv, DetectionInv', Detection!Next
  PROVE  HeardInv'
<1>1. Wired'
  BY DEF DetectionInv, Detection!TypeOK, Wired
<1>2. CASE Detection!Active
  BY <1>1, <1>2, ProbingIsHeard, InitiationIsHeard, AcknowledgedIsHeard, InformationIsHeard, EstablishedIsHeard,
     RefusalIsHeard, OutOfOrderIsHeard DEF Detection!Active
<1>3. CASE Detection!Begin \/ Detection!OpenActive \/ Detection!OpenPassive \/ Detection!Passive
  BY <1>1, <1>3, BeginIsHeard, ProbingIsHeard, OpeningIsHeard, PassiveIsHeard
<1>4. CASE Detection!Device \/ Detection!Notice
  BY <1>4, CalculatorIsHeard, CallOfCalculatorIsHeard DEF Detection!Device
<1>5. CASE Detection!Lose \/ Detection!Damage \/ \E e \in Detection!Ends : Detection!TransportFails(e)
  BY <1>5, LossIsHeard, DamageIsHeard, TransportIsHeard
<1> QED
  BY <1>2, <1>3, <1>4, <1>5 DEF Detection!Next

(* The setting of a detection stays.                                        *)
LEMMA StepKeepsSetting ==
  ASSUME DetectionInv, SettingInv, Detection!Next
  PROVE  SettingInv'
<1>1. EndsAre
  BY DetectionParts
<1>2. CASE Detection!Begin
  <2>1. PICK a \in Detection!Actives, p \in Detection!Passives :
            /\ a = "library" \/ p = "library"
            /\ kind' = [active |-> a, passive |-> p]
    BY <1>2 DEF Detection!Begin
  <2>2. PICK forActive \in Detection!Askable("active"), forPassive \in Detection!Askable("passive") :
            asked' = [active |-> forActive, passive |-> forPassive]
    BY <1>2 DEF Detection!Begin
  <2>3. /\ DOMAIN kind' = Detection!Ends /\ kind'["active"] = a /\ kind'["passive"] = p
        /\ DOMAIN asked' = Detection!Ends /\ asked'["active"] = forActive /\ asked'["passive"] = forPassive
    BY <2>1, <2>2 DEF Detection!Ends
  <2>4. /\ pc' = [e \in Detection!Ends |-> IF kind'[e] # "library" THEN "over" ELSE "off"]
        /\ result' = result /\ kind["active"] = "none"
    BY <1>2 DEF Detection!Begin
  <2>5. \A e \in Detection!Ends : result[e] = "none" /\ pc'[e] = IF kind'[e] # "library" THEN "over" ELSE "off"
    BY <2>4 DEF SettingInv
  <2>6. a \in Detection!Actives /\ a # "none" /\ kind' \in [Detection!Ends -> Detection!Actives \cup Detection!Passives]
    <3>1. kind' = [e \in Detection!Ends |-> IF e = "active" THEN a ELSE p]
      BY <2>1 DEF Detection!Ends
    <3> QED
      BY <3>1 DEF Detection!Actives
  <2> QED
    BY <2>1, <2>2, <2>3, <2>4, <2>5, <2>6, DetectionCounts DEF SettingInv
<1>3. CASE Detection!Active
  <2>1. pc["active"] \in Onward /\ Goes("active", Onward) /\ UNCHANGED <<kind, asked>>
    BY <1>1, <1>3, ActiveStepGoes
  <2>2. kind["active"] = "library" /\ pc["active"] # "over"
    BY <2>1, ActiveIsLibrary DEF Onward
  <2> QED
    BY <1>1, <2>1, <2>2, SettingKept
<1>4. CASE Detection!Passive
  <2>1. pc["passive"] = "first" /\ Goes("passive", {"first"}) /\ UNCHANGED <<kind, asked>>
    BY <1>1, <1>4, PassiveStepGoes
  <2>2. kind["passive"] = "library" /\ kind["active"] # "none"
    BY <2>1, FirstIsLibrary, DetectionCounts DEF SettingInv
  <2> QED
    BY <1>1, <2>1, <2>2, SettingKept
<1>5. CASE Detection!OpenActive
  <2>1. kind["active"] = "library" /\ pc["active"] # "over" /\ Detection!GoTo("active", "check") /\ UNCHANGED <<kind, asked>>
    BY <1>5 DEF Detection!OpenActive, Detection!setting
  <2>2. Goes("active", Onward)
    BY <2>1, GoToGoes DEF Onward, Detection!Places, Detection!Probes
  <2> QED
    BY <1>1, <2>1, <2>2, SettingKept
<1>6. CASE Detection!OpenPassive
  <2>1. kind["passive"] = "library" /\ pc["passive"] # "over" /\ Detection!GoTo("passive", "first") /\ UNCHANGED <<kind, asked>>
    BY <1>6 DEF Detection!OpenPassive, Detection!setting
  <2>2. Goes("passive", {"first"}) /\ kind["active"] # "none"
    BY <2>1, GoToGoes DEF SettingInv
  <2> QED
    BY <1>1, <2>1, <2>2, SettingKept
<1>7. CASE Detection!Device \/ Detection!Notice \/ Detection!Lose \/ Detection!Damage
  <2>1. UNCHANGED <<kind, asked, pc, result>>
    BY <1>7 DEF Detection!Device, Detection!CalculatorAnswers, Detection!CalculatorSends, Detection!Notice, Detection!Lose,
                Detection!Damage, Detection!setting, Detection!endVars
  <2>2. kind["active"] # "none"
    <3>1. ASSUME kind["active"] = "none" PROVE FALSE
      <4>1. wire["active"] = <<>> /\ wire["passive"] = <<>> /\ kind["passive"] = "none"
        BY <3>1 DEF SettingInv, Incoming, Outgoing
      <4> QED
        BY <1>7, <3>1, <4>1 DEF Detection!Device, Detection!CalculatorAnswers, Detection!CalculatorSends, Detection!Notice,
           Detection!Lose, Detection!Damage, Detection!PassiveReacts, Detection!Ends
    <3> QED
      BY <3>1
  <2> QED
    BY <1>1, <2>1, <2>2, SettingKept
<1>8. CASE \E e \in Detection!Ends : Detection!TransportFails(e)
  <2>1. PICK e \in Detection!Ends : Detection!TransportFails(e)
    BY <1>8
  <2>2. kind[e] = "library" /\ pc[e] # "over" /\ Detection!Fails(e, "GONE") /\ UNCHANGED <<kind, asked>>
    BY <2>1 DEF Detection!TransportFails, Detection!setting
  <2>3. Goes(e, Onward) /\ Goes(e, {"first"}) /\ kind["active"] # "none"
    BY <2>2, FailsGoes, DetectionCounts DEF SettingInv, Detection!Ends
  <2> QED
    BY <1>1, <2>2, <2>3, SettingKept DEF Detection!Ends
<1> QED
  BY <1>2, <1>3, <1>4, <1>5, <1>6, <1>7, <1>8 DEF Detection!Next

LEMMA DetectionStarts ==
  ASSUME Detection!Init
  PROVE  SettingInv /\ HeardInv
<1>1. /\ \A e \in Detection!Ends : kind[e] = "none" /\ pc[e] = "off" /\ result[e] = "none"
      /\ kind \in [Detection!Ends -> {"none"}]
      /\ DOMAIN asked = Detection!Ends /\ DOMAIN result = Detection!Ends
      /\ Incoming = <<>> /\ Outgoing = <<>> /\ next_id = 0 /\ discovered = FALSE
  BY DetectionCounts DEF Detection!Init, Incoming, Outgoing
<1>2. SettingInv
  <2>1. "none" \in Detection!Passives
    BY DEF Detection!Passives
  <2> QED
    BY <1>1, <2>1, DetectionCounts DEF SettingInv
<1>3. Len(Incoming) = 0
  BY <1>1
<1>4. HeardInv
  BY <1>1, <1>3, DetectionCounts DEF HeardInv, OnTheWay, Placed, Distinct, Within
<1> QED
  BY <1>2, <1>4

(* A Protocol 7.00 device that hears everything answers the check first.    *)
LEMMA ProbesAreLeft ==
  ASSUME EndsAre, Detection!Active, ~Detection!ProbeUnanswered
  PROVE  pc'["active"] \notin Detection!Probes
<1>1. \A p : Detection!GoTo("active", p) => pc'["active"] = p
  BY DetectionCounts DEF Detection!GoTo, EndsAre
<1>2. /\ \A r : Detection!Fails("active", r) => pc'["active"] = "over"
      /\ \A p : Detection!Found("active", p) => pc'["active"] = "over"
  BY DetectionCounts DEF Detection!Fails, Detection!Found, Detection!Over, EndsAre
<1>3. SUFFICES pc'["active"] \in {"over", "five", "init", "init_nul", "info", "ack", "ack_end", "nak", "nak_end", "unknown"}
  BY DEF Detection!Probes
<1>4. CASE \/ Detection!AnsweredNul \/ Detection!AnsweredFive \/ Detection!MoreFives \/ Detection!AnsweredUnknown
           \/ Detection!AnsweredAck \/ Detection!AnsweredNak
  BY <1>1, <1>2, <1>4 DEF Detection!AnsweredNul, Detection!AnsweredFive, Detection!MoreFives, Detection!AnsweredUnknown,
     Detection!AnsweredAck, Detection!AnsweredNak
<1>5. CASE Detection!InitiationUnanswered \/ Detection!Initiation
  BY <1>1, <1>2, <1>5 DEF Detection!InitiationUnanswered, Detection!Initiation, Detection!NextInitiation
<1>6. CASE Detection!AckReceived \/ Detection!AckEnds \/ Detection!NakReceived \/ Detection!NakEnds
  BY <1>1, <1>2, <1>6 DEF Detection!AckReceived, Detection!AckEnds, Detection!NakReceived, Detection!NakEnds
<1>7. CASE Detection!Information \/ Detection!AnsweredEstablished \/ Detection!OutOfOrder \/ Detection!Unknown
  BY <1>1, <1>2, <1>7 DEF Detection!Information, Detection!AnsweredEstablished, Detection!OutOfOrder, Detection!Unknown
<1> QED
  BY <1>4, <1>5, <1>6, <1>7 DEF Detection!Active

LEMMA BeginningIsKept ==
  ASSUME NEW S, NEW s \in Seq(S), NEW t \in Seq(S), NEW n \in Nat, n <= Len(s)
  PROVE  n <= Len(s \o t) /\ SubSeq(s \o t, 1, n) = SubSeq(s, 1, n)
<1> DEFINE u == s \o t
<1>1. u \in Seq(S) /\ Len(u) = Len(s) + Len(t) /\ \A i \in 1 .. Len(s) : u[i] = s[i]
  OBVIOUS
<1>2. Len(s) \in Nat /\ Len(t) \in Nat
  OBVIOUS
<1> HIDE DEF u
<1>3. n <= Len(u)
  BY <1>1, <1>2
<1>4. \A i \in 1 .. n : u[i] = s[i]
  BY <1>1, <1>2
<1>5. SubSeq(u, 1, n) = [i \in 1 .. n |-> u[i]] /\ SubSeq(s, 1, n) = [i \in 1 .. n |-> s[i]]
  BY <1>1, <1>3
<1> QED
  BY <1>3, <1>4, <1>5 DEF u

LEMMA CheckIsKept ==
  ASSUME Wired, Detection!Starts("passive", Detection!Check), NEW bs \in Seq(Detection!Bytes),
         Outgoing' = Outgoing \/ Outgoing' = Outgoing \o bs
  PROVE  Detection!Starts("passive", Detection!Check)'
<1> DEFINE s == Detection!Check
<1>1. s \in Seq(Detection!Bytes) /\ Len(s) \in Nat
  BY BytesOf
<1> HIDE DEF s
<1>2. Outgoing \in Seq(Detection!Bytes) /\ Len(s) <= Len(Outgoing) /\ SubSeq(s, 1, Len(s)) = SubSeq(Outgoing, 1, Len(s))
  BY WiresAre DEF Detection!Starts, Detection!IsPrefix, Outgoing, s
<1>3. Len(s) <= Len(Outgoing \o bs) /\ SubSeq(Outgoing \o bs, 1, Len(s)) = SubSeq(Outgoing, 1, Len(s))
  BY <1>1, <1>2, BeginningIsKept
<1>4. Len(s) <= Len(Outgoing') /\ SubSeq(s, 1, Len(s)) = SubSeq(Outgoing', 1, Len(s))
  BY <1>2, <1>3
<1> QED
  BY <1>4 DEF Detection!Starts, Detection!IsPrefix, Outgoing, s

LEMMA StepKeepsAsked ==
  ASSUME DetectionInv, SettingInv, AskedInv, Detection!Next
  PROVE  AskedInv'
<1>1. Wired /\ EndsAre /\ faults \in Nat
  BY DetectionParts, DetectionCounts
<1>2. SUFFICES ASSUME kind'["passive"] = "seven"
               PROVE  /\ pc'["active"] = "off" => Incoming' = <<>> /\ Outgoing' = <<>>
                      /\ faults' = 0 /\ pc'["active"] \in Detection!Probes =>
                           \/ Incoming' = <<>> /\ Detection!Starts("passive", Detection!Check)'
                           \/ Incoming' # <<>> /\ Incoming'[1] = "06"
  BY DEF AskedInv
<1>3. CASE Detection!Begin
  <2>1. /\ wire' = wire /\ kind["active"] = "none"
        /\ pc' = [e \in Detection!Ends |-> IF kind'[e] # "library" THEN "over" ELSE "off"]
    BY <1>3 DEF Detection!Begin
  <2>2. Incoming' = <<>> /\ Outgoing' = <<>> /\ pc'["active"] \in {"over", "off"}
    BY <2>1, DetectionCounts DEF SettingInv, Incoming, Outgoing
  <2> QED
    BY <2>2 DEF Detection!Probes
<1>4. ASSUME kind["passive"] = "seven"
      PROVE  /\ kind["active"] = "library" /\ pc["passive"] = "over" /\ result["passive"] = "none" /\ Detection!Hears
             /\ pc["active"] = "off" => Incoming = <<>> /\ Outgoing = <<>>
             /\ faults = 0 /\ pc["active"] \in Detection!Probes =>
                  \/ Incoming = <<>> /\ Detection!Starts("passive", Detection!Check)
                  \/ Incoming # <<>> /\ Incoming[1] = "06"
  BY <1>4, CalculatorsHear, DetectionCounts DEF SettingInv, AskedInv
<1>5. CASE Detection!OpenActive
  <2>1. /\ kind' = kind /\ pc["active"] = "off" /\ Detection!GoTo("active", "check")
        /\ Detection!TakeAndSend("active", 0, Detection!Check)
    BY <1>5 DEF Detection!OpenActive, Detection!setting
  <2>2. Incoming = <<>> /\ Outgoing = <<>> /\ pc["passive"] = "over" /\ result["passive"] = "none" /\ Detection!Hears
    BY <1>2, <1>4, <2>1
  <2>3. Shifted(0) /\ Outgoing' \in Detection!Sent("passive", Detection!Check)
    BY <1>1, <2>1, ActiveSendsBytes
  <2>4. Outgoing' = Detection!Check
    <3>1. Detection!Check # <<>>
      BY DEF Detection!Check
    <3>2. Outgoing' = wire["passive"] \o Detection!Check
      BY <2>2, <2>3, <3>1, BytesAreSent, DetectionCounts
    <3>3. <<>> \o Detection!Check = Detection!Check
      BY BytesOf
    <3> QED
      BY <2>2, <3>2, <3>3 DEF Outgoing
  <2>5. Detection!Starts("passive", Detection!Check)'
    <3>1. Len(Detection!Check) <= Len(Detection!Check)
      BY BytesOf
    <3> QED
      BY <2>4, <3>1 DEF Detection!Starts, Detection!IsPrefix, Outgoing
  <2>6. Incoming' = <<>>
    <3>1. PICK w : wire' = [wire EXCEPT !["active"] = SubSeq(@, 0 + 1, Len(@)), !["passive"] = w]
      BY <2>1 DEF Detection!TakeAndSend, Detection!Other
    <3>2. Incoming' = SubSeq(Incoming, 1, Len(Incoming))
      BY <1>1, <3>1, DetectionCounts DEF Wired, Incoming
    <3>3. SubSeq(<<>>, 1, 0) = <<>> /\ Len(<<>>) = 0
      OBVIOUS
    <3> QED
      BY <2>2, <3>2, <3>3
  <2>7. pc'["active"] = "check"
    BY <1>1, <2>1, DetectionCounts DEF Detection!GoTo, EndsAre
  <2> QED
    BY <2>5, <2>6, <2>7
<1>6. CASE Detection!Active
  <2>1. pc["active"] \in Onward /\ Goes("active", Onward) /\ kind' = kind /\ faults' = faults
    BY <1>1, <1>6, ActiveStepGoes
  <2>2. pc'["active"] # "off"
    BY <1>1, <2>1, DetectionCounts DEF Goes, Onward, Detection!GoTo, Detection!Over, EndsAre
  <2>3. ASSUME faults = 0, pc'["active"] \in Detection!Probes
        PROVE  Incoming' = <<>> /\ Detection!Starts("passive", Detection!Check)'
    <3>1. Detection!ProbeUnanswered
      BY <1>1, <1>6, <2>3, ProbesAreLeft
    <3>2. pc["active"] \in Detection!Probes /\ Len(Incoming) < 1
      BY <3>1 DEF Detection!ProbeUnanswered, Detection!TimeRunsOut, Incoming
    <3>3. Incoming = <<>>
      BY <1>1, <3>2, WiresAre
    <3>4. Detection!Starts("passive", Detection!Check) /\ Detection!Hears
      BY <1>2, <1>4, <2>1, <2>3, <3>2, <3>3
    <3>5. wire' = wire \/ \E bs \in Seq(Detection!Bytes) : Detection!TakeAndSend("active", 0, bs)
      <4>1. Detection!AfterProbe(pc["active"]).sends \in Seq(Detection!Bytes)
        BY <3>2, BytesOf DEF Detection!AfterProbe, Detection!Probes
      <4> QED
        BY <3>1, <4>1 DEF Detection!ProbeUnanswered
    <3>6. CASE wire' = wire
      BY <3>3, <3>4, <3>6 DEF Detection!Starts, Incoming
    <3>7. CASE \E bs \in Seq(Detection!Bytes) : Detection!TakeAndSend("active", 0, bs)
      <4>1. PICK bs \in Seq(Detection!Bytes) : Detection!TakeAndSend("active", 0, bs)
        BY <3>7
      <4>2. Outgoing' \in Detection!Sent("passive", bs)
        BY <1>1, <4>1, ActiveSendsBytes
      <4>3. Outgoing' = Outgoing \/ Outgoing' = Outgoing \o bs
        BY <3>4, <4>2, BytesAreSent, DetectionCounts DEF Outgoing
      <4>4. Incoming' = <<>>
        <5>1. PICK w : wire' = [wire EXCEPT !["active"] = SubSeq(@, 0 + 1, Len(@)), !["passive"] = w]
          BY <4>1 DEF Detection!TakeAndSend, Detection!Other
        <5>2. Incoming' = SubSeq(Incoming, 1, Len(Incoming))
          BY <1>1, <5>1, DetectionCounts DEF Wired, Incoming
        <5>3. SubSeq(<<>>, 1, 0) = <<>> /\ Len(<<>>) = 0
          OBVIOUS
        <5> QED
          BY <3>3, <5>2, <5>3
      <4> QED
        BY <1>1, <3>4, <4>3, <4>4, CheckIsKept
    <3> QED
      BY <3>5, <3>6, <3>7
  <2> QED
    BY <2>1, <2>2, <2>3
<1>7. CASE Detection!OpenPassive \/ Detection!Passive \/ Detection!Notice \/ Detection!CalculatorSends
  <2>1. kind' = kind
    BY <1>7 DEF Detection!OpenPassive, Detection!Passive, Detection!CheckBegins, Detection!ScreenBegins, Detection!OtherBegins,
       Detection!StartReceived, Detection!UnknownReceived, Detection!Notice, Detection!CalculatorSends, Detection!setting
  <2>2. kind["active"] = "library" /\ pc["passive"] = "over" /\ kind["passive"] = "seven"
    BY <1>2, <1>4, <2>1
  <2> QED
    BY <1>7, <2>2 DEF Detection!OpenPassive, Detection!Passive, Detection!CheckBegins, Detection!ScreenBegins,
       Detection!OtherBegins, Detection!StartReceived, Detection!UnknownReceived, Detection!First, Detection!Notice,
       Detection!CalculatorSends
<1>8. CASE Detection!CalculatorAnswers
  <2>1. /\ UNCHANGED <<kind, faults, pc>> /\ kind["passive"] # "library" /\ wire["passive"] # <<>>
    BY <1>8 DEF Detection!CalculatorAnswers, Detection!setting, Detection!counts, Detection!endVars, Detection!PassiveReacts
  <2>2. PICK a \in Detection!Answers : Detection!TakeAndSend("passive", a[1], a[2])
    BY <1>8 DEF Detection!CalculatorAnswers
  <2>3. /\ pc["active"] # "off" /\ Detection!Hears /\ kind["passive"] = "seven"
        /\ faults = 0 /\ pc["active"] \in Detection!Probes =>
             \/ Incoming = <<>> /\ Detection!Starts("passive", Detection!Check)
             \/ Incoming # <<>> /\ Incoming[1] = "06"
    BY <1>2, <1>4, <2>1 DEF Outgoing
  <2>4. \E n \in Nat : \E bs \in Seq(Detection!Bytes) : a = <<n, bs>>
    <3>1. PICK n \in {1, 6} : \E bs \in {Detection!Ack, Detection!Nak, <<>>} : a = <<n, bs>>
      BY <2>3 DEF Detection!Answers
    <3>2. n \in Nat
      BY <3>1
    <3> QED
      BY <3>1, <3>2, BytesOf
  <2>5. PICK n \in Nat, bs \in Seq(Detection!Bytes) : a = <<n, bs>> /\ a[1] = n /\ a[2] = bs
    BY <2>4
  <2>6. Incoming' \in Detection!Sent("active", bs)
    BY <1>1, <2>2, <2>5, PassiveSendsBytes
  <2>7. ASSUME faults = 0, pc["active"] \in Detection!Probes, Incoming # <<>>, Incoming[1] = "06"
        PROVE  Incoming' # <<>> /\ Incoming'[1] = "06"
    <3>1. Incoming' = Incoming \/ Incoming' = Incoming \o bs
      BY <2>3, <2>6, BytesAreSent, DetectionCounts DEF Incoming
    <3>2. Incoming \in Seq(Detection!Bytes)
      BY <1>1, WiresAre
    <3>3. Len(Incoming) >= 1
      BY <2>7, <3>2
    <3>4. Incoming \o bs # <<>> /\ (Incoming \o bs)[1] = Incoming[1]
      <4>1. Len(Incoming \o bs) = Len(Incoming) + Len(bs) /\ \A i \in 1 .. Len(Incoming) : (Incoming \o bs)[i] = Incoming[i]
        BY <3>2, JoinedTo
      <4>2. Len(Incoming \o bs) # 0 /\ 1 \in 1 .. Len(Incoming)
        BY <3>2, <3>3, <4>1
      <4> QED
        BY <4>1, <4>2
    <3> QED
      BY <2>7, <3>1, <3>4
  <2>8. ASSUME faults = 0, pc["active"] \in Detection!Probes, Incoming = <<>>, Detection!Starts("passive", Detection!Check)
        PROVE  Incoming' # <<>> /\ Incoming'[1] = "06"
    <3>1. a = <<6, Detection!Ack>>
      BY <2>3, <2>8 DEF Detection!Answers
    <3>2. bs = Detection!Ack /\ bs # <<>> /\ bs[1] = "06"
      BY <2>5, <3>1 DEF Detection!Ack
    <3>3. pc["active"] # "off" /\ result["active"] \in {"none", "OK"}
      BY <2>3, <2>8, ActiveIsLibrary DEF Detection!Probes
    <3>4. Incoming' = wire["active"] \o bs
      BY <2>3, <2>6, <3>2, <3>3, BytesAreSent, DetectionCounts
    <3>5. <<>> \o bs = bs
      OBVIOUS
    <3> QED
      BY <2>8, <3>2, <3>4, <3>5 DEF Incoming
  <2> QED
    BY <2>1, <2>3, <2>7, <2>8
<1>9. CASE Detection!Lose \/ Detection!Damage \/ \E e \in Detection!Ends : Detection!TransportFails(e)
  <2>1. faults' = faults + 1 /\ kind' = kind
    BY <1>9 DEF Detection!Lose, Detection!Damage, Detection!TransportFails, Detection!setting
  <2>2. faults' # 0
    BY <1>1, <2>1
  <2>3. kind["passive"] = "seven"
    BY <1>2, <2>1
  <2>4. CASE Detection!Lose \/ Detection!Damage
    <3>1. pc' = pc /\ \E e \in Detection!Ends : wire[e] # <<>>
      BY <2>4 DEF Detection!Lose, Detection!Damage, Detection!endVars
    <3>2. Incoming # <<>> \/ Outgoing # <<>>
      BY <3>1 DEF Incoming, Outgoing, Detection!Ends
    <3> QED
      BY <1>4, <2>2, <2>3, <3>1, <3>2
  <2>5. ASSUME NEW e \in Detection!Ends, Detection!TransportFails(e)
        PROVE  pc'["active"] # "off"
    <3>1. e = "active"
      BY <1>4, <2>3, <2>5 DEF Detection!TransportFails, Detection!Ends
    <3> QED
      BY <1>1, <2>5, <3>1, DetectionCounts DEF Detection!TransportFails, Detection!Fails, Detection!Over, EndsAre
  <2> QED
    BY <1>9, <2>2, <2>4, <2>5
<1> QED
  BY <1>3, <1>5, <1>6, <1>7, <1>8, <1>9 DEF Detection!Next, Detection!Device

(* What a calculator says is what it speaks.                                *)
LEMMA CalledBy ==
  ASSUME SettingInv, kind["active"] \notin {"none", "library"}
  PROVE  /\ "x" \in Saying
         /\ "05" \in Saying => "SEVEN" \in Detection!Speaks("active")
         /\ "0B" \in Saying => "SEVEN_OHP" \in Detection!Speaks("active")
         /\ "16" \in Saying => Detection!CasiolinkVariants \cup {"CAS"} \subseteq Detection!Speaks("active")
         /\ kind["passive"] = "library"
<1>1. kind["active"] \in {"seven", "cas", "classpad", "screen"}
  BY DEF SettingInv, Detection!Actives
<1> QED
  BY <1>1 DEF SettingInv, Saying, Detection!Speaks

LEMMA SaidOf ==
  ASSUME NEW S, NEW s, NEW t, NEW n \in Nat, Within(s, S), Len(s) \in Nat, n <= Len(s), Len(t) = Len(s) - n,
         \A i \in 1 .. Len(t) : t[i] = s[i + n]
  PROVE  Within(t, S)
<1>1. \A i \in 1 .. Len(t) : i + n \in 1 .. Len(s)
  OBVIOUS
<1> QED
  BY <1>1 DEF Within

LEMMA PassiveSays ==
  ASSUME DetectionInv, SettingInv, SaidInv, Detection!Passive
  PROVE  SaidInv'
<1>1. Wired /\ EndsAre /\ kind' = kind /\ DOMAIN result = Detection!Ends
  BY DetectionParts DEF SettingInv, Detection!Passive, Detection!CheckBegins, Detection!ScreenBegins, Detection!OtherBegins,
     Detection!StartReceived, Detection!UnknownReceived, Detection!setting
<1>2. SUFFICES ASSUME kind["active"] \notin {"none", "library"}
               PROVE  /\ Within(Outgoing', Saying)
                      /\ result'["passive"] = "OK" => protocol'["passive"] \in Detection!Speaks("active")
  BY <1>1 DEF SaidInv, Saying, Detection!Speaks
<1>3. Within(Outgoing, Saying) /\ Len(Outgoing) \in Nat
  BY <1>1, <1>2, WiresAre DEF SaidInv
<1>4. PICK n \in Nat, bs \in {<<>>, <<"13">>, Detection!Ack} :
           /\ Detection!TakeAndSend("passive", n, bs)
           /\ \/ bs = <<>> /\ Detection!GoTo("passive", "first")
              \/ bs = <<>> /\ Detection!Fails("passive", "UNKNOWN")
              \/ bs = Detection!Ack /\ Outgoing[1] = "05" /\ Detection!Over("passive", "OK", "SEVEN")
              \/ bs = <<>> /\ Outgoing[1] = "0B" /\ Detection!Over("passive", "OK", "SEVEN_OHP")
              \/ /\ bs = <<"13">> /\ Outgoing[1] = "16"
                 /\ \E p \in Detection!CasiolinkVariants \cup {"CAS"} : Detection!Over("passive", "OK", p)
  BY PassiveFinds
<1>5. /\ n <= Len(Outgoing) /\ Len(Outgoing') = Len(Outgoing) - n
      /\ \A i \in 1 .. Len(Outgoing') : Outgoing'[i] = Outgoing[i + n]
  BY <1>1, <1>4, PassiveSendsBytes
<1>6. Within(Outgoing', Saying)
  BY <1>3, <1>5, SaidOf
<1>7. Outgoing[1] \in Saying
  <2>1. Outgoing # <<>>
    BY DEF Detection!Passive, Detection!CheckBegins, Detection!ScreenBegins, Detection!OtherBegins,
           Detection!StartReceived, Detection!UnknownReceived, Detection!First, Outgoing
  <2>2. Len(Outgoing) >= 1
    BY <1>1, <2>1, WiresAre
  <2>3. 1 \in 1 .. Len(Outgoing)
    BY <1>3, <2>2
  <2> QED
    BY <1>3, <2>3 DEF Within
<1>8. \A r, p : Detection!Over("passive", r, p) => result'["passive"] = r /\ protocol'["passive"] = p
  BY <1>1, DetectionCounts DEF Detection!Over, EndsAre
<1>9. result["passive"] # "OK"
  <2>1. pc["passive"] = "first"
    BY <1>1, PassiveStepGoes
  <2> QED
    BY <2>1, FirstIsLibrary
<1>10. result'["passive"] = "OK" => protocol'["passive"] \in Detection!Speaks("active")
  <2>1. CASE bs = <<>> /\ (Detection!GoTo("passive", "first") \/ Detection!Fails("passive", "UNKNOWN"))
    BY <1>8, <1>9, <2>1 DEF Detection!GoTo, Detection!Fails
  <2>2. CASE Outgoing[1] = "05" /\ Detection!Over("passive", "OK", "SEVEN")
    BY <1>2, <1>7, <1>8, <2>2, CalledBy
  <2>3. CASE Outgoing[1] = "0B" /\ Detection!Over("passive", "OK", "SEVEN_OHP")
    BY <1>2, <1>7, <1>8, <2>3, CalledBy
  <2>4. CASE Outgoing[1] = "16" /\ \E p \in Detection!CasiolinkVariants \cup {"CAS"} : Detection!Over("passive", "OK", p)
    BY <1>2, <1>7, <1>8, <2>4, CalledBy
  <2> QED
    BY <1>4, <2>1, <2>2, <2>3, <2>4
<1> QED
  BY <1>6, <1>10

LEMMA CalculatorSays ==
  ASSUME DetectionInv, SettingInv, SaidInv, Detection!CalculatorSends
  PROVE  SaidInv'
<1>1. Wired /\ kind' = kind /\ result' = result /\ protocol' = protocol
  BY DetectionParts DEF Detection!CalculatorSends, Detection!setting, Detection!endVars
<1>2. kind["active"] \notin {"none", "library"} /\ Outgoing = <<>>
  BY DetectionCounts DEF Detection!CalculatorSends, Outgoing
<1>3. kind["active"] \in {"seven", "cas", "classpad", "screen"}
  BY <1>2 DEF SettingInv, Detection!Actives
<1>4. \E bs \in Seq(Detection!Bytes) : Detection!TakeAndSend("active", 0, bs) /\ Within(bs, Saying)
  <2>1. CASE kind["active"] = "seven" /\ Detection!TakeAndSend("active", 0, <<"10">>)
    <3>1. <<"10">> \in Seq(Detection!Bytes)
      BY BytesOf
    <3>2. Within(<<"10">>, Saying)
      BY <2>1 DEF Within, Saying
    <3> QED
      BY <2>1, <3>1, <3>2
  <2>2. CASE kind["active"] = "seven" /\ Detection!TakeAndSend("active", 0, Detection!Check)
    <3>1. Within(Detection!Check, Saying)
      BY <2>2 DEF Within, Saying, Detection!Check
    <3> QED
      BY <2>2, <3>1, BytesOf
  <2>3. CASE kind["active"] = "screen" /\ Detection!TakeAndSend("active", 0, <<"0B", "d">>)
    <3>1. Within(<<"0B", "d">>, Saying)
      BY <2>3 DEF Within, Saying
    <3> QED
      BY <2>3, <3>1, BytesOf
  <2>4. CASE kind["active"] \in {"cas", "classpad"} /\ Detection!TakeAndSend("active", 0, <<"16">>)
    <3>1. <<"16">> \in Seq(Detection!Bytes)
      BY BytesOf
    <3>2. Within(<<"16">>, Saying)
      BY <2>4 DEF Within, Saying
    <3> QED
      BY <2>4, <3>1, <3>2
  <2> QED
    BY <1>3, <2>1, <2>2, <2>3, <2>4 DEF Detection!CalculatorSends
<1>5. PICK bs \in Seq(Detection!Bytes) : Detection!TakeAndSend("active", 0, bs) /\ Within(bs, Saying)
  BY <1>4
<1>6. Outgoing' = <<>> \/ Outgoing' = bs
  <2>1. Outgoing' \in Detection!Sent("passive", bs) /\ Detection!Hears
    BY <1>1, <1>2, <1>5, ActiveSendsBytes, CalculatorsHear
  <2>2. Outgoing' = wire["passive"] \/ Outgoing' = wire["passive"] \o bs
    BY <2>1, BytesAreSent, DetectionCounts
  <2>3. <<>> \o bs = bs
    OBVIOUS
  <2> QED
    BY <1>2, <2>2, <2>3 DEF Outgoing
<1>7. Within(Outgoing', Saying)
  <2>1. Within(<<>>, Saying)
    BY DEF Within
  <2> QED
    BY <1>5, <1>6, <2>1
<1> QED
  BY <1>1, <1>2, <1>7 DEF SaidInv, Saying, Detection!Speaks

LEMMA WiresSay ==
  ASSUME DetectionInv, SettingInv, SaidInv, Detection!Lose \/ Detection!Damage
  PROVE  SaidInv'
<1>1. Wired /\ kind' = kind /\ result' = result /\ protocol' = protocol
  BY DetectionParts DEF Detection!Lose, Detection!Damage, Detection!setting, Detection!endVars
<1>2. SUFFICES ASSUME kind["active"] \notin {"none", "library"} PROVE Within(Outgoing', Saying)
  BY <1>1 DEF SaidInv, Saying, Detection!Speaks
<1>3. Within(Outgoing, Saying) /\ Len(Outgoing) \in Nat /\ "x" \in Saying
  BY <1>1, <1>2, WiresAre, CalledBy DEF SaidInv
<1>4. CASE Detection!Lose
  <2>1. PICK e \in Detection!Ends : wire[e] # <<>> /\ wire' = [wire EXCEPT ![e] = Tail(@)]
    BY <1>4 DEF Detection!Lose
  <2>2. CASE e = "active"
    <3>1. Outgoing' = Outgoing
      BY <1>1, <2>1, <2>2, WireLoses, DetectionCounts DEF Outgoing
    <3> QED
      BY <1>3, <3>1
  <2>3. CASE e = "passive"
    <3>1. Len(Outgoing) >= 1 /\ Len(Outgoing') = Len(Outgoing) - 1 /\ \A i \in 1 .. Len(Outgoing') : Outgoing'[i] = Outgoing[i + 1]
      BY <1>1, <2>1, <2>3, WireLoses DEF Outgoing
    <3> QED
      BY <1>3, <3>1, SaidOf
  <2> QED
    BY <2>2, <2>3 DEF Detection!Ends
<1>5. CASE Detection!Damage
  <2>1. PICK e \in Detection!Ends : wire[e] # <<>> /\ wire' = [wire EXCEPT ![e][1] = "x"]
    BY <1>5 DEF Detection!Damage
  <2>2. CASE e = "active"
    <3>1. Outgoing' = Outgoing
      BY <1>1, <2>1, <2>2, WireDamaged, DetectionCounts DEF Outgoing
    <3> QED
      BY <1>3, <3>1
  <2>3. CASE e = "passive"
    <3>1. Len(Outgoing') = Len(Outgoing) /\ Outgoing'[1] = "x" /\ \A i \in 2 .. Len(Outgoing) : Outgoing'[i] = Outgoing[i]
      BY <1>1, <2>1, <2>3, WireDamaged DEF Outgoing
    <3>2. \A i \in 1 .. Len(Outgoing) : i = 1 \/ i \in 2 .. Len(Outgoing)
      BY <1>3
    <3> QED
      BY <1>3, <3>1, <3>2 DEF Within
  <2> QED
    BY <2>2, <2>3 DEF Detection!Ends
<1> QED
  BY <1>4, <1>5

LEMMA StepSays ==
  ASSUME DetectionInv, SettingInv, SaidInv, Detection!Next
  PROVE  SaidInv'
<1>1. EndsAre /\ Wired /\ DOMAIN result = Detection!Ends
  BY DetectionParts DEF SettingInv
<1>2. CASE Detection!Begin
  <2>1. Outgoing' = Outgoing /\ result' = result /\ kind["active"] = "none"
    BY <1>2 DEF Detection!Begin, Outgoing
  <2>2. Outgoing = <<>> /\ result["passive"] = "none"
    BY <2>1, DetectionCounts DEF SettingInv
  <2> QED
    BY <2>1, <2>2 DEF SaidInv, Within
<1>3. CASE Detection!Active \/ Detection!OpenActive \/ Detection!CalculatorAnswers \/ Detection!Notice
  <2>1. kind' = kind /\ (kind["active"] = "library" \/ kind["passive"] # "library")
    <3>1. CASE Detection!Active
      <4>1. pc["active"] \in Onward /\ kind' = kind
        BY <1>1, <3>1, ActiveStepGoes
      <4> QED
        BY <4>1, ActiveIsLibrary DEF Onward
    <3>2. CASE Detection!OpenActive \/ Detection!CalculatorAnswers \/ Detection!Notice
      BY <3>2 DEF Detection!OpenActive, Detection!CalculatorAnswers, Detection!Notice, Detection!setting
    <3> QED
      BY <1>3, <3>1, <3>2
  <2>2. kind["active"] \in {"none", "library"}
    BY <2>1 DEF SettingInv
  <2> QED
    BY <2>1, <2>2 DEF SaidInv
<1>4. CASE Detection!OpenPassive
  BY <1>4 DEF Detection!OpenPassive, Detection!GoTo, Detection!setting, SaidInv, Within, Saying, Detection!Speaks, Outgoing
<1>5. CASE \E e \in Detection!Ends : Detection!TransportFails(e)
  <2>1. PICK e \in Detection!Ends : Detection!TransportFails(e)
    BY <1>5
  <2>2. kind' = kind /\ wire' = wire /\ kind[e] = "library" /\ Detection!Over(e, "GONE", "none")
    BY <2>1 DEF Detection!TransportFails, Detection!setting, Detection!Fails
  <2>3. CASE e = "active"
    BY <2>2, <2>3 DEF SaidInv
  <2>4. CASE e = "passive"
    <3>1. result'["passive"] = "GONE"
      BY <1>1, <2>2, <2>4, DetectionCounts DEF Detection!Over
    <3> QED
      BY <2>2, <3>1 DEF SaidInv, Within, Saying, Outgoing
  <2> QED
    BY <2>3, <2>4 DEF Detection!Ends
<1> QED
  BY <1>2, <1>3, <1>4, <1>5, PassiveSays, CalculatorSays, WiresSay DEF Detection!Next, Detection!Device

=============================================================================
