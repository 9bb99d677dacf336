--------------------------- MODULE CreditProofs ---------------------------
(***************************************************************************)
(* Nothing is credited that was not earned or mistaken for another title:  *)
(* every report on its way from the game to the bridge is backed by what   *)
(* the player did, chapters by way of the map they will be attributed to.  *)
(***************************************************************************)
EXTENDS OrderProofs

USE DEF world, serverVars, linkVars, clientVars, bridge, checkedVars,
        bufferVars, slotVars, bridgeVars, localVars, pipeVars, dllVars,
        itemVars, gameVars, threadVars

\* What may be recorded: what the player earned, and the titles shown while the
\* bridge took another map for the one played.
Creditable == earned \cup mistitled

USE DEF Creditable

\* The reports the bridge has still to handle.  A dead DLL sends no more.
Stream == IF dll = "reading" THEN up \o sendQueue ELSE up

\* Report i of s finds m_mission = x when m_mission is m before the first.
InEffect(s, m, i, x) ==
  \/ x = m /\ \A j \in 1 .. i - 1 : ~Names(s[j])
  \/ \E j \in 1 .. i - 1 :
       /\ Names(s[j]) /\ s[j].mission = x
       /\ \A k \in j + 1 .. i - 1 : ~Names(s[k])

\* A report that will be credited with what is in E: r, when x is in effect.
Backed(r, x, E) ==
  /\ r.kind = "MISSION_COMPLETE" /\ r.mission \in Missions =>
       CompletionLocation(r.mission) \in E
  /\ r.kind = "LOCATION_CHECKED" => r.location \in E
  /\ r.kind = "CHAPTER" /\ <<x, r.index>> \in DOMAIN ChapterLocation =>
       ChapterLocation[<<x, r.index>>] \in E

StreamBacked(s, m, E) ==
  \A i \in 1 .. Len(s) : \A x \in MapCodes :
    InEffect(s, m, i, x) => Backed(s[i], x, E)

\* After all of s the map in effect is p.
EndsIn(s, m, p) ==
  \A x \in MapCodes : InEffect(s, m, Len(s) + 1, x) => x = p

StreamInv ==
  /\ StreamBacked(Stream, m_mission, Creditable)
  /\ dll # "dead" => EndsIn(Stream, m_mission, named)
  /\ dll = "absent" => sendQueue = <<>> /\ playing = NoMission

\* A thread that has a location to record, and what may be under way to the
\* server.
Recording == pc["pipe"] \in {"sendLocation", "locationChecks", "track"}

PacketsBacked ==
  \A n \in 1 .. Len(toServer) :
    toServer[n].cmd = "LocationChecks" => toServer[n].locations \subseteq Creditable

CreditInv ==
  /\ srvChecked \cup clientChecked \cup checkQueue \cup m_checkedLocations
       \subseteq Creditable
  /\ PacketsBacked
  /\ Recording => location \in Creditable

-----------------------------------------------------------------------------
(***************************************************************************)
(* Streams of reports: a report is put at the end, the first is handled,   *)
(* the end is lost.                                                        *)
(***************************************************************************)
LEMMA BackedMore ==
  ASSUME NEW r, NEW x, NEW E, NEW F, E \subseteq F, Backed(r, x, E)
  PROVE  Backed(r, x, F)
BY DEF Backed

LEMMA StreamBackedMore ==
  ASSUME NEW s, NEW m, NEW E, NEW F, E \subseteq F, StreamBacked(s, m, E)
  PROVE  StreamBacked(s, m, F)
BY BackedMore DEF StreamBacked

LEMMA StreamAppend ==
  ASSUME NEW s \in Seq(Reports), NEW r \in Reports,
         NEW m \in MapCodes, NEW E, NEW F, E \subseteq F,
         StreamBacked(s, m, E),
         \A x \in MapCodes :
           InEffect(s, m, Len(s) + 1, x) => Backed(r, x, F)
  PROVE  StreamBacked(Append(s, r), m, F)
<1> DEFINE t == Append(s, r)
           L == Len(s)
<1>1. /\ Len(t) = L + 1 /\ \A n \in 1 .. L : t[n] = s[n]
      /\ t[L + 1] = r /\ L \in Nat
  BY AppendedChunk
<1> HIDE DEF t, L
<1>2. ASSUME NEW i \in 1 .. L + 1, NEW x, InEffect(t, m, i, x)
      PROVE  InEffect(s, m, i, x)
  BY <1>1, <1>2 DEF InEffect
<1>3. ASSUME NEW i \in 1 .. L + 1, NEW x \in MapCodes,
             InEffect(t, m, i, x)
      PROVE  Backed(t[i], x, F)
  <2>1. InEffect(s, m, i, x)
    BY <1>2, <1>3
  <2>2. CASE i \in 1 .. L
    <3>1. Backed(s[i], x, E)
      BY <2>1, <2>2 DEF StreamBacked, L
    <3> QED BY <1>1, <2>2, <3>1, BackedMore
  <2>3. CASE i = L + 1
    BY <1>1, <2>1, <2>3 DEF L
  <2> QED BY <1>1, <2>2, <2>3
<1> QED BY <1>1, <1>3 DEF StreamBacked, t

\* A report that names no map leaves the one in effect alone.
LEMMA EndsInAppend ==
  ASSUME NEW s \in Seq(Reports), NEW r \in Reports, NEW m, NEW p,
         ~Names(r), EndsIn(s, m, p)
  PROVE  EndsIn(Append(s, r), m, p)
<1> DEFINE t == Append(s, r)
           L == Len(s)
<1>1. /\ Len(t) = L + 1 /\ \A n \in 1 .. L : t[n] = s[n]
      /\ t[L + 1] = r /\ L \in Nat
  BY AppendedChunk
<1> HIDE DEF t, L
<1>2. ASSUME NEW x, InEffect(t, m, L + 2, x)
      PROVE  InEffect(s, m, L + 1, x)
  <2>1. CASE x = m /\ \A j \in 1 .. (L + 2) - 1 : ~Names(t[j])
    BY <1>1, <2>1 DEF InEffect
  <2>2. ASSUME NEW j \in 1 .. (L + 2) - 1,
               Names(t[j]), t[j].mission = x,
               \A k \in j + 1 .. (L + 2) - 1 : ~Names(t[k])
        PROVE  InEffect(s, m, L + 1, x)
    <3>1. j \in 1 .. (L + 1) - 1
      BY <1>1, <2>2
    <3>2. s[j] = t[j] /\ \A k \in j + 1 .. (L + 1) - 1 : s[k] = t[k]
      BY <1>1, <3>1
    <3>3. \A k \in j + 1 .. (L + 1) - 1 : ~Names(s[k])
      BY <1>1, <2>2, <3>2
    <3> QED BY <2>2, <3>1, <3>2, <3>3 DEF InEffect
  <2> QED BY <1>2, <2>1, <2>2 DEF InEffect
<1>3. Len(t) + 1 = L + 2
  BY <1>1
<1> QED BY <1>2, <1>3 DEF EndsIn, t, L

\* After a load with a path to read its map is in effect.
LEMMA EndsInLoaded ==
  ASSUME NEW s \in Seq(Reports), NEW r \in Reports, NEW m,
         Names(r)
  PROVE  EndsIn(Append(s, r), m, r.mission)
<1> DEFINE t == Append(s, r)
           L == Len(s)
<1>1. Len(t) = L + 1 /\ t[L + 1] = r /\ L \in Nat
  BY AppendedChunk
<1> HIDE DEF t, L
<1>2. ASSUME NEW x, InEffect(t, m, (L + 1) + 1, x)
      PROVE  x = r.mission
  BY <1>1, <1>2 DEF InEffect
<1> QED BY <1>1, <1>2 DEF EndsIn, t

LEMMA RestOfStream ==
  ASSUME NEW S, NEW s \in Seq(S), s # <<>>
  PROVE  /\ Len(Tail(s)) = Len(s) - 1 /\ Len(s) \in Nat \ {0}
         /\ \A n \in 1 .. Len(s) - 1 : Tail(s)[n] = s[n + 1]
OBVIOUS

\* Handling the first report: what was in effect for a later one still is.
LEMMA InEffectTail ==
  ASSUME NEW s \in Seq(Reports), s # <<>>, NEW m, NEW x,
         NEW i \in 1 .. Len(s),
         InEffect(Tail(s), IF Names(s[1]) THEN s[1].mission ELSE m,
                  i, x)
  PROVE  InEffect(s, m, i + 1, x)
<1> DEFINE t == Tail(s)
           n == IF Names(s[1]) THEN s[1].mission ELSE m
           L == Len(s)
<1>1. /\ Len(t) = L - 1 /\ L \in Nat \ {0}
      /\ \A k \in 1 .. L - 1 : t[k] = s[k + 1]
  BY RestOfStream
<1> HIDE DEF t, L
<1>2. i \in 1 .. L
  BY DEF L
<1>3. CASE x = n /\ \A j \in 1 .. i - 1 : ~Names(t[j])
  <2>1. \A k \in 2 .. i : ~Names(s[k])
    <3> SUFFICES ASSUME NEW k \in 2 .. i PROVE ~Names(s[k])
      OBVIOUS
    <3>1. k - 1 \in 1 .. i - 1 /\ t[k - 1] = s[(k - 1) + 1] /\ (k - 1) + 1 = k
      BY <1>1, <1>2
    <3> QED BY <1>3, <3>1
  <2>2. CASE Names(s[1])
    <3>1. 1 \in 1 .. (i + 1) - 1 /\ \A k \in 1 + 1 .. (i + 1) - 1 : k \in 2 .. i
      BY <1>1, <1>2
    <3> QED BY <1>3, <2>1, <2>2, <3>1 DEF InEffect
  <2>3. CASE ~Names(s[1])
    <3>1. \A k \in 1 .. (i + 1) - 1 : k = 1 \/ k \in 2 .. i
      BY <1>1, <1>2
    <3> QED BY <1>3, <2>1, <2>3, <3>1 DEF InEffect
  <2> QED BY <2>2, <2>3
<1>4. ASSUME NEW j \in 1 .. i - 1,
             Names(t[j]), t[j].mission = x,
             \A k \in j + 1 .. i - 1 : ~Names(t[k])
      PROVE  InEffect(s, m, i + 1, x)
  <2>1. j + 1 \in 1 .. (i + 1) - 1 /\ t[j] = s[j + 1]
    BY <1>1, <1>2, <1>4
  <2>2. \A k \in (j + 1) + 1 .. (i + 1) - 1 : ~Names(s[k])
    <3> SUFFICES ASSUME NEW k \in (j + 1) + 1 .. (i + 1) - 1
                 PROVE  ~Names(s[k])
      OBVIOUS
    <3>1. k - 1 \in j + 1 .. i - 1 /\ t[k - 1] = s[(k - 1) + 1] /\ (k - 1) + 1 = k
      BY <1>1, <1>2, <1>4
    <3> QED BY <1>4, <3>1
  <2> QED BY <1>4, <2>1, <2>2 DEF InEffect
<1>5. InEffect(t, n, i, x)
  BY DEF t
<1> QED BY <1>3, <1>4, <1>5 DEF InEffect

LEMMA StreamTail ==
  ASSUME NEW s \in Seq(Reports), s # <<>>, NEW m, NEW n, NEW E, NEW p,
         n = IF Names(s[1]) THEN s[1].mission ELSE m,
         StreamBacked(s, m, E)
  PROVE  /\ StreamBacked(Tail(s), n, E)
         /\ EndsIn(s, m, p) => EndsIn(Tail(s), n, p)
<1> DEFINE t == Tail(s)
<1>1. /\ Len(t) = Len(s) - 1 /\ Len(s) \in Nat \ {0}
      /\ \A k \in 1 .. Len(s) - 1 : t[k] = s[k + 1]
  BY RestOfStream
<1>2. ASSUME NEW i \in 1 .. Len(s), NEW x, InEffect(t, n, i, x)
      PROVE  InEffect(s, m, i + 1, x)
  BY <1>2, InEffectTail
<1> HIDE DEF t
<1>3. StreamBacked(t, n, E)
  <2> SUFFICES ASSUME NEW i \in 1 .. Len(t), NEW x \in MapCodes,
                      InEffect(t, n, i, x)
               PROVE  Backed(t[i], x, E)
    BY DEF StreamBacked
  <2>1. i \in 1 .. Len(s) /\ i + 1 \in 1 .. Len(s) /\ t[i] = s[i + 1]
    BY <1>1
  <2> QED BY <1>2, <2>1 DEF StreamBacked
<1>4. EndsIn(s, m, p) => EndsIn(t, n, p)
  <2>1. Len(t) + 1 = Len(s) /\ Len(s) \in 1 .. Len(s)
    BY <1>1
  <2> QED BY <1>2, <2>1 DEF EndsIn
<1> QED BY <1>3, <1>4 DEF t

\* What the sender's queue loses, the stream loses at its end.
LEMMA StreamCut ==
  ASSUME NEW s \in Seq(Reports), NEW q \in Seq(Reports), NEW m, NEW E,
         StreamBacked(s \o q, m, E)
  PROVE  StreamBacked(s, m, E)
<1>1. Len(s \o q) = Len(s) + Len(q) /\ Len(s) \in Nat /\ Len(q) \in Nat
  OBVIOUS
<1>2. \A n \in 1 .. Len(s) : (s \o q)[n] = s[n]
  OBVIOUS
<1> DEFINE t == s \o q
<1> HIDE DEF t
<1>3. ASSUME NEW i \in 1 .. Len(s), NEW x, InEffect(s, m, i, x)
      PROVE  InEffect(t, m, i, x)
  BY <1>1, <1>2, <1>3 DEF InEffect, t
<1> QED BY <1>1, <1>2, <1>3 DEF StreamBacked, t

-----------------------------------------------------------------------------
(***************************************************************************)
(* The stream from the game to the bridge, step by step.                   *)
(***************************************************************************)
LEMMA ReportMoved ==
  ASSUME NEW S, NEW s \in Seq(S), NEW q \in Seq(S), q # <<>>
  PROVE  Append(s, Head(q)) \o Tail(q) = s \o q
<1>1. Head(q) \in S /\ Tail(q) \in Seq(S) /\ Len(Tail(q)) = Len(q) - 1
      /\ \A i \in 1 .. Len(Tail(q)) : Tail(q)[i] = q[i + 1]
  BY HeadTailProperties
<1> DEFINE h == Head(q)
           t == Tail(q)
           a == Append(s, h)
<1>2. h = q[1] /\ Len(q) \in Nat \ {0} /\ Len(s) \in Nat
  BY EmptySeq
<1>3. /\ a \in Seq(S) /\ Len(a) = Len(s) + 1
      /\ \A i \in 1 .. Len(s) : a[i] = s[i]
      /\ a[Len(s) + 1] = h
  BY <1>1, AppendProperties
<1> HIDE DEF a, h, t
<1>4. t \in Seq(S) /\ Len(t) = Len(q) - 1 /\ \A i \in 1 .. Len(t) : t[i] = q[i + 1]
  BY <1>1 DEF t
<1> DEFINE c == a \o t
           d == s \o q
<1>5. /\ c \in Seq(S) /\ Len(c) = Len(a) + Len(t)
      /\ \A i \in 1 .. Len(a) + Len(t) :
           c[i] = IF i <= Len(a) THEN a[i] ELSE t[i - Len(a)]
  BY <1>3, <1>4, ConcatProperties
<1>6. /\ d \in Seq(S) /\ Len(d) = Len(s) + Len(q)
      /\ \A i \in 1 .. Len(s) + Len(q) :
           d[i] = IF i <= Len(s) THEN s[i] ELSE q[i - Len(s)]
  BY ConcatProperties
<1> HIDE DEF c, d
<1>7. ASSUME NEW i \in 1 .. Len(s) + Len(q) PROVE c[i] = d[i]
  <2>0. i \in 1 .. Len(a) + Len(t)
    BY <1>2, <1>3, <1>4
  <2>1. CASE i <= Len(s)
    <3>1. i <= Len(a) /\ i \in 1 .. Len(s)
      BY <1>2, <1>3, <2>1
    <3>2. c[i] = a[i] /\ d[i] = s[i]
      BY <1>5, <1>6, <2>0, <2>1, <3>1
    <3> QED BY <1>3, <3>1, <3>2
  <2>2. CASE i = Len(s) + 1
    <3>1. i <= Len(a) /\ ~(i <= Len(s)) /\ i - Len(s) = 1
      BY <1>2, <1>3, <2>2
    <3>2. c[i] = a[i] /\ d[i] = q[i - Len(s)]
      BY <1>5, <1>6, <2>0, <3>1
    <3> QED BY <1>2, <1>3, <2>2, <3>1, <3>2
  <2>3. CASE i > Len(s) + 1
    <3>1. /\ i - Len(a) \in 1 .. Len(t) /\ (i - Len(a)) + 1 = i - Len(s)
          /\ ~(i <= Len(a)) /\ ~(i <= Len(s))
      BY <1>2, <1>3, <1>4, <2>3
    <3>2. c[i] = t[i - Len(a)] /\ d[i] = q[i - Len(s)]
      BY <1>5, <1>6, <2>0, <3>1
    <3> QED BY <1>4, <3>1, <3>2
  <2> QED BY <1>2, <2>1, <2>2, <2>3
<1>8. Len(c) = Len(d)
  BY <1>2, <1>3, <1>4, <1>5, <1>6
<1>9. c = d
  BY <1>5, <1>6, <1>7, <1>8, SeqEqual
<1> QED BY <1>9 DEF a, h, t, c, d

LEMMA TailMoved ==
  ASSUME NEW S, NEW s \in Seq(S), NEW q \in Seq(S), s # <<>>
  PROVE  Tail(s) \o q = Tail(s \o q) /\ s \o q # <<>> /\ (s \o q)[1] = s[1]
<1>1. Len(s) \in Nat \ {0} /\ Len(q) \in Nat
  BY EmptySeq
<1>2. /\ s \o q \in Seq(S) /\ Len(s \o q) = Len(s) + Len(q)
      /\ \A i \in 1 .. Len(s) + Len(q) :
           (s \o q)[i] = IF i <= Len(s) THEN s[i] ELSE q[i - Len(s)]
  BY ConcatProperties
<1> DEFINE t == Tail(s)
           c == s \o q
<1>3. t \in Seq(S) /\ Len(t) = Len(s) - 1 /\ \A i \in 1 .. Len(t) : t[i] = s[i + 1]
  BY HeadTailProperties
<1> HIDE DEF t
<1>4. /\ t \o q \in Seq(S) /\ Len(t \o q) = Len(t) + Len(q)
      /\ \A i \in 1 .. Len(t) + Len(q) :
           (t \o q)[i] = IF i <= Len(t) THEN t[i] ELSE q[i - Len(t)]
  BY <1>3, ConcatProperties
<1> DEFINE d == t \o q
<1> HIDE DEF c, d
<1>5. c \in Seq(S) /\ Len(c) = Len(s) + Len(q) /\ c # <<>>
  BY <1>1, <1>2, EmptySeq DEF c
<1>6. /\ Tail(c) \in Seq(S) /\ Len(Tail(c)) = Len(c) - 1
      /\ \A i \in 1 .. Len(Tail(c)) : Tail(c)[i] = c[i + 1]
  BY <1>5, HeadTailProperties
<1>7. ASSUME NEW i \in 1 .. Len(d) PROVE d[i] = Tail(c)[i]
  <2>1. i \in 1 .. Len(t) + Len(q) /\ i \in 1 .. Len(Tail(c)) /\ i + 1 \in 1 .. Len(s) + Len(q)
    BY <1>1, <1>3, <1>4, <1>5, <1>6 DEF d
  <2>2. Tail(c)[i] = IF i + 1 <= Len(s) THEN s[i + 1] ELSE q[(i + 1) - Len(s)]
    BY <1>2, <1>6, <2>1 DEF c
  <2>3. d[i] = IF i <= Len(t) THEN t[i] ELSE q[i - Len(t)]
    BY <1>4, <2>1 DEF d
  <2>4. (i + 1 <= Len(s)) <=> (i <= Len(t))
    BY <1>1, <1>3
  <2>5. (i + 1) - Len(s) = i - Len(t)
    BY <1>1, <1>3
  <2>6. CASE i <= Len(t)
    <3>1. d[i] = t[i] /\ t[i] = s[i + 1]
      BY <1>3, <2>1, <2>3, <2>6
    <3> QED BY <2>2, <2>4, <2>6, <3>1
  <2>7. CASE ~(i <= Len(t))
    <3>1. d[i] = q[i - Len(t)]
      BY <2>3, <2>7
    <3>2. Tail(c)[i] = q[(i + 1) - Len(s)]
      BY <2>2, <2>4, <2>7
    <3> QED BY <2>5, <3>1, <3>2
  <2> QED BY <2>6, <2>7
<1>8. Len(d) = Len(Tail(c)) /\ d \in Seq(S)
  BY <1>1, <1>3, <1>4, <1>5, <1>6 DEF d
<1>9. d = Tail(c)
  BY <1>6, <1>7, <1>8, SeqEqual
<1>10. c[1] = s[1]
  BY <1>1, <1>2 DEF c
<1> QED BY <1>5, <1>9, <1>10 DEF c, d, t

LEMMA AppendMoved ==
  ASSUME NEW S, NEW s \in Seq(S), NEW q \in Seq(S), NEW r \in S
  PROVE  s \o Append(q, r) = Append(s \o q, r)
<1>1. <<r>> \in Seq(S) /\ s \o q \in Seq(S)
  OBVIOUS
<1>2. Append(q, r) = q \o <<r>> /\ Append(s \o q, r) = (s \o q) \o <<r>>
  BY <1>1, AppendIsConcat
<1>3. (s \o q) \o <<r>> = s \o (q \o <<r>>)
  BY <1>1, ConcatAssociative
<1> QED BY <1>2, <1>3

LEMMA StreamType == TypeOK => Stream \in Seq(Reports)
BY ConcatProperties DEF TypeOK, PipeTypeOK, DllTypeOK, Stream

streamVars ==
  <<up, dll, sendQueue, playing, named, m_mission, earned, mistitled>>

LEMMA StreamQuiet ==
  ASSUME StreamInv, UNCHANGED streamVars
  PROVE  StreamInv'
BY DEF StreamInv, Stream, streamVars

\* The bridge handles the first report.
LEMMA StreamTaken ==
  ASSUME TypeOK, StreamInv, up # <<>>, up' = Tail(up),
         m_mission' = IF Names(up[1]) THEN up[1].mission ELSE m_mission,
         UNCHANGED <<dll, sendQueue, playing, named, earned, mistitled>>
  PROVE  StreamInv'
<1>1. up \in Seq(Reports) /\ sendQueue \in Seq(Reports)
  BY DEF TypeOK, PipeTypeOK, DllTypeOK
<1>2. Stream # <<>> /\ Stream[1] = up[1] /\ Stream' = Tail(Stream)
  BY <1>1, TailMoved DEF Stream
<1>3. Stream \in Seq(Reports)
  BY StreamType
<1>4. m_mission' = IF Names(Stream[1]) THEN Stream[1].mission ELSE m_mission
  BY <1>2
<1>5. StreamBacked(Stream, m_mission, Creditable)
  BY DEF StreamInv
<1> DEFINE s == Stream
<1> HIDE DEF s
<1>6. /\ StreamBacked(Tail(s), m_mission', Creditable)
      /\ EndsIn(s, m_mission, named) => EndsIn(Tail(s), m_mission', named)
  BY <1>2, <1>3, <1>4, <1>5, StreamTail DEF s
<1> QED BY <1>2, <1>6 DEF StreamInv, s

\* What the report at the head of the pipe will be credited with may be.
LEMMA HeadBacked ==
  ASSUME TypeOK, StreamInv, up # <<>>
  PROVE  Backed(Head(up), m_mission, Creditable)
<1>1. up \in Seq(Reports) /\ sendQueue \in Seq(Reports) /\ Stream \in Seq(Reports)
  BY StreamType DEF TypeOK, PipeTypeOK, DllTypeOK
<1>2. Stream # <<>> /\ Stream[1] = up[1]
  BY <1>1, TailMoved DEF Stream
<1>3. 1 \in 1 .. Len(Stream) /\ Head(up) = up[1]
  BY <1>1, <1>2, EmptySeq
<1>4. InEffect(Stream, m_mission, 1, m_mission)
  BY DEF InEffect
<1>5. m_mission \in MapCodes
  BY DEF TypeOK, BridgeTypeOK
<1> QED BY <1>2, <1>3, <1>4, <1>5 DEF StreamInv, StreamBacked

\* A hook queues a report of what the player has just done.
LEMMA StreamReported ==
  ASSUME TypeOK, StreamInv, NEW r \in Reports, Report(r),
         UNCHANGED <<up, m_mission>>, Creditable \subseteq Creditable',
         \A x \in MapCodes :
           InEffect(Stream, m_mission, Len(Stream) + 1, x) => Backed(r, x, Creditable'),
         EndsIn(Append(Stream, r), m_mission, named')
  PROVE  StreamInv'
<1>1. /\ up \in Seq(Reports) /\ sendQueue \in Seq(Reports)
      /\ Stream \in Seq(Reports) /\ m_mission \in MapCodes
  BY StreamType DEF TypeOK, PipeTypeOK, DllTypeOK, BridgeTypeOK
<1>2. dll = "reading" /\ dll' = dll /\ sendQueue' = Append(sendQueue, r)
  BY DEF Report
<1>3. Stream' = Append(Stream, r)
  BY <1>1, <1>2, AppendMoved DEF Stream
<1>4. StreamBacked(Append(Stream, r), m_mission, Creditable')
  BY <1>1, StreamAppend DEF StreamInv
<1> QED BY <1>2, <1>3, <1>4 DEF StreamInv

-----------------------------------------------------------------------------
LEMMA SendStepQuiet ==
  ASSUME NEW t \in Threads, SendStep(t)
  PROVE  /\ UNCHANGED streamVars
         /\ UNCHANGED <<world, m_checkedLocations, localVars, dllVars>>
BY DEF SendStep, SendToNobody, WriteLength, WriteBody, SkipCompletionState,
   SendCompleted, SendFinalMission, ReleaseChecked, streamVars

LEMMA PollStepQuiet ==
  ASSUME PollStep
  PROVE  /\ UNCHANGED streamVars
         /\ UNCHANGED <<serverVars, location, goalMission, dllVars>>
<1>0. "poll" \in Threads
  BY DEF Threads
<1>1. CASE SendStep("poll")
  BY <1>0, <1>1, SendStepQuiet
<1>2. CASE ~SendStep("poll")
  BY <1>2 DEF PollStep, SlotConnected, MergeChecked, ReadSlotData, SocketClosed,
     SocketDisconnected, ItemsReceived, BufferItem, ItemsDone, streamVars
<1> QED BY <1>1, <1>2

LEMMA MainStepQuiet ==
  ASSUME MainStep
  PROVE  /\ UNCHANGED streamVars
         /\ UNCHANGED <<world, m_checkedLocations, location, goalMission, dllVars>>
<1>0. "main" \in Threads
  BY DEF Threads
<1>1. CASE SendStep("main")
  BY <1>0, <1>1, SendStepQuiet
<1>2. CASE ~SendStep("main")
  BY <1>2 DEF MainStep, SlotSeen, SlotTimeout, StartPipe, SetSendToDll,
     ReplayTier, LockBuffer, ReplayItem, ReplayDone, streamVars
<1> QED BY <1>1, <1>2

HandleReport == \/ HandleMissionLoad \/ HandleMissionComplete
                \/ HandleChapter \/ HandleLocationChecked

LEMMA PipeStepQuiet ==
  ASSUME PipeStep, ~HandleReport
  PROVE  UNCHANGED streamVars
<1>0. "pipe" \in Threads
  BY DEF Threads
<1>1. CASE SendStep("pipe")
  BY <1>0, <1>1, SendStepQuiet
<1>2. CASE ~SendStep("pipe")
  BY <1>2 DEF PipeStep, HandleReport, PipeAccepts, DropLocation, MarkSent,
     LocationChecks, TrackChecked, ReportGoal, streamVars
<1> QED BY <1>1, <1>2

LEMMA HandleReportStream ==
  ASSUME TypeOK, StreamInv, HandleReport
  PROVE  StreamInv'
<1>1. /\ up # <<>> /\ up' = Tail(up)
      /\ UNCHANGED <<dll, sendQueue, playing, named, earned, mistitled>>
  BY DEF HandleReport, HandleMissionLoad, HandleMissionComplete, HandleChapter,
         HandleLocationChecked, TakeReport, BeginSendLocation
<1>2. Head(up) = up[1]
  BY <1>1 DEF TypeOK, PipeTypeOK
<1>3. m_mission' = IF Names(up[1]) THEN up[1].mission ELSE m_mission
  BY <1>2 DEF Names, HandleReport, HandleMissionLoad, HandleMissionComplete,
     HandleChapter, HandleLocationChecked, TakeReport, BeginSendLocation
<1> QED BY <1>1, <1>3, StreamTaken

LEMMA DllStepStream ==
  ASSUME TypeOK, StreamInv, DllConnects \/ DllStep \/ SendReport
  PROVE  StreamInv'
<1>0. up \in Seq(Reports) /\ sendQueue \in Seq(Reports)
  BY DEF TypeOK, PipeTypeOK, DllTypeOK
<1>1. CASE DllConnects
  <2>1. /\ dll = "absent" /\ dll' = "reading"
        /\ UNCHANGED <<up, sendQueue, playing, named, m_mission, earned, mistitled>>
    BY <1>1 DEF DllConnects
  <2>2. sendQueue = <<>> /\ playing = NoMission
    BY <2>1 DEF StreamInv
  <2>3. Stream' = Stream
    BY <1>0, <2>1, <2>2, ConcatEmptySeq DEF Stream
  <2> QED BY <2>1, <2>2, <2>3 DEF StreamInv
<1>2. CASE ReadMessage
  BY <1>2, StreamQuiet DEF ReadMessage, streamVars
<1>3. CASE ReadMixedUp
  <2>1. /\ dll = "reading" /\ dll' = "dead"
        /\ UNCHANGED <<up, sendQueue, playing, named, m_mission, earned, mistitled>>
    BY <1>3 DEF ReadMixedUp, LengthRead
  <2>2. Stream = up \o sendQueue /\ Stream' = up
    BY <2>1 DEF Stream
  <2>3. StreamBacked(up, m_mission, Creditable)
    BY <1>0, <2>2, StreamCut DEF StreamInv
  <2> QED BY <2>1, <2>2, <2>3 DEF StreamInv
<1>4. CASE SendReport
  <2>1. /\ sendQueue # <<>> /\ sendQueue' = Tail(sendQueue)
        /\ up' = IF dll = "reading" THEN Append(up, Head(sendQueue)) ELSE up
        /\ UNCHANGED <<dll, playing, named, m_mission, earned, mistitled>>
    BY <1>4 DEF SendReport
  <2>2. Stream' = Stream
    BY <1>0, <2>1, ReportMoved DEF Stream
  <2>3. dll # "absent"
    BY <2>1 DEF StreamInv
  <2> QED BY <2>1, <2>2, <2>3 DEF StreamInv
<1> QED BY <1>1, <1>2, <1>3, <1>4 DEF DllStep

LEMMA GameStepStream ==
  ASSUME TypeOK, StreamInv, GameStep
  PROVE  StreamInv'
<1>0. /\ Stream \in Seq(Reports) /\ playing \in MapCodes
      /\ named \in MapCodes /\ m_mission \in MapCodes
  BY StreamType DEF TypeOK, DllTypeOK, BridgeTypeOK
<1>e. dll = "reading" => EndsIn(Stream, m_mission, named)
  BY DEF StreamInv
<1>m. NoMission \notin Maps /\ OtherMap \in Maps /\ OtherMap \notin Missions
  BY MissionCountAssumption DEF Maps, Missions, NoMission, OtherMap
<1>1. ASSUME NEW load \in Loads, GameLoads(load[1], load[2]) PROVE StreamInv'
  <2> DEFINE r == [kind |-> "MISSION_LOAD",
                   mission |-> IF load[2] THEN load[1] ELSE NoMission]
  <2>1. load[1] \in Maps /\ load[2] \in BOOLEAN
    BY SessionAssumption
  <2>2. r \in Reports
    BY <2>1, Zenon DEF Reports, MapCodes
  <2>3. /\ Report(r) /\ named' = IF load[2] THEN load[1] ELSE named
        /\ UNCHANGED <<up, m_mission, earned, mistitled>>
    BY <1>1 DEF GameLoads, Report
  <2>4. \A x : Backed(r, x, Creditable')
    BY DEF Backed
  <2>5. EndsIn(Append(Stream, r), m_mission, named')
    <3>1. CASE load[2]
      <4>1. Names(r) /\ r.mission = load[1] /\ named' = load[1]
        BY <1>m, <2>1, <2>3, <3>1 DEF Names
      <4> HIDE DEF r
      <4> QED BY <1>0, <2>2, <4>1, EndsInLoaded
    <3>2. CASE ~load[2]
      <4>1. ~Names(r) /\ named' = named
        BY <2>3, <3>2 DEF Names
      <4>2. EndsIn(Stream, m_mission, named)
        BY <1>e, <2>3 DEF Report
      <4> HIDE DEF r
      <4> QED BY <1>0, <2>2, <4>1, <4>2, EndsInAppend
    <3> QED BY <3>1, <3>2
  <2> HIDE DEF r
  <2> QED BY <2>2, <2>3, <2>4, <2>5, StreamReported
<1>2. ASSUME NEW readable \in BOOLEAN, GameWon(readable) PROVE StreamInv'
  <2> DEFINE r == [kind |-> "MISSION_COMPLETE",
                   mission |-> IF readable THEN playing ELSE OtherMap]
  <2>1. /\ Report(r) /\ playing # NoMission
        /\ UNCHANGED <<up, m_mission, named, mistitled>>
        /\ earned' = IF readable /\ playing \in Missions
                       THEN earned \cup {CompletionLocation(playing)} ELSE earned
    BY <1>2 DEF GameWon, Report
  <2>2. r \in Reports /\ ~Names(r)
    BY <1>0, <1>m, <2>1 DEF Reports, MapCodes, Names
  <2>3. \A x : Backed(r, x, Creditable')
    BY <1>m, <2>1 DEF Backed
  <2>4. EndsIn(Stream, m_mission, named)
    BY <1>e, <2>1 DEF Report
  <2> HIDE DEF r
  <2>5. EndsIn(Append(Stream, r), m_mission, named)
    BY <1>0, <2>2, <2>4, EndsInAppend
  <2> QED BY <2>1, <2>2, <2>3, <2>5, StreamReported
<1>3. ASSUME NEW i \in ChapterIndices, ChapterShown(i) PROVE StreamInv'
  <2> DEFINE r == [kind |-> "CHAPTER", index |-> i]
  <2>1. /\ Report(r) /\ UNCHANGED <<up, m_mission, named>>
        /\ Creditable \subseteq Creditable'
        /\ TitleOf(named, i) \subseteq Creditable'
    BY <1>3 DEF ChapterShown, Report
  <2>2. r \in Reports /\ ~Names(r)
    BY DEF Reports, Names
  <2>3. EndsIn(Stream, m_mission, named)
    BY <1>e, <2>1 DEF Report
  <2>4. Backed(r, named, Creditable')
    BY <2>1 DEF Backed, TitleOf
  <2>5. \A x \in MapCodes :
          InEffect(Stream, m_mission, Len(Stream) + 1, x) => Backed(r, x, Creditable')
    BY <2>3, <2>4 DEF EndsIn
  <2> HIDE DEF r
  <2>6. EndsIn(Append(Stream, r), m_mission, named)
    BY <1>0, <2>2, <2>3, EndsInAppend
  <2> QED BY <2>1, <2>2, <2>5, <2>6, StreamReported
<1>4. ASSUME NEW loc \in SkullLocations, SkullClaimed(loc) PROVE StreamInv'
  <2> DEFINE r == [kind |-> "LOCATION_CHECKED", location |-> loc]
  <2>1. /\ Report(r) /\ UNCHANGED <<up, m_mission, named>>
        /\ Creditable \subseteq Creditable' /\ loc \in Creditable'
    BY <1>4 DEF SkullClaimed, Report
  <2>2. r \in Reports /\ ~Names(r)
    BY DEF Reports, Names
  <2>3. EndsIn(Stream, m_mission, named)
    BY <1>e, <2>1 DEF Report
  <2>4. \A x : Backed(r, x, Creditable')
    BY <2>1 DEF Backed
  <2> HIDE DEF r
  <2>5. EndsIn(Append(Stream, r), m_mission, named)
    BY <1>0, <2>2, <2>3, EndsInAppend
  <2> QED BY <2>1, <2>2, <2>4, <2>5, StreamReported
<1>5. CASE ShellCommand
  <2>1. /\ playing' = NoMission
        /\ UNCHANGED <<up, dll, sendQueue, named, m_mission, earned, mistitled>>
    BY <1>5 DEF ShellCommand
  <2>2. Stream' = Stream
    BY <2>1 DEF Stream
  <2> QED BY <2>1, <2>2 DEF StreamInv
<1> QED BY <1>1, <1>2, <1>3, <1>4, <1>5 DEF GameStep

LEMMA StreamStep ==
  ASSUME TypeOK, StreamInv, [Next]_vars
  PROVE  StreamInv'
<1>1. CASE UNCHANGED vars
  BY <1>1, StreamQuiet DEF vars, streamVars
<1>2. CASE PollStep
  BY <1>2, PollStepQuiet, StreamQuiet
<1>3. CASE PipeStep
  BY <1>3, PipeStepQuiet, StreamQuiet, HandleReportStream
<1>4. CASE MainStep
  BY <1>4, MainStepQuiet, StreamQuiet
<1>5. CASE DllConnects \/ DllStep \/ SendReport
  BY <1>5, DllStepStream
<1>6. CASE GameStep
  BY <1>6, GameStepStream
<1>7. CASE ServerReads \/ LinkBreaks \/ \E item \in Items : ServerGrants(item)
  BY <1>7, StreamQuiet DEF ServerReads, LinkBreaks, ServerGrants, streamVars
<1> QED BY <1>1, <1>2, <1>3, <1>4, <1>5, <1>6, <1>7 DEF Next

LEMMA StreamInit == Init => StreamInv
BY EmptySeq DEF Init, StreamInv, StreamBacked, Stream, EndsIn, InEffect

-----------------------------------------------------------------------------
(***************************************************************************)
(* From the report to the server.                                          *)
(***************************************************************************)
LEMMA EarnedGrows ==
  ASSUME [Next]_vars
  PROVE  /\ earned \subseteq earned' /\ mistitled \subseteq mistitled'
         /\ mistitled' \subseteq mistitled \cup Titles
<1>1. CASE UNCHANGED vars
  BY <1>1 DEF vars
<1>2. CASE PollStep \/ MainStep
  BY <1>2, PollStepQuiet, MainStepQuiet DEF streamVars
<1>3. CASE PipeStep
  <2>1. CASE HandleReport
    BY <2>1 DEF HandleReport, HandleMissionLoad, HandleMissionComplete,
       HandleChapter, HandleLocationChecked
  <2> QED BY <1>3, <2>1, PipeStepQuiet DEF streamVars
<1>4. CASE DllConnects \/ DllStep \/ SendReport
  BY <1>4 DEF DllConnects, DllStep, ReadMessage, ReadMixedUp, SendReport
<1>5. CASE GameStep
  BY <1>5 DEF GameStep, GameLoads, GameWon, ChapterShown, SkullClaimed,
     ShellCommand, TitleOf, Titles
<1>6. CASE ServerReads \/ LinkBreaks \/ \E item \in Items : ServerGrants(item)
  BY <1>6 DEF ServerReads, LinkBreaks, ServerGrants
<1> QED BY <1>1, <1>2, <1>3, <1>4, <1>5, <1>6 DEF Next

LEMMA PacketsKept ==
  ASSUME PacketsBacked, UNCHANGED toServer, Creditable \subseteq Creditable'
  PROVE  PacketsBacked'
BY DEF PacketsBacked

LEMMA PacketsSent ==
  ASSUME TypeOK, PacketsBacked, NEW packet \in Packets, ToServer(packet),
         packet.cmd = "LocationChecks" => packet.locations \subseteq Creditable,
         UNCHANGED Creditable
  PROVE  PacketsBacked'
<1>1. toServer \in Seq(Packets)
  BY DEF TypeOK, ServerTypeOK
<1>2. CASE link
  <2> DEFINE q == toServer'
             L == Len(toServer)
  <2>1. q = Append(toServer, packet)
    BY <1>2 DEF ToServer
  <2>2. /\ Len(q) = L + 1 /\ L \in Nat
        /\ \A n \in 1 .. L : q[n] = toServer[n]
        /\ q[L + 1] = packet
    BY <1>1, <2>1, AppendedChunk
  <2> HIDE DEF q, L
  <2>3. ASSUME NEW n \in 1 .. L + 1, q[n].cmd = "LocationChecks"
        PROVE  q[n].locations \subseteq Creditable
    <3>1. CASE n \in 1 .. L
      BY <2>2, <2>3, <3>1 DEF PacketsBacked, L
    <3>2. CASE n = L + 1
      BY <2>2, <2>3, <3>2
    <3> QED BY <2>2, <3>1, <3>2
  <2> QED BY <2>2, <2>3 DEF PacketsBacked, q
<1>3. CASE ~link
  BY <1>3 DEF ToServer, PacketsBacked
<1> QED BY <1>2, <1>3

\* A step that touches none of what the credit is about.
LEMMA CreditQuiet ==
  ASSUME CreditInv, Creditable \subseteq Creditable',
         UNCHANGED <<srvChecked, clientChecked, checkQueue, m_checkedLocations,
                     toServer, location>>,
         Recording' => Recording
  PROVE  CreditInv'
BY PacketsKept DEF CreditInv

LEMMA SendStepRecording ==
  ASSUME TypeOK, NEW t \in Threads, SendStep(t)
  PROVE  Recording' => Recording
<1>1. pc \in [Threads -> AllLabels] /\ "pipe" \in Threads
  BY DEF TypeOK, ThreadTypeOK, Threads
<1>2. PICK l : /\ pc' = [pc EXCEPT ![t] = l]
               /\ t = "pipe" => l \notin {"sendLocation", "locationChecks", "track"}
  BY DEF SendStep, SendToNobody, WriteLength, WriteBody, SkipCompletionState,
     SendCompleted, SendFinalMission, ReleaseChecked, CallSend, Goto, AfterSend,
     AfterCompletionState
<1> QED BY <1>1, <1>2 DEF Recording

LEMMA PollStepCredit ==
  ASSUME TypeOK, CreditInv, PollStep
  PROVE  CreditInv'
<1>0. /\ "poll" \in Threads /\ pc \in [Threads -> AllLabels]
      /\ Creditable' = Creditable /\ UNCHANGED <<srvChecked, location>>
  BY PollStepQuiet DEF Threads, TypeOK, ThreadTypeOK
<1>1. CASE SendStep("poll")
  BY <1>0, <1>1, SendStepQuiet, SendStepRecording, CreditQuiet
<1>2. ASSUME ~SendStep("poll") PROVE Recording' => Recording
  <2>1. PICK l : pc' = [pc EXCEPT !["poll"] = l]
    BY <1>2 DEF PollStep, SlotConnected, MergeChecked, ReadSlotData,
       SocketClosed, SocketDisconnected, ItemsReceived, BufferItem, ItemsDone,
       Goto, CallSend
  <2>2. pc'["pipe"] = pc["pipe"]
    BY <1>0, <2>1
  <2> QED BY <2>2 DEF Recording
<1>3. CASE SlotConnected
  <2>1. /\ clientChecked' = srvChecked \cup checkQueue /\ checkQueue' = {}
        /\ UNCHANGED m_checkedLocations
        /\ toServer' = IF checkQueue = {} THEN <<>>
             ELSE <<[cmd |-> "LocationChecks", locations |-> checkQueue]>>
    BY <1>3 DEF SlotConnected
  <2>2. PacketsBacked'
    <3>1. CASE checkQueue = {}
      BY <2>1, <3>1 DEF PacketsBacked
    <3>2. CASE checkQueue # {}
      <4>1. /\ Len(toServer') = 1
            /\ toServer'[1] = [cmd |-> "LocationChecks", locations |-> checkQueue]
        BY <2>1, <3>2
      <4>2. \A n \in 1 .. Len(toServer') : toServer'[n].locations = checkQueue
        BY <4>1
      <4> QED BY <1>0, <4>2 DEF PacketsBacked, CreditInv
    <3> QED BY <3>1, <3>2
  <2>3. Recording' = Recording
    BY <1>0, <1>3 DEF SlotConnected, Goto, Recording
  <2> QED BY <1>0, <2>1, <2>2, <2>3 DEF CreditInv
<1>4. CASE MergeChecked
  <2>1. /\ m_checkedLocations' = m_checkedLocations \cup clientChecked
        /\ UNCHANGED <<clientChecked, checkQueue, toServer>>
    BY <1>4 DEF MergeChecked
  <2>2. Recording' = Recording
    BY <1>0, <1>4 DEF MergeChecked, Goto, Recording
  <2> QED BY <1>0, <2>1, <2>2, PacketsKept DEF CreditInv
<1>5. CASE ~SendStep("poll") /\ ~SlotConnected /\ ~MergeChecked
  <2>1. UNCHANGED <<clientChecked, checkQueue, m_checkedLocations, toServer>>
    BY <1>5 DEF PollStep, ReadSlotData, SocketClosed, SocketDisconnected,
       ItemsReceived, BufferItem, ItemsDone
  <2> QED BY <1>0, <1>2, <1>5, <2>1, CreditQuiet
<1> QED BY <1>1, <1>3, <1>4, <1>5

LEMMA PipeStepCredit ==
  ASSUME TypeOK, StreamInv, CreditInv, PipeStep
  PROVE  CreditInv'
<1>0. "pipe" \in Threads /\ pc \in [Threads -> AllLabels] /\ location \in Int
  BY DEF Threads, TypeOK, ThreadTypeOK, LocalTypeOK
<1>1. CASE SendStep("pipe")
  BY <1>0, <1>1, SendStepQuiet, SendStepRecording, CreditQuiet
<1>2. CASE HandleReport
  <2>1. /\ up # <<>>
        /\ UNCHANGED <<srvChecked, clientChecked, checkQueue, toServer,
                       m_checkedLocations, earned, mistitled>>
    BY <1>2 DEF HandleReport, HandleMissionLoad, HandleMissionComplete,
       HandleChapter, HandleLocationChecked, TakeReport
  <2>2. Backed(Head(up), m_mission, Creditable)
    BY <2>1, HeadBacked
  <2>3. location' \in Creditable \/ UNCHANGED <<location, pc>>
    <3>1. CASE HandleMissionLoad
      BY <3>1 DEF HandleMissionLoad
    <3>2. CASE HandleMissionComplete
      BY <2>2, <3>2 DEF HandleMissionComplete, TakeReport, BeginSendLocation, Backed
    <3>3. CASE HandleChapter
      BY <2>2, <3>3 DEF HandleChapter, TakeReport, BeginSendLocation, Backed
    <3>4. CASE HandleLocationChecked
      BY <2>2, <3>4 DEF HandleLocationChecked, TakeReport, BeginSendLocation, Backed
    <3> QED BY <1>2, <3>1, <3>2, <3>3, <3>4 DEF HandleReport
  <2>4. Recording' => location' \in Creditable
    BY <2>3 DEF CreditInv, Recording
  <2> QED BY <2>1, <2>4, PacketsKept DEF CreditInv
<1>3. CASE PipeAccepts
  <2>1. ~Recording'
    BY <1>0, <1>3 DEF PipeAccepts, Goto, Recording
  <2> QED BY <1>3, <2>1, CreditQuiet DEF PipeAccepts
<1>4. CASE DropLocation
  <2>1. ~Recording'
    BY <1>0, <1>4 DEF DropLocation, Goto, Recording
  <2> QED BY <1>4, <2>1, CreditQuiet DEF DropLocation
<1>5. CASE MarkSent
  <2>1. Recording
    BY <1>5 DEF MarkSent, Recording
  <2> QED BY <1>5, <2>1, CreditQuiet DEF MarkSent
<1>6. CASE LocationChecks
  <2>1. location \in Creditable
    BY <1>6 DEF LocationChecks, CreditInv, Recording
  <2>2. /\ UNCHANGED <<srvChecked, m_checkedLocations, location, earned, mistitled>>
        /\ clientChecked' = clientChecked \cup {location}
        /\ checkQueue' \subseteq checkQueue \cup {location}
    BY <1>6 DEF LocationChecks
  <2>3. PacketsBacked'
    <3> DEFINE packet == [cmd |-> "LocationChecks", locations |-> {location}]
    <3>1. packet \in Packets /\ packet.locations \subseteq Creditable
      BY <1>0, <2>1 DEF Packets
    <3>2. CASE CanSendChecks
      <4>1. ToServer(packet)
        BY <1>6, <3>2 DEF LocationChecks
      <4> HIDE DEF packet
      <4> QED BY <2>2, <3>1, <4>1, PacketsSent DEF CreditInv
    <3>3. CASE ~CanSendChecks
      BY <1>6, <2>2, <3>3, PacketsKept DEF LocationChecks, CreditInv
    <3> QED BY <3>2, <3>3
  <2> QED BY <2>1, <2>2, <2>3 DEF CreditInv
<1>7. CASE TrackChecked
  <2>1. location \in Creditable
    BY <1>7 DEF TrackChecked, CreditInv, Recording
  <2> QED BY <1>7, <2>1, PacketsKept DEF TrackChecked, CreditInv
<1>8. CASE ReportGoal
  <2>1. ~Recording'
    BY <1>0, <1>8 DEF ReportGoal, Goto, Recording
  <2>2. UNCHANGED <<srvChecked, clientChecked, checkQueue, m_checkedLocations, earned, mistitled>>
    BY <1>8 DEF ReportGoal
  <2>3. PacketsBacked'
    <3> DEFINE packet == [cmd |-> "StatusUpdate"]
    <3>1. packet \in Packets /\ packet.cmd # "LocationChecks"
      BY DEF Packets
    <3>2. ToServer(packet) \/ UNCHANGED toServer
      BY <1>8 DEF ReportGoal
    <3> HIDE DEF packet
    <3> QED BY <2>2, <3>1, <3>2, PacketsSent, PacketsKept DEF CreditInv
  <2> QED BY <2>1, <2>2, <2>3 DEF CreditInv
<1> QED BY <1>1, <1>2, <1>3, <1>4, <1>5, <1>6, <1>7, <1>8
        DEF PipeStep, HandleReport

LEMMA MainStepCredit ==
  ASSUME TypeOK, CreditInv, MainStep
  PROVE  CreditInv'
<1>0. "main" \in Threads /\ pc \in [Threads -> AllLabels]
  BY DEF Threads, TypeOK, ThreadTypeOK
<1>1. CASE SendStep("main")
  BY <1>0, <1>1, SendStepRecording, SendStepQuiet, CreditQuiet
<1>2. CASE ~SendStep("main")
  <2>1. Recording' => Recording
    <3>1. CASE StartPipe
      BY <1>0, <3>1 DEF StartPipe, Threads, Recording
    <3>2. CASE ~StartPipe
      <4>1. PICK l : pc' = [pc EXCEPT !["main"] = l]
        BY <1>2, <3>2 DEF MainStep, SlotSeen, SlotTimeout, SetSendToDll,
           ReplayTier, LockBuffer, ReplayItem, ReplayDone, Goto, CallSend
      <4>2. pc'["pipe"] = pc["pipe"]
        BY <1>0, <4>1
      <4> QED BY <4>2 DEF Recording
    <3> QED BY <3>1, <3>2
  <2> QED BY <2>1, MainStepQuiet, CreditQuiet
<1> QED BY <1>1, <1>2

LEMMA ServerStepCredit ==
  ASSUME TypeOK, CreditInv,
         ServerReads \/ LinkBreaks \/ \E item \in Items : ServerGrants(item)
  PROVE  CreditInv'
<1>0. UNCHANGED <<clientChecked, checkQueue, m_checkedLocations, location, pc, earned, mistitled>>
  BY DEF ServerReads, LinkBreaks, ServerGrants
<1>1. Recording' = Recording
  BY <1>0 DEF Recording
<1>2. CASE ServerReads
  <2>1. /\ toServer \in Seq(Packets) /\ toServer # <<>>
        /\ toServer' = Tail(toServer) /\ Head(toServer) = toServer[1]
    BY <1>2 DEF ServerReads, TypeOK, ServerTypeOK
  <2>2. 1 \in 1 .. Len(toServer)
    BY <2>1, EmptySeq
  <2>3. srvChecked' \subseteq Creditable
    BY <1>2, <2>1, <2>2 DEF ServerReads, CreditInv, PacketsBacked
  <2>4. PacketsBacked'
    <3>1. /\ Len(toServer') = Len(toServer) - 1 /\ Len(toServer) \in Nat \ {0}
          /\ \A n \in 1 .. Len(toServer) - 1 : toServer'[n] = toServer[n + 1]
      BY <2>1, RestOfStream
    <3>2. \A n \in 1 .. Len(toServer') :
            n + 1 \in 1 .. Len(toServer) /\ toServer'[n] = toServer[n + 1]
      BY <3>1
    <3> QED BY <1>0, <3>2 DEF PacketsBacked, CreditInv
  <2> QED BY <1>0, <1>1, <2>3, <2>4 DEF CreditInv
<1>3. CASE LinkBreaks
  BY <1>0, <1>1, <1>3 DEF LinkBreaks, CreditInv, PacketsBacked
<1>4. CASE \E item \in Items : ServerGrants(item)
  BY <1>0, <1>1, <1>4, CreditQuiet DEF ServerGrants
<1> QED BY <1>2, <1>3, <1>4

LEMMA CreditStep ==
  ASSUME TypeOK, StreamInv, CreditInv, [Next]_vars
  PROVE  CreditInv'
<1>0. Creditable \subseteq Creditable'
  BY EarnedGrows
<1>1. CASE UNCHANGED vars
  BY <1>1, CreditQuiet DEF vars, Recording
<1>2. CASE DllConnects \/ DllStep \/ SendReport
  BY <1>0, <1>2, CreditQuiet
     DEF DllConnects, DllStep, ReadMessage, ReadMixedUp, SendReport, Recording
<1>3. CASE GameStep
  BY <1>0, <1>3, CreditQuiet DEF GameStep, GameLoads, GameWon, ChapterShown,
     SkullClaimed, ShellCommand, Report, Recording
<1> QED BY <1>1, <1>2, <1>3, PollStepCredit, PipeStepCredit, MainStepCredit,
           ServerStepCredit DEF Next

LEMMA CreditInit == Init => CreditInv
BY DEF Init, CreditInv, PacketsBacked, Recording

\* The reports under way stay backed by what the player did.
THEOREM StreamHolds == Spec => []StreamInv
<1>1. TypeOK /\ StreamInv /\ [Next]_vars => StreamInv'
  BY StreamStep
<1> QED BY <1>1, StreamInit, TypeCorrect, PTL DEF Spec

THEOREM CreditHolds == Spec => []CreditInv
<1>1. TypeOK /\ StreamInv /\ CreditInv /\ [Next]_vars => CreditInv'
  BY CreditStep
<1> QED BY <1>1, CreditInit, StreamHolds, TypeCorrect, PTL DEF Spec

\* Neither the server nor the bridge ever records a location the player has
\* not earned, whatever loads a chapter's report is overtaken by, but for titles
\* shown after a load whose path the bridge could not read: such a one is
\* credited to the map of the last load before with a path to read.
THEOREM CreditIsEarned == Spec => []CreditedWasEarned
<1>1. CreditInv => CreditedWasEarned
  BY DEF CreditInv, CreditedWasEarned
<1> QED BY <1>1, CreditHolds, PTL

-----------------------------------------------------------------------------
(***************************************************************************)
(* What the launcher sends to the DLL: items the server has granted, and   *)
(* the last mission as the final one.                                      *)
(***************************************************************************)
LastIsFinal == SlotFinal = MISSION_COUNT - 1

Sound(m) ==
  /\ m.kind = "FINAL_MISSION" => m.mission = SlotFinal
  /\ m.kind = "ITEM_RECIVED" => m.item \in Granted

SoundChunks == {c \in Chunks : Sound(c.msg)}

MessageInv ==
  /\ m_finalMission = SlotFinal /\ dllFinal = SlotFinal
  /\ fromServer \in Seq(Seq(Granted))
  /\ todo \in Seq(Granted)
  /\ m_itemBuffer \in Seq(Granted)
  /\ \A t \in Threads : Sound(msg[t])
  /\ down \in Seq(SoundChunks)

LEMMA GrantedItems ==
  ASSUME TypeOK
  PROVE  srvItems \in Seq(Granted)
<1>1. /\ srvItems \in Seq(Items) /\ Len(srvItems) \in Nat
      /\ \A n \in 1 .. Len(srvItems) : srvItems[n] \in Granted
  BY DEF TypeOK, ServerTypeOK, Granted
<1>2. srvItems \in [1 .. Len(srvItems) -> Granted]
  BY <1>1, LenProperties
<1> QED BY <1>1, <1>2, SeqDef

LEMMA RestByTwoType ==
  ASSUME NEW S, NEW s \in Seq(S), Len(s) >= 2
  PROVE  s[2] \in S /\ Tail(Tail(s)) \in Seq(S)
<1>1. s # <<>> /\ s[2] \in S
  BY EmptySeq
<1> DEFINE r == Tail(s)
<1>2. r \in Seq(S) /\ Len(r) = Len(s) - 1
  BY <1>1
<1> HIDE DEF r
<1>3. Tail(r) \in Seq(S)
  BY <1>2, RestIsSeq
<1> QED BY <1>1, <1>3 DEF r

\* A step that grants nothing, with what each thread sends still sound.
LEMMA MessageQuiet ==
  ASSUME MessageInv, UNCHANGED <<srvItems, m_finalMission, dllFinal>>,
         fromServer' \in Seq(Seq(Granted)), todo' \in Seq(Granted),
         m_itemBuffer' \in Seq(Granted), down' \in Seq(SoundChunks),
         \A t \in Threads : Sound(msg'[t])
  PROVE  MessageInv'
<1>1. Granted' = Granted
  BY DEF Granted
<1>2. SoundChunks' = SoundChunks
  BY <1>1 DEF SoundChunks, Sound
<1> QED BY <1>1, <1>2 DEF MessageInv, Sound

LEMMA MessageSame ==
  ASSUME MessageInv, UNCHANGED <<srvItems, m_finalMission, dllFinal, fromServer,
                                 todo, m_itemBuffer, msg, down>>
  PROVE  MessageInv'
BY MessageQuiet DEF MessageInv

LEMMA SoundCall ==
  ASSUME TypeOK, MessageInv, NEW t \in Threads, NEW m, Sound(m),
         msg' = [msg EXCEPT ![t] = m]
  PROVE  \A u \in Threads : Sound(msg'[u])
BY DEF MessageInv, TypeOK, ThreadTypeOK

LEMMA SoundNone == Sound(NoMessage)
BY DEF Sound, NoMessage

LEMMA SendStepMessages ==
  ASSUME TypeOK, MessageInv, NEW t \in Threads, SendStep(t)
  PROVE  MessageInv'
<1>0. UNCHANGED <<srvItems, m_finalMission, dllFinal, fromServer, todo, m_itemBuffer>>
  BY DEF SendStep, SendToNobody, WriteLength, WriteBody, SkipCompletionState,
     SendCompleted, SendFinalMission, ReleaseChecked
<1>1. \A u \in Threads : Sound(msg'[u])
  <2>1. CASE SendCompleted(t)
    <3> DEFINE m == [kind |-> "COMPLETED",
                     missions |-> CheckedMissions(m_checkedLocations)]
    <3>1. Sound(m) /\ msg' = [msg EXCEPT ![t] = m]
      BY <2>1 DEF SendCompleted, CallSend, Sound
    <3> HIDE DEF m
    <3> QED BY <3>1, SoundCall
  <2>2. CASE SendFinalMission(t)
    <3> DEFINE m == [kind |-> "FINAL_MISSION", mission |-> m_finalMission]
    <3>1. Sound(m) /\ msg' = [msg EXCEPT ![t] = m]
      BY <2>2 DEF SendFinalMission, CallSend, Sound, MessageInv
    <3> HIDE DEF m
    <3> QED BY <3>1, SoundCall
  <2>3. CASE ~SendCompleted(t) /\ ~SendFinalMission(t)
    <3>1. msg' = msg \/ msg' = [msg EXCEPT ![t] = NoMessage]
      BY <2>3 DEF SendStep, SendToNobody, WriteLength, WriteBody,
         SkipCompletionState, ReleaseChecked
    <3> QED BY <3>1, SoundCall, SoundNone DEF MessageInv
  <2> QED BY <2>1, <2>2, <2>3
<1>2. down' \in Seq(SoundChunks)
  <2>1. CASE WriteLength(t) \/ WriteBody(t)
    <3>1. PICK part \in {"length", "body"} : Write(t, part)
      BY <2>1 DEF WriteLength, WriteBody
    <3> DEFINE c == [from |-> t, part |-> part, msg |-> msg[t]]
    <3>2. msg[t] \in Messages /\ Sound(msg[t])
      BY <2>1 DEF WriteLength, WriteBody, TypeOK, ThreadTypeOK, Sending, MessageInv
    <3>3. c \in SoundChunks /\ down' = Append(down, c)
      BY <3>1, <3>2 DEF SoundChunks, Chunks, Write
    <3> HIDE DEF c
    <3> QED BY <3>3 DEF MessageInv
  <2>2. CASE ~(WriteLength(t) \/ WriteBody(t))
    BY <2>2 DEF SendStep, SendToNobody, SkipCompletionState, SendCompleted,
       SendFinalMission, ReleaseChecked, MessageInv
  <2> QED BY <2>1, <2>2
<1> QED BY <1>0, <1>1, <1>2, MessageQuiet DEF MessageInv

LEMMA PollStepMessages ==
  ASSUME TypeOK, MessageInv, PollStep
  PROVE  MessageInv'
<1>0. "poll" \in Threads
  BY DEF Threads
<1>1. CASE SendStep("poll")
  BY <1>0, <1>1, SendStepMessages
<1>2. CASE SlotConnected
  <2>1. fromServer' \in Seq(Seq(Granted))
    BY <1>2, GrantedItems DEF SlotConnected
  <2>2. UNCHANGED <<srvItems, m_finalMission, dllFinal, todo, m_itemBuffer, msg, down>>
    BY <1>2 DEF SlotConnected
  <2> QED BY <2>1, <2>2, MessageQuiet DEF MessageInv
<1>3. CASE ReadSlotData
  <2>1. /\ m_finalMission' = m_finalMission
        /\ UNCHANGED <<srvItems, dllFinal, fromServer, todo, m_itemBuffer, msg, down>>
    BY <1>3 DEF ReadSlotData, SlotMission, MessageInv
  <2> QED BY <2>1, MessageSame
<1>4. CASE ItemsReceived
  <2>1. /\ todo' = Head(fromServer) /\ fromServer' = Tail(fromServer)
        /\ fromServer # <<>>
        /\ UNCHANGED <<srvItems, m_finalMission, dllFinal, m_itemBuffer, msg, down>>
    BY <1>4 DEF ItemsReceived
  <2>2. fromServer \in Seq(Seq(Granted))
    BY DEF MessageInv
  <2>3. todo' \in Seq(Granted) /\ fromServer' \in Seq(Seq(Granted))
    BY <2>1, <2>2, HeadTailProperties
  <2> QED BY <2>1, <2>3, MessageQuiet DEF MessageInv
<1>5. CASE BufferItem
  <2> DEFINE m == [kind |-> "ITEM_RECIVED", item |-> Head(todo)]
  <2>1. /\ todo # <<>> /\ todo' = Tail(todo)
        /\ m_itemBuffer' = Append(m_itemBuffer, Head(todo))
        /\ msg' = [msg EXCEPT !["poll"] = m]
        /\ UNCHANGED <<srvItems, m_finalMission, dllFinal, fromServer, down>>
    BY <1>5 DEF BufferItem, PushItem, CallSend
  <2>2. todo \in Seq(Granted) /\ m_itemBuffer \in Seq(Granted)
    BY DEF MessageInv
  <2>3. Head(todo) \in Granted /\ todo' \in Seq(Granted)
    BY <2>1, <2>2, HeadTailProperties
  <2>4. m_itemBuffer' \in Seq(Granted)
    BY <2>1, <2>2, <2>3
  <2>5. Sound(m)
    BY <2>3 DEF Sound
  <2> HIDE DEF m
  <2>6. \A u \in Threads : Sound(msg'[u])
    BY <1>0, <2>1, <2>5, SoundCall
  <2> QED BY <2>1, <2>3, <2>4, <2>6, MessageQuiet DEF MessageInv
<1>6. CASE MergeChecked \/ SocketClosed \/ SocketDisconnected \/ ItemsDone
  BY <1>6, MessageSame DEF MergeChecked, SocketClosed, SocketDisconnected, ItemsDone
<1> QED BY <1>1, <1>2, <1>3, <1>4, <1>5, <1>6 DEF PollStep

LEMMA MainStepMessages ==
  ASSUME TypeOK, MessageInv, MainStep
  PROVE  MessageInv'
<1>0. "main" \in Threads
  BY DEF Threads
<1>1. CASE SendStep("main")
  BY <1>0, <1>1, SendStepMessages
<1>2. CASE ReplayTier
  <2> DEFINE m == [kind |-> "SKULLSANITY", tier |-> m_skullsanityTier]
  <2>1. /\ msg' = msg \/ msg' = [msg EXCEPT !["main"] = m]
        /\ UNCHANGED <<srvItems, m_finalMission, dllFinal, fromServer, todo,
                       m_itemBuffer, down>>
    BY <1>2 DEF ReplayTier, CallSend
  <2>2. Sound(m)
    BY DEF Sound
  <2> HIDE DEF m
  <2>3. \A u \in Threads : Sound(msg'[u])
    BY <1>0, <2>1, <2>2, SoundCall DEF MessageInv
  <2> QED BY <2>1, <2>3, MessageQuiet DEF MessageInv
<1>3. CASE ReplayItem
  <2> DEFINE m == [kind |-> "ITEM_RECIVED", item |-> m_itemBuffer[replayed + 1]]
  <2>1. /\ replayed < Len(m_itemBuffer) /\ msg' = [msg EXCEPT !["main"] = m]
        /\ UNCHANGED <<srvItems, m_finalMission, dllFinal, fromServer, todo,
                       m_itemBuffer, down>>
    BY <1>3 DEF ReplayItem, CallSend
  <2>2. replayed + 1 \in 1 .. Len(m_itemBuffer) /\ m_itemBuffer \in Seq(Granted)
    BY <2>1 DEF MessageInv, TypeOK, LocalTypeOK, BridgeTypeOK
  <2>3. Sound(m)
    BY <2>2, ElementOfSeq DEF Sound
  <2> HIDE DEF m
  <2>4. \A u \in Threads : Sound(msg'[u])
    BY <1>0, <2>1, <2>3, SoundCall
  <2> QED BY <2>1, <2>4, MessageQuiet DEF MessageInv
<1>4. CASE SlotSeen \/ SlotTimeout \/ StartPipe \/ SetSendToDll \/ LockBuffer \/ ReplayDone
  BY <1>4, MessageSame DEF SlotSeen, SlotTimeout, StartPipe, SetSendToDll,
     LockBuffer, ReplayDone
<1> QED BY <1>1, <1>2, <1>3, <1>4 DEF MainStep

LEMMA PipeStepMessages ==
  ASSUME TypeOK, MessageInv, PipeStep
  PROVE  MessageInv'
<1>0. "pipe" \in Threads
  BY DEF Threads
<1>1. CASE SendStep("pipe")
  BY <1>0, <1>1, SendStepMessages
<1>2. CASE ~SendStep("pipe")
  BY <1>2, MessageSame DEF PipeStep, PipeAccepts, HandleMissionLoad,
     HandleMissionComplete, HandleChapter, HandleLocationChecked, TakeReport,
     BeginSendLocation, DropLocation, MarkSent, LocationChecks, TrackChecked,
     ReportGoal
<1> QED BY <1>1, <1>2

LEMMA DllStepMessages ==
  ASSUME TypeOK, MessageInv, DllConnects \/ DllStep \/ SendReport \/ GameStep
  PROVE  MessageInv'
<1>1. ASSUME LengthRead
      PROVE  down[2] \in SoundChunks /\ Tail(Tail(down)) \in Seq(SoundChunks)
  BY <1>1, RestByTwoType DEF LengthRead, MessageInv
<1>2. CASE ReadMessage
  <2>1. /\ LengthRead /\ down' = Tail(Tail(down)) /\ HandleMessage(down[2].msg)
        /\ UNCHANGED <<srvItems, m_finalMission, fromServer, todo, m_itemBuffer, msg>>
    BY <1>2 DEF ReadMessage
  <2>2. dllFinal' = dllFinal
    <3>1. Sound(down[2].msg)
      BY <1>1, <2>1 DEF SoundChunks
    <3> QED BY <2>1, <3>1 DEF HandleMessage, ApplyItem, Sound, MessageInv
  <2> QED BY <1>1, <2>1, <2>2, MessageQuiet DEF MessageInv
<1>3. CASE ReadMixedUp
  BY <1>1, <1>3, MessageQuiet DEF ReadMixedUp, MessageInv
<1>4. CASE DllConnects \/ SendReport \/ GameStep
  BY <1>4, MessageSame DEF DllConnects, SendReport, GameStep, GameLoads, GameWon,
     ChapterShown, SkullClaimed, ShellCommand, Report
<1> QED BY <1>2, <1>3, <1>4 DEF DllStep

LEMMA ServerStepMessages ==
  ASSUME TypeOK, MessageInv,
         ServerReads \/ LinkBreaks \/ \E item \in Items : ServerGrants(item)
  PROVE  MessageInv'
<1>1. CASE ServerReads
  BY <1>1, MessageSame DEF ServerReads
<1>2. CASE LinkBreaks
  BY <1>2, MessageQuiet DEF LinkBreaks, MessageInv
<1>3. ASSUME NEW item \in Items, ServerGrants(item) PROVE MessageInv'
  <2>1. /\ srvItems' = Append(srvItems, item)
        /\ fromServer' = IF link THEN Append(fromServer, <<item>>) ELSE fromServer
        /\ UNCHANGED <<m_finalMission, dllFinal, todo, m_itemBuffer, msg, down>>
    BY <1>3 DEF ServerGrants
  <2>2. Granted' = Granted \cup {item}
    <3>1. srvItems \in Seq(Items)
      BY DEF TypeOK, ServerTypeOK
    <3>2. /\ Len(srvItems') = Len(srvItems) + 1 /\ Len(srvItems) \in Nat
          /\ \A n \in 1 .. Len(srvItems) : srvItems'[n] = srvItems[n]
          /\ srvItems'[Len(srvItems) + 1] = item
      BY <2>1, <3>1, AppendedChunk
    <3> QED BY <3>2 DEF Granted
  <2> DEFINE G == Granted
             H == Granted'
  <2>3. G \subseteq H /\ item \in H
    BY <2>2
  <2> HIDE DEF G, H
  <2>4. Seq(G) \subseteq Seq(H)
    BY <2>3, SeqMonotonic
  <2>5. Seq(Seq(G)) \subseteq Seq(Seq(H))
    BY <2>4, SeqMonotonic
  <2>6. /\ fromServer \in Seq(Seq(H)) /\ todo' \in Seq(H) /\ m_itemBuffer' \in Seq(H)
    BY <2>1, <2>4, <2>5 DEF MessageInv, G
  <2>7. fromServer' \in Seq(Seq(H))
    BY <2>1, <2>3, <2>6
  <2>8. \A m : Sound(m) => Sound(m)'
    BY <2>2 DEF Sound
  <2>9. SoundChunks \subseteq SoundChunks'
    BY <2>8 DEF SoundChunks
  <2>10. down \in Seq(SoundChunks')
    BY <2>9, SeqMonotonic DEF MessageInv
  <2> QED BY <2>1, <2>6, <2>7, <2>8, <2>10 DEF MessageInv, H
<1> QED BY <1>1, <1>2, <1>3

\* The messages to the DLL are sound when the last mission is the final one,
\* which is also the bridge's and the DLL's initial assumption.
THEOREM MessagesSound ==
  ASSUME LastIsFinal
  PROVE  Spec => []MessageInv
<1>1. Init => MessageInv
  BY DEF LastIsFinal, Init, MessageInv, Sound, Threads, NoMessage
<1>2. TypeOK /\ MessageInv /\ [Next]_vars => MessageInv'
  <2> SUFFICES ASSUME TypeOK, MessageInv, [Next]_vars PROVE MessageInv'
    OBVIOUS
  <2>1. CASE UNCHANGED vars
    BY <2>1, MessageSame DEF vars
  <2> QED BY <2>1, PollStepMessages, PipeStepMessages, MainStepMessages,
             DllStepMessages, ServerStepMessages DEF Next
<1> QED BY <1>1, <1>2, TypeCorrect, PTL DEF Spec

-----------------------------------------------------------------------------
(***************************************************************************)
(* The final mission and the goal.                                         *)
(***************************************************************************)
\* A title is mistaken for another title, never for a completion.
TitlesMistaken == mistitled \subseteq Titles

THEOREM MistakesAreTitles == Spec => []TitlesMistaken
<1>1. Init => TitlesMistaken
  BY DEF Init, TitlesMistaken
<1>2. TitlesMistaken /\ [Next]_vars => TitlesMistaken'
  BY EarnedGrows DEF TitlesMistaken
<1> QED BY <1>1, <1>2, PTL DEF Spec

AllBeaten == \A m \in Missions : CompletionLocation(m) \in earned

\* The final mission's completion is reported, and the goal sent, only when
\* every mission has been beaten.
GoalReports ==
  {r \in Reports :
     r.kind = "MISSION_COMPLETE" /\ r.mission = SlotFinal => AllBeaten}
GoalPackets == {p \in Packets : p.cmd = "StatusUpdate" => AllBeaten}

GoalInv ==
  /\ up \in Seq(GoalReports) /\ sendQueue \in Seq(GoalReports)
  /\ toServer \in Seq(GoalPackets)
  /\ goalMission = SlotFinal => AllBeaten
  /\ srvGoal => AllBeaten
  /\ FinalMissionEarned

LEMMA FinalIsMission == SlotFinal \in Missions /\ NoMission \notin Missions
                          /\ MISSION_COUNT \notin Missions
BY SessionAssumption, MissionCountAssumption DEF Missions, NoMission

\* What was beaten stays beaten, so the good reports and packets stay good.
LEMMA GoalGrows ==
  ASSUME earned \subseteq earned'
  PROVE  /\ AllBeaten => AllBeaten'
         /\ Seq(GoalReports) \subseteq Seq(GoalReports')
         /\ Seq(GoalPackets) \subseteq Seq(GoalPackets')
<1>1. AllBeaten => AllBeaten'
  BY DEF AllBeaten
<1>2. GoalReports \subseteq GoalReports' /\ GoalPackets \subseteq GoalPackets'
  BY <1>1 DEF GoalReports, GoalPackets
<1>3. /\ Seq(GoalReports) \subseteq Seq(GoalReports')
      /\ Seq(GoalPackets) \subseteq Seq(GoalPackets')
  BY <1>2, SeqMonotonic
<1> QED BY <1>1, <1>3

\* Steps in which nothing is earned.
LEMMA GoalQuiet ==
  ASSUME GoalInv, UNCHANGED earned,
         up' \in Seq(GoalReports), sendQueue' \in Seq(GoalReports),
         toServer' \in Seq(GoalPackets),
         goalMission' = SlotFinal => AllBeaten,
         srvGoal' => AllBeaten,
         UNCHANGED <<playing, g_quitLockedMission>>
  PROVE  GoalInv'
<1>1. AllBeaten' = AllBeaten
  BY DEF AllBeaten
<1>2. GoalReports' = GoalReports /\ GoalPackets' = GoalPackets
  BY <1>1 DEF GoalReports, GoalPackets
<1>3. FinalMissionEarned'
  BY DEF GoalInv, FinalMissionEarned
<1> QED BY <1>1, <1>2, <1>3 DEF GoalInv

LEMMA GoalSame ==
  ASSUME GoalInv, UNCHANGED <<earned, up, sendQueue, toServer, goalMission,
                              srvGoal, playing, g_quitLockedMission>>
  PROVE  GoalInv'
BY GoalQuiet DEF GoalInv

LEMMA PollStepGoal ==
  ASSUME TypeOK, GoalInv, PollStep
  PROVE  GoalInv'
<1>1. UNCHANGED <<earned, up, sendQueue, goalMission, srvGoal, playing,
                  g_quitLockedMission>>
  BY PollStepQuiet DEF streamVars
<1>2. toServer' \in Seq(GoalPackets)
  <2>1. CASE SlotConnected
    <3> DEFINE packet == [cmd |-> "LocationChecks", locations |-> checkQueue]
    <3>1. toServer' = <<>> \/ toServer' = <<packet>>
      BY <2>1 DEF SlotConnected
    <3>2. packet \in GoalPackets
      BY DEF GoalPackets, Packets, TypeOK, ServerTypeOK
    <3> DEFINE G == GoalPackets
    <3> HIDE DEF packet, G
    <3>3. <<>> \in Seq(G) /\ <<packet>> \in Seq(G)
      BY <3>2 DEF G
    <3> QED BY <3>1, <3>3 DEF G
  <2>2. CASE SendStep("poll")
    BY <2>2, SendStepQuiet DEF GoalInv, Threads
  <2>3. CASE ~SlotConnected /\ ~SendStep("poll")
    BY <2>3 DEF PollStep, MergeChecked, ReadSlotData, SocketClosed,
       SocketDisconnected, ItemsReceived, BufferItem, ItemsDone, GoalInv
  <2> QED BY <2>1, <2>2, <2>3
<1> QED BY <1>1, <1>2, GoalQuiet DEF GoalInv

LEMMA PipeStepGoal ==
  ASSUME TypeOK, MessageInv, GoalInv, PipeStep
  PROVE  GoalInv'
<1>1. CASE SendStep("pipe")
  BY <1>1, SendStepQuiet, GoalSame DEF Threads, streamVars
<1>2. CASE HandleReport
  <2>1. /\ up # <<>> /\ up' = Tail(up)
        /\ UNCHANGED <<earned, sendQueue, toServer, srvGoal, playing,
                       g_quitLockedMission>>
    BY <1>2 DEF HandleReport, HandleMissionLoad, HandleMissionComplete,
       HandleChapter, HandleLocationChecked, TakeReport, BeginSendLocation
  <2>2. Head(up) \in GoalReports /\ up' \in Seq(GoalReports)
    BY <2>1, HeadTailProperties DEF GoalInv
  <2>3. goalMission' = SlotFinal => AllBeaten
    <3>1. CASE HandleMissionComplete
      <4>1. Head(up).kind = "MISSION_COMPLETE" 
              /\ (goalMission' = Head(up).mission \/ goalMission' = goalMission)
        BY <3>1 DEF HandleMissionComplete, TakeReport, BeginSendLocation
      <4> QED BY <2>2, <4>1 DEF GoalReports, GoalInv
    <3>2. CASE ~HandleMissionComplete
      <4>1. goalMission' = NoMission \/ goalMission' = goalMission
        BY <1>2, <3>2 DEF HandleReport, HandleMissionLoad, HandleChapter,
           HandleLocationChecked, BeginSendLocation
      <4> QED BY <4>1, FinalIsMission DEF GoalInv
    <3> QED BY <3>1, <3>2
  <2> QED BY <2>1, <2>2, <2>3, GoalQuiet DEF GoalInv
<1>3. CASE LocationChecks
  <2> DEFINE packet == [cmd |-> "LocationChecks", locations |-> {location}]
  <2>1. /\ UNCHANGED <<earned, up, sendQueue, goalMission, srvGoal, playing,
                       g_quitLockedMission>>
        /\ UNCHANGED toServer \/ toServer' = Append(toServer, packet)
    BY <1>3 DEF LocationChecks, ToServer
  <2>2. packet \in GoalPackets
    BY DEF GoalPackets, Packets, TypeOK, LocalTypeOK
  <2> HIDE DEF packet
  <2>3. toServer' \in Seq(GoalPackets)
    BY <2>1, <2>2 DEF GoalInv
  <2> QED BY <2>1, <2>3, GoalQuiet DEF GoalInv
<1>4. CASE ReportGoal
  <2> DEFINE packet == [cmd |-> "StatusUpdate"]
  <2>1. /\ UNCHANGED <<earned, up, sendQueue, srvGoal, playing, g_quitLockedMission>>
        /\ goalMission' = NoMission
        /\ \/ UNCHANGED toServer
           \/ IsGoal /\ toServer' = Append(toServer, packet)
    BY <1>4 DEF ReportGoal, ToServer
  <2>2. IsGoal => packet \in GoalPackets
    BY DEF IsGoal, GoalInv, MessageInv, GoalPackets, Packets
  <2> HIDE DEF packet
  <2>3. toServer' \in Seq(GoalPackets)
    BY <2>1, <2>2 DEF GoalInv
  <2> QED BY <2>1, <2>3, FinalIsMission, GoalQuiet DEF GoalInv
<1>5. CASE PipeAccepts \/ DropLocation \/ MarkSent \/ TrackChecked
  BY <1>5, GoalSame DEF PipeAccepts, DropLocation, MarkSent, TrackChecked
<1> QED BY <1>1, <1>2, <1>3, <1>4, <1>5 DEF PipeStep, HandleReport

LEMMA DllStepGoal ==
  ASSUME GoalInv, DllConnects \/ DllStep \/ SendReport
  PROVE  GoalInv'
<1>1. CASE SendReport
  <2>1. /\ sendQueue # <<>> /\ sendQueue' = Tail(sendQueue)
        /\ up' = up \/ up' = Append(up, Head(sendQueue))
        /\ UNCHANGED <<earned, toServer, goalMission, srvGoal, playing,
                       g_quitLockedMission>>
    BY <1>1 DEF SendReport
  <2>2. /\ Head(sendQueue) \in GoalReports /\ sendQueue' \in Seq(GoalReports)
    BY <2>1, HeadTailProperties DEF GoalInv
  <2> DEFINE h == Head(sendQueue)
  <2>3. h \in GoalReports /\ (up' = up \/ up' = Append(up, h))
    BY <2>1, <2>2
  <2> HIDE DEF h
  <2>4. up' \in Seq(GoalReports)
    <3>1. up \in Seq(GoalReports)
      BY DEF GoalInv
    <3> QED BY <2>3, <3>1, AppendProperties
  <2>5. /\ toServer' \in Seq(GoalPackets)
        /\ goalMission' = SlotFinal => AllBeaten
        /\ srvGoal' => AllBeaten
    BY <2>1 DEF GoalInv
  <2> QED BY <2>1, <2>2, <2>4, <2>5, GoalQuiet
<1>2. CASE DllConnects \/ DllStep
  BY <1>2, GoalSame DEF DllConnects, DllStep, ReadMessage, ReadMixedUp
<1> QED BY <1>1, <1>2

\* A hook's report, good for what has been earned by then.
LEMMA GoalReported ==
  ASSUME GoalInv, NEW r, Report(r), r \in GoalReports', earned \subseteq earned',
         UNCHANGED <<up, toServer, goalMission, srvGoal>>, FinalMissionEarned'
  PROVE  GoalInv'
<1> DEFINE G == GoalReports'
           P == GoalPackets'
<1>1. up \in Seq(G) /\ sendQueue \in Seq(G) /\ toServer \in Seq(P)
  BY GoalGrows DEF GoalInv
<1>2. sendQueue' = Append(sendQueue, r) /\ r \in G
  BY DEF Report
<1> HIDE DEF G, P
<1>3. sendQueue' \in Seq(G)
  BY <1>1, <1>2
<1> QED BY <1>1, <1>3, GoalGrows DEF GoalInv, G, P

LEMMA GameStepGoal ==
  ASSUME LastIsFinal, TypeOK, CompletionsAreChecked, CreditInv, TitlesMistaken,
         MessageInv, GoalInv, GameStep
  PROVE  GoalInv'
<1>0. playing \in MapCodes /\ earned \subseteq earned'
  <2>1. [Next]_vars
    BY DEF Next
  <2> QED BY <2>1, EarnedGrows DEF TypeOK, DllTypeOK
<1>1. ASSUME NEW load \in Loads, GameLoads(load[1], load[2]) PROVE GoalInv'
  <2> DEFINE r == [kind |-> "MISSION_LOAD",
                   mission |-> IF load[2] THEN load[1] ELSE NoMission]
  <2>1. /\ Report(r) /\ playing' = load[1]
        /\ UNCHANGED <<up, toServer, goalMission, srvGoal, earned>>
        /\ ~g_quitLockedMission' =>
             isMissionAllowed(load[1], unlocked, completed, dllFinal)
    BY <1>1 DEF GameLoads, Report
  <2>2. r \in GoalReports'
    <3>1. load[1] \in MapCodes /\ NoMission \in MapCodes
      BY SessionAssumption DEF MapCodes
    <3>2. r \in Reports
      BY <3>1, Zenon DEF Reports
    <3> QED BY <3>2 DEF GoalReports
  <2>3. FinalMissionEarned'
    <3> SUFFICES ASSUME playing' = SlotFinal, ~g_quitLockedMission',
                        NEW x \in Missions \ {SlotFinal}
                 PROVE  CompletionLocation(x) \in earned
      BY <2>1 DEF FinalMissionEarned
    <3>1. isMissionAllowed(SlotFinal, unlocked, completed, SlotFinal)
      BY <2>1 DEF MessageInv
    <3>2. x \in completed
      BY <3>1, FinalIsMission DEF isMissionAllowed
    <3>3. x \in Decoded
      BY <3>2 DEF Decoded, OverrunCell, LastIsFinal
    <3>4. CompletionLocation(x) \in m_checkedLocations
      BY <3>3 DEF CompletionsAreChecked, CheckedMissions
    <3>5. CompletionLocation(x) \notin mistitled
      BY SessionAssumption DEF TitlesMistaken
    <3> QED BY <3>4, <3>5 DEF CreditInv
  <2> HIDE DEF r
  <2> QED BY <1>0, <2>1, <2>2, <2>3, GoalReported
<1>2. ASSUME NEW readable \in BOOLEAN, GameWon(readable) PROVE GoalInv'
  <2> DEFINE r == [kind |-> "MISSION_COMPLETE",
                   mission |-> IF readable THEN playing ELSE OtherMap]
  <2>1. /\ Report(r) /\ playing # NoMission /\ playing' = NoMission
        /\ ~g_quitLockedMission
        /\ UNCHANGED <<up, toServer, goalMission, srvGoal>>
        /\ readable /\ playing \in Missions =>
             earned' = earned \cup {CompletionLocation(playing)}
    BY <1>2 DEF GameWon, Report
  <2>2. r \in Reports
    BY <1>0, <2>1 DEF Reports, MapCodes, Maps
  <2>3. readable /\ playing = SlotFinal => AllBeaten'
    BY <2>1, FinalIsMission DEF GoalInv, FinalMissionEarned, AllBeaten
  <2>4. r \in GoalReports'
    BY <2>2, <2>3, FinalIsMission DEF GoalReports, OtherMap
  <2>5. FinalMissionEarned'
    BY <2>1, FinalIsMission DEF FinalMissionEarned
  <2> HIDE DEF r
  <2> QED BY <1>0, <2>1, <2>4, <2>5, GoalReported
<1>3. ASSUME NEW r \in Reports, r.kind # "MISSION_COMPLETE", Report(r),
             UNCHANGED <<up, toServer, goalMission, srvGoal, playing,
                         g_quitLockedMission>>
      PROVE  GoalInv'
  <2>1. r \in GoalReports'
    BY <1>3 DEF GoalReports
  <2>2. FinalMissionEarned'
    BY <1>0, <1>3 DEF FinalMissionEarned, GoalInv
  <2> QED BY <1>0, <1>3, <2>1, <2>2, GoalReported
<1>4. ASSUME NEW i \in ChapterIndices, ChapterShown(i) PROVE GoalInv'
  <2> DEFINE r == [kind |-> "CHAPTER", index |-> i]
  <2>1. r \in Reports /\ r.kind # "MISSION_COMPLETE"
    BY DEF Reports
  <2>2. /\ Report(r) /\ UNCHANGED <<up, toServer, goalMission, srvGoal, playing,
                                    g_quitLockedMission>>
    BY <1>4 DEF ChapterShown, Report
  <2> HIDE DEF r
  <2> QED BY <1>3, <2>1, <2>2
<1>5. ASSUME NEW loc \in SkullLocations, SkullClaimed(loc) PROVE GoalInv'
  <2> DEFINE r == [kind |-> "LOCATION_CHECKED", location |-> loc]
  <2>1. r \in Reports /\ r.kind # "MISSION_COMPLETE"
    BY DEF Reports
  <2>2. /\ Report(r) /\ UNCHANGED <<up, toServer, goalMission, srvGoal, playing,
                                    g_quitLockedMission>>
    BY <1>5 DEF SkullClaimed, Report
  <2> HIDE DEF r
  <2> QED BY <1>3, <2>1, <2>2
<1>6. CASE ShellCommand
  <2>1. /\ playing' = NoMission
        /\ UNCHANGED <<up, sendQueue, toServer, goalMission, srvGoal, earned>>
    BY <1>6 DEF ShellCommand
  <2>2. AllBeaten' = AllBeaten
    BY <2>1 DEF AllBeaten
  <2>3. GoalReports' = GoalReports /\ GoalPackets' = GoalPackets
    BY <2>2 DEF GoalReports, GoalPackets
  <2>4. FinalMissionEarned'
    BY <2>1, FinalIsMission DEF FinalMissionEarned
  <2> QED BY <2>1, <2>2, <2>3, <2>4 DEF GoalInv
<1> QED BY <1>1, <1>2, <1>4, <1>5, <1>6 DEF GameStep

LEMMA ServerStepGoal ==
  ASSUME GoalInv,
         ServerReads \/ LinkBreaks \/ \E item \in Items : ServerGrants(item)
  PROVE  GoalInv'
<1>0. UNCHANGED <<earned, up, sendQueue, goalMission, playing, g_quitLockedMission>>
  BY DEF ServerReads, LinkBreaks, ServerGrants
<1>1. CASE ServerReads
  <2>1. /\ toServer # <<>> /\ toServer' = Tail(toServer)
        /\ srvGoal' = srvGoal \/ Head(toServer).cmd # "LocationChecks"
    BY <1>1 DEF ServerReads
  <2>2. Head(toServer) \in GoalPackets /\ toServer' \in Seq(GoalPackets)
    BY <2>1, HeadTailProperties DEF GoalInv
  <2>3. srvGoal' => AllBeaten
    <3>1. CASE srvGoal' = srvGoal
      BY <3>1 DEF GoalInv
    <3>2. CASE Head(toServer).cmd # "LocationChecks"
      BY <2>2, <3>2 DEF GoalPackets, Packets
    <3> QED BY <2>1, <3>1, <3>2
  <2> QED BY <1>0, <2>2, <2>3, GoalQuiet DEF GoalInv
<1>2. CASE LinkBreaks
  BY <1>0, <1>2, GoalQuiet DEF LinkBreaks, GoalInv
<1>3. CASE \E item \in Items : ServerGrants(item)
  BY <1>0, <1>3, GoalSame DEF ServerGrants
<1> QED BY <1>1, <1>2, <1>3

THEOREM GoalHolds ==
  ASSUME LastIsFinal
  PROVE  Spec => []GoalInv
<1>1. Init => GoalInv
  BY FinalIsMission DEF Init, GoalInv, FinalMissionEarned
<1>2. TypeOK /\ CompletionsAreChecked /\ CreditInv /\ TitlesMistaken
        /\ MessageInv /\ GoalInv /\ [Next]_vars => GoalInv'
  <2> SUFFICES ASSUME TypeOK, CompletionsAreChecked, CreditInv, TitlesMistaken,
                      MessageInv, GoalInv, [Next]_vars
               PROVE  GoalInv'
    OBVIOUS
  <2>1. CASE UNCHANGED vars
    BY <2>1, GoalSame DEF vars
  <2>2. CASE MainStep
    BY <2>2, MainStepQuiet, GoalSame DEF streamVars
  <2> QED BY <2>1, <2>2, PollStepGoal, PipeStepGoal, DllStepGoal, GameStepGoal,
             ServerStepGoal DEF Next
<1> QED BY <1>1, <1>2, TypeCorrect, CompletionsChecked, CreditHolds,
           MistakesAreTitles, MessagesSound, PTL DEF Spec

\* The final mission is played on only when every other mission has been
\* beaten, if it is the last one (run final_unlocked shows why it has to be).
THEOREM FinalIsEarned ==
  ASSUME LastIsFinal
  PROVE  Spec => []FinalMissionEarned
<1>1. GoalInv => FinalMissionEarned
  BY DEF GoalInv
<1> QED BY <1>1, GoalHolds, PTL

\* The server records the goal only when every mission has been beaten.
THEOREM GoalIsEarned ==
  ASSUME LastIsFinal
  PROVE  Spec => []GoalEarned
<1>1. GoalInv => GoalEarned
  BY DEF GoalInv, GoalEarned, AllBeaten
<1> QED BY <1>1, GoalHolds, PTL

-----------------------------------------------------------------------------
(***************************************************************************)
(* The session implements Delivery: each step is one of its steps, or      *)
(* nothing Delivery speaks of changes.                                     *)
(***************************************************************************)
PromiseVars == <<srvItems, unlocked, skulls, earned, mistitled,
                 m_checkedLocations, srvChecked, completed, srvGoal>>

PromiseStep == [Promise!Next]_(Promise!vars)

\* The abstract session reads ids as the concrete one does.
LEMMA SameTables ==
  /\ Promise!Missions = Missions
  /\ \A item : /\ Promise!translateItemToMission(item) = translateItemToMission(item)
               /\ Promise!translateItemToSkullDisabler(item)
                    = translateItemToSkullDisabler(item)
BY DEF Promise!Missions, Missions, Promise!translateItemToMission,
   translateItemToMission, Promise!translateItemToSkullDisabler,
   translateItemToSkullDisabler, Promise!CE_OFFSET, CE_OFFSET,
   Promise!CE_SKULL_OFFSET, CE_SKULL_OFFSET, Promise!SKULL_DISABLER_COUNT,
   SKULL_DISABLER_COUNT

LEMMA PromiseQuiet ==
  ASSUME UNCHANGED PromiseVars
  PROVE  PromiseStep
BY DEF PromiseVars, PromiseStep, Promise!vars, Promise!grants, Promise!deeds,
       Promise!checks, Granted, Decoded

\* A disabler is no mission item: an item that opens a mission frees no skull.
LEMMA ItemsApart ==
  ASSUME NEW item \in Int, translateItemToMission(item) >= 0
  PROVE  translateItemToSkullDisabler(item) = -1
<1>1. item - CE_OFFSET >= 1000
  BY MissionCountAssumption DEF translateItemToMission
<1> QED BY <1>1 DEF translateItemToSkullDisabler, CE_OFFSET, CE_SKULL_OFFSET,
                    SKULL_DISABLER_COUNT

LEMMA ApplyRefines ==
  ASSUME NEW item \in Int, item \in Granted, ApplyItem(item),
         UNCHANGED <<srvItems, earned, mistitled, m_checkedLocations,
                     srvChecked, srvGoal>>
  PROVE  PromiseStep
<1> DEFINE m == translateItemToMission(item)
           k == translateItemToSkullDisabler(item)
<1>1. m \in Missions \cup {-1} /\ (m >= 0 => m \in Missions)
        /\ (m \in Missions => m >= 0)
  BY MissionOfItem, MissionCountAssumption DEF Missions
<1>2. k \in (0 .. SKULL_DISABLER_COUNT - 1) \cup {-1} /\ (m >= 0 => k = -1)
  BY SkullOfItem, ItemsApart
<1>3. (k >= 0 => k \in Nat) /\ (k \in Nat => k >= 0) /\ (m >= 0 => k \notin Nat)
        /\ (m \in Int)
  BY <1>1, <1>2, MissionCountAssumption DEF SKULL_DISABLER_COUNT, Missions
<1>4. /\ unlocked' = IF m >= 0 THEN unlocked \cup {m} ELSE unlocked
      /\ skulls' = IF m < 0 /\ k >= 0 THEN skulls \cup {k} ELSE skulls
      /\ UNCHANGED completed
  BY DEF ApplyItem
<1> HIDE DEF m, k
<1>5. unlocked' = unlocked \cup ({m} \cap Missions)
  BY <1>1, <1>4
<1>6. skulls' = skulls \cup ({k} \cap Nat)
  <2>1. CASE m >= 0
    BY <1>3, <1>4, <2>1
  <2>2. CASE ~(m >= 0)
    <3>1. m < 0
      BY <1>3, <2>2
    <3> QED BY <1>3, <1>4, <3>1
  <2> QED BY <2>1, <2>2
<1>7. Promise!Apply(item)
  BY <1>4, <1>5, <1>6, SameTables
     DEF Promise!Apply, Promise!deeds, Promise!checks, Granted, Decoded, m, k
<1> QED BY <1>7 DEF PromiseStep, Promise!Next

LEMMA RecordRefines ==
  ASSUME CreditInv', m_checkedLocations \subseteq m_checkedLocations',
         UNCHANGED <<srvItems, unlocked, skulls, earned, mistitled, srvChecked,
                     completed, srvGoal>>
  PROVE  PromiseStep
<1>1. m_checkedLocations' \subseteq earned \cup mistitled
  BY DEF CreditInv
<1>2. Promise!Record
  BY <1>1 DEF Promise!Record, Promise!grants, Promise!deeds, Granted, Decoded
<1> QED BY <1>2 DEF PromiseStep, Promise!Next

LEMMA SendStepRefines ==
  ASSUME NEW t \in Threads, SendStep(t)
  PROVE  PromiseStep
BY SendStepQuiet, PromiseQuiet DEF PromiseVars

LEMMA ThreadStepRefines ==
  ASSUME CreditInv', PollStep \/ PipeStep \/ MainStep
  PROVE  PromiseStep
<1>1. CASE MergeChecked
  BY <1>1, RecordRefines DEF MergeChecked
<1>2. CASE TrackChecked
  BY <1>2, RecordRefines DEF TrackChecked
<1>3. CASE SendStep("poll") \/ SendStep("pipe") \/ SendStep("main")
  BY <1>3, SendStepRefines DEF Threads
<1>4. CASE MainStep
  BY <1>4, MainStepQuiet, PromiseQuiet DEF PromiseVars
<1>5. CASE PollStep /\ ~MergeChecked /\ ~SendStep("poll")
  <2>1. UNCHANGED PromiseVars
    BY <1>5 DEF PollStep, SlotConnected, ReadSlotData, SocketClosed,
       SocketDisconnected, ItemsReceived, BufferItem, ItemsDone, PromiseVars
  <2> QED BY <2>1, PromiseQuiet
<1>6. CASE PipeStep /\ ~TrackChecked /\ ~SendStep("pipe")
  <2>1. UNCHANGED PromiseVars
    BY <1>6 DEF PipeStep, PipeAccepts, HandleMissionLoad, HandleMissionComplete,
       HandleChapter, HandleLocationChecked, DropLocation, MarkSent,
       LocationChecks, ReportGoal, PromiseVars
  <2> QED BY <2>1, PromiseQuiet
<1> QED BY <1>1, <1>2, <1>3, <1>4, <1>5, <1>6

LEMMA DllStepRefines ==
  ASSUME TypeOK, MessageInv, CompletionsAreChecked', Decoded \subseteq completed',
         DllConnects \/ DllStep \/ SendReport
  PROVE  PromiseStep
<1>1. CASE ReadMessage
  <2> DEFINE m == down[2].msg
  <2>1. /\ HandleMessage(m) /\ m \in Messages /\ Sound(m)
        /\ UNCHANGED <<srvItems, earned, mistitled, m_checkedLocations,
                       srvChecked, srvGoal>>
    <3>1. down[2] \in SoundChunks
      BY <1>1, RestByTwoType DEF ReadMessage, LengthRead, MessageInv
    <3> QED BY <1>1, <3>1 DEF ReadMessage, SoundChunks, Chunks
  <2> HIDE DEF m
  <2>2. CASE m.kind = "ITEM_RECIVED"
    <3>1. ApplyItem(m.item) /\ m.item \in Granted /\ m.item \in Int
      BY <2>1, <2>2, SessionAssumption DEF HandleMessage, Sound, Messages
    <3> QED BY <2>1, <3>1, ApplyRefines
  <2>3. CASE m.kind = "COMPLETED"
    <3>1. UNCHANGED <<unlocked, skulls>>
      BY <2>1, <2>3 DEF HandleMessage
    <3>2. Decoded \subseteq Decoded'
      BY DEF Decoded
    <3>3. \A x \in Decoded' : x \in Missions /\ CompletionLocation(x) \in m_checkedLocations
      BY <2>1 DEF CompletionsAreChecked, CheckedMissions, CompletionLocation
    <3>4. Promise!Show
      BY <2>1, <3>1, <3>2, <3>3, SameTables DEF Promise!Show, Promise!grants, Promise!deeds, Granted
    <3> QED BY <3>4 DEF PromiseStep, Promise!Next
  <2>4. CASE m.kind \in {"FINAL_MISSION", "SKULLSANITY"}
    BY <2>1, <2>4, PromiseQuiet DEF HandleMessage, PromiseVars
  <2> QED BY <2>1, <2>2, <2>3, <2>4 DEF HandleMessage
<1>2. CASE DllConnects \/ ReadMixedUp \/ SendReport
  BY <1>2, PromiseQuiet DEF DllConnects, ReadMixedUp, SendReport, PromiseVars
<1> QED BY <1>1, <1>2 DEF DllStep

LEMMA GameStepRefines ==
  ASSUME GameStep
  PROVE  PromiseStep
<1>1. UNCHANGED <<srvItems, unlocked, skulls, m_checkedLocations, srvChecked,
                  completed, srvGoal>>
  BY DEF GameStep, GameLoads, GameWon, ChapterShown, SkullClaimed, ShellCommand,
         Report
<1>2. /\ earned \subseteq earned' /\ mistitled \subseteq mistitled'
      /\ mistitled' \subseteq mistitled \cup Titles
  BY EarnedGrows DEF Next
<1>3. CASE UNCHANGED mistitled
  <2>1. Promise!Earn
    BY <1>1, <1>2, <1>3
       DEF Promise!Earn, Promise!grants, Promise!checks, Granted, Decoded
  <2> QED BY <2>1 DEF PromiseStep, Promise!Next
<1>4. CASE ~UNCHANGED mistitled
  <2>1. UNCHANGED earned
    BY <1>4 DEF GameStep, GameLoads, GameWon, ChapterShown, SkullClaimed,
                ShellCommand
  <2>2. Promise!Mistake
    BY <1>1, <1>2, <2>1
       DEF Promise!Mistake, Promise!grants, Promise!checks, Granted, Decoded
  <2> QED BY <2>2 DEF PromiseStep, Promise!Next
<1> QED BY <1>3, <1>4

LEMMA ServerStepRefines ==
  ASSUME TypeOK, CreditInv', GoalInv',
         ServerReads \/ LinkBreaks \/ \E item \in Items : ServerGrants(item)
  PROVE  PromiseStep
<1>1. CASE ServerReads
  <2>0. UNCHANGED <<srvItems, unlocked, skulls, earned, mistitled,
                    m_checkedLocations, completed>>
    BY <1>1 DEF ServerReads
  <2>1. CASE srvGoal' = srvGoal
    <3>1. /\ srvChecked \subseteq srvChecked'
          /\ srvChecked' \subseteq earned \cup mistitled
      BY <1>1, <2>0, <2>1 DEF ServerReads, CreditInv
    <3>2. Promise!Credit
      BY <2>0, <2>1, <3>1 DEF Promise!Credit, Promise!grants, Promise!deeds,
                             Granted, Decoded
    <3> QED BY <3>2 DEF PromiseStep, Promise!Next
  <2>2. CASE srvGoal' # srvGoal
    <3>1. srvGoal' = TRUE /\ UNCHANGED srvChecked
      BY <1>1, <2>2 DEF ServerReads
    <3>2. \A m \in Missions : CompletionLocation(m) \in earned
      BY <2>0, <3>1 DEF GoalInv, AllBeaten
    <3>3. Promise!Win
      BY <2>0, <3>1, <3>2, SameTables DEF Promise!Win, Promise!grants, Promise!deeds,
         Promise!checks, Granted, Decoded
    <3> QED BY <3>3 DEF PromiseStep, Promise!Next
  <2> QED BY <2>1, <2>2
<1>2. CASE LinkBreaks
  BY <1>2, PromiseQuiet DEF LinkBreaks, PromiseVars
<1>3. ASSUME NEW item \in Items, ServerGrants(item) PROVE PromiseStep
  <2>1. srvItems' = Append(srvItems, item) /\ srvItems \in Seq(Items)
    BY <1>3 DEF ServerGrants, TypeOK, ServerTypeOK
  <2>2. /\ Len(srvItems') = Len(srvItems) + 1 /\ Len(srvItems) \in Nat
        /\ \A n \in 1 .. Len(srvItems) : srvItems'[n] = srvItems[n]
        /\ srvItems'[Len(srvItems) + 1] = item
    BY <2>1, AppendedChunk
  <2>3. Granted' = Granted \cup {item}
    BY <2>2 DEF Granted
  <2>4. UNCHANGED <<unlocked, skulls, earned, mistitled, m_checkedLocations,
                    srvChecked, completed, srvGoal>>
    BY <1>3 DEF ServerGrants
  <2>5. Promise!Grant(item)
    BY <2>3, <2>4 DEF Promise!Grant, Promise!deeds, Promise!checks, Decoded
  <2> QED BY <2>5 DEF PromiseStep, Promise!Next
<1> QED BY <1>1, <1>2, <1>3

\* The session, with its threads, its pipe and its connection, implements the
\* abstract Delivery: whatever happens in between, nothing takes effect, is
\* recorded, credited or shown that should not be, and nothing is taken back.
THEOREM SessionKeepsPromise ==
  ASSUME LastIsFinal
  PROVE  Spec => KeepsPromise
<1>1. Init => Promise!Init
  BY DEF Init, Promise!Init, Granted, Decoded
<1>2. /\ TypeOK /\ CompletionsAreChecked' /\ CreditInv' /\ MessageInv /\ GoalInv'
      /\ [Next]_vars /\ [Decoded \subseteq completed']_vars
      => [Promise!Next]_(Promise!vars)
  <2> SUFFICES ASSUME TypeOK, CompletionsAreChecked', CreditInv', MessageInv,
                      GoalInv', [Next]_vars, [Decoded \subseteq completed']_vars
               PROVE  PromiseStep
    BY DEF PromiseStep
  <2>1. CASE UNCHANGED vars
    BY <2>1, PromiseQuiet DEF vars, PromiseVars
  <2>2. CASE DllConnects \/ DllStep \/ SendReport
    <3>1. CASE UNCHANGED vars
      BY <2>1, <3>1
    <3>2. CASE ~UNCHANGED vars
      BY <2>2, <3>2, DllStepRefines
    <3> QED BY <3>1, <3>2
  <2> QED BY <2>1, <2>2, ThreadStepRefines, GameStepRefines, ServerStepRefines
          DEF Next
<1> QED BY <1>1, <1>2, TypeCorrect, CompletionsChecked, CompletionsKept,
           CreditHolds, MessagesSound, GoalHolds, PTL
        DEF Spec, KeepsPromise, Promise!Spec, CompletionsNeverRegress

=============================================================================
