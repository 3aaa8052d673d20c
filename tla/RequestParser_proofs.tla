------------------------ MODULE RequestParser_proofs ------------------------
(***************************************************************************)
(* Two proofs about the parser, for any messages, any limits and reads of  *)
(* any length.                                                             *)
(*                                                                         *)
(* That the cut of the reads is immaterial.  A read is a fold over its     *)
(* atoms, and so is the stream read one atom at a time.  The proof follows *)
(* both folds atom by atom: up to the end of the headers (FirstRun), where *)
(* the automaton stops and parse() runs it again over the rest             *)
(* (SecondRun), and relates what they hold.                                *)
(*                                                                         *)
(* That what was sent is what is parsed.  With the first result it is left *)
(* to show for the stream read one atom at a time, which is followed along *)
(* what was sent: the lead and the method, the url, the version, then line *)
(* after line of the headers, the body by its length or chunk after chunk, *)
(* and the trailers.  Each section has a lemma that says what the parser   *)
(* holds behind it (..Read), put together in HeadRead and MessageRead.     *)
(***************************************************************************)
EXTENDS RequestParser, SequenceTheorems, WellFoundedInduction, TLAPS

-----------------------------------------------------------------------------
(* Folds over a sequence.                                                  *)

(* Induction on natural numbers, for a set given as such.                  *)
LEMMA Counting ==
    ASSUME NEW T \in SUBSET Nat, 0 \in T, \A n \in T : n + 1 \in T
    PROVE  T = Nat
<1> SUFFICES ASSUME Nat \ T # {} PROVE FALSE
  OBVIOUS
<1>1. \E x \in Nat \ T : \A y \in Nat \ T : ~(<<y, x>> \in OpToRel(<, Nat))
  <2> DEFINE U == Nat \ T
             R == OpToRel(<, Nat)
  <2>1. U \subseteq Nat /\ U # {} /\ IsWellFoundedOn(R, Nat)
    BY NatLessThanWellFounded
  <2> HIDE DEF U, R
  <2>2. \E x \in U : \A y \in U : ~(<<y, x>> \in R)
    BY <2>1, WFMin
  <2> QED
    BY <2>2 DEF U, R
<1>2. PICK x \in Nat \ T : \A y \in Nat \ T : ~(y < x)
  BY <1>1 DEF OpToRel
<1>3. x - 1 \in Nat /\ x - 1 < x
  OBVIOUS
<1>4. x - 1 \in T
  BY <1>2, <1>3
<1>5. (x - 1) + 1 \in T
  BY <1>4
<1> QED
  BY <1>5

(* The operators that the model folds with, and a fold with any of them:   *)
(* what follows is proved once for all.                                    *)
Turn(k, run, ch) ==
    IF k = "feed" THEN Feed(run, ch)
    ELSE IF k = "atom" THEN ReadAtom(run, ch)
    ELSE IF k = "url" THEN ParseUrlChar(run, ch)
    ELSE 10 * run + Digits[ch]
Run(k, base, s) == FoldLeft(LAMBDA run, ch : Turn(k, run, ch), base, s)

(* f holds what the fold makes of the atoms with the indices in t, for all *)
(* t up to n.                                                              *)
Follows(f, k, base, s, n) ==
    \A t \in SUBSET (1 .. n) :
        f[t] = IF t = {} THEN base ELSE Turn(k, f[t \ {Max(t)}], s[Max(t)])

LEMMA MaxOfPrefix ==
    ASSUME NEW n \in Nat, NEW t \in SUBSET (1 .. n + 1), n + 1 \in t
    PROVE  Max(t) = n + 1
<1>1. \A y \in t : y \in Nat /\ n + 1 >= y
  OBVIOUS
<1>2. \A x \in t : (\A y \in t : x >= y) => x = n + 1
  BY <1>1
<1> QED
  BY <1>1, <1>2 DEF Max

LEMMA FollowsExists ==
    ASSUME NEW k, NEW base, NEW s, NEW n \in Nat
    PROVE  \E f : Follows(f, k, base, s, n)
<1> DEFINE T == {m \in Nat : \E f : Follows(f, k, base, s, m)}
<1>1. 0 \in T
  <2> DEFINE f == [t \in SUBSET (1 .. 0) |-> base]
  <2>1. Follows(f, k, base, s, 0)
    BY DEF Follows
  <2> QED
    BY <2>1
<1>2. ASSUME NEW m \in T PROVE m + 1 \in T
  <2>1. PICK f : Follows(f, k, base, s, m)
    OBVIOUS
  <2> DEFINE g == [t \in SUBSET (1 .. m + 1) |->
                     IF m + 1 \in t THEN Turn(k, f[t \ {m + 1}], s[m + 1]) ELSE f[t]]
  <2>2. ASSUME NEW t \in SUBSET (1 .. m + 1), t # {}
        PROVE  g[t] = Turn(k, g[t \ {Max(t)}], s[Max(t)])
    <3>1. CASE m + 1 \in t
      <4>1. Max(t) = m + 1
        BY <3>1, MaxOfPrefix
      <4>2. g[t \ {m + 1}] = f[t \ {m + 1}]
        OBVIOUS
      <4> QED
        BY <3>1, <4>1, <4>2
    <3>2. CASE m + 1 \notin t
      <4>1. t \in SUBSET (1 .. m)
        BY <3>2
      <4>2. g[t] = f[t] /\ g[t \ {Max(t)}] = f[t \ {Max(t)}]
        BY <3>2
      <4>3. f[t] = Turn(k, f[t \ {Max(t)}], s[Max(t)])
        BY <2>1, <2>2, <4>1 DEF Follows
      <4> QED
        BY <4>2, <4>3
    <3> QED
      BY <3>1, <3>2
  <2>3. g[{}] = base
    BY <2>1 DEF Follows
  <2> HIDE DEF g
  <2>4. Follows(g, k, base, s, m + 1)
    BY <2>2, <2>3 DEF Follows
  <2>5. m + 1 \in Nat
    OBVIOUS
  <2> QED
    BY <2>4, <2>5
<1>3. T = Nat
  <2>1. T \in SUBSET Nat
    OBVIOUS
  <2> HIDE DEF T
  <2> QED
    BY <1>1, <1>2, <2>1, Counting
<1> QED
  BY <1>3

LEMMA RunFollows ==
    ASSUME NEW A, NEW k, NEW base, NEW s \in Seq(A)
    PROVE  \E f : Follows(f, k, base, s, Len(s)) /\ Run(k, base, s) = f[1 .. Len(s)]
<1> DEFINE n == Len(s)
           body(f) == [t \in SUBSET (1 .. n) |->
                         IF t = {} THEN base ELSE Turn(k, f[t \ {Max(t)}], s[Max(t)])]
           iter == CHOOSE f : f = body(f)
<1>1. n \in Nat /\ DOMAIN s = 1 .. n
  BY LenProperties
<1>2. Run(k, base, s) = iter[1 .. n]
  BY <1>1 DEF Run, FoldLeft, MapThenFoldSet
<1> HIDE DEF n
<1>3. PICK g : Follows(g, k, base, s, n)
  BY <1>1, FollowsExists
<1> DEFINE h == [t \in SUBSET (1 .. n) |-> g[t]]
<1>4. h = body(h)
  <2>1. \A t \in SUBSET (1 .. n) : t \ {Max(t)} \in SUBSET (1 .. n)
    OBVIOUS
  <2> QED
    BY <1>3, <2>1 DEF Follows
<1> HIDE DEF h
<1>5. iter = body(iter)
  BY <1>4
<1> HIDE DEF iter
<1>6. Follows(iter, k, base, s, n)
  BY <1>5 DEF Follows
<1> QED
  BY <1>2, <1>6 DEF n

(* The fold over no atom, and over one more.                               *)
LEMMA RunStep ==
    ASSUME NEW A, NEW k, NEW base, NEW s \in Seq(A), NEW ch \in A
    PROVE  Run(k, base, Append(s, ch)) = Turn(k, Run(k, base, s), ch)
<1> DEFINE z == Append(s, ch)
           n == Len(s)
<1>1. /\ z \in Seq(A) /\ n \in Nat /\ Len(z) = n + 1
      /\ z[n + 1] = ch /\ \A i \in 1 .. n : z[i] = s[i]
  BY AppendProperties, LenProperties
<1> HIDE DEF z
<1>2. PICK f : Follows(f, k, base, s, n) /\ Run(k, base, s) = f[1 .. n]
  BY RunFollows
<1>3. PICK g : Follows(g, k, base, z, n + 1) /\ Run(k, base, z) = g[1 .. n + 1]
  BY <1>1, RunFollows
<1> HIDE DEF n
<1>4. \A j \in Nat : j + 1 <= n + 1 =>
         g[1 .. j + 1] = Turn(k, g[1 .. j], z[j + 1])
  <2> SUFFICES ASSUME NEW j \in Nat, j + 1 <= n + 1
               PROVE  g[1 .. j + 1] = Turn(k, g[1 .. j], z[j + 1])
    OBVIOUS
  <2>1. 1 .. j + 1 \in SUBSET (1 .. n + 1) /\ j + 1 \in 1 .. j + 1
    BY <1>1
  <2>2. Max(1 .. j + 1) = j + 1
    BY MaxOfPrefix
  <2>3. (1 .. j + 1) \ {j + 1} = 1 .. j
    OBVIOUS
  <2> QED
    BY <1>3, <2>1, <2>2, <2>3 DEF Follows
<1>5. \A j \in Nat : j + 1 <= n => f[1 .. j + 1] = Turn(k, f[1 .. j], s[j + 1])
  <2> SUFFICES ASSUME NEW j \in Nat, j + 1 <= n
               PROVE  f[1 .. j + 1] = Turn(k, f[1 .. j], s[j + 1])
    OBVIOUS
  <2>1. 1 .. j + 1 \in SUBSET (1 .. n) /\ j + 1 \in 1 .. j + 1
    BY <1>1
  <2>2. Max(1 .. j + 1) = j + 1
    BY MaxOfPrefix
  <2>3. (1 .. j + 1) \ {j + 1} = 1 .. j
    OBVIOUS
  <2> QED
    BY <1>2, <2>1, <2>2, <2>3 DEF Follows
<1> DEFINE T == {j \in Nat : j <= n => f[1 .. j] = g[1 .. j]}
<1>6. 0 \in T
  <2>1. 1 .. 0 = {} /\ {} \in SUBSET (1 .. n) /\ {} \in SUBSET (1 .. n + 1)
    OBVIOUS
  <2>2. f[{}] = base /\ g[{}] = base
    BY <1>2, <1>3, <2>1 DEF Follows
  <2> QED
    BY <2>1, <2>2
<1>7. ASSUME NEW j \in T PROVE j + 1 \in T
  <2>1. CASE j + 1 <= n
    <3>1. f[1 .. j] = g[1 .. j] /\ z[j + 1] = s[j + 1]
      BY <1>1, <2>1
    <3>2. f[1 .. j + 1] = g[1 .. j + 1]
      BY <1>1, <1>4, <1>5, <2>1, <3>1
    <3> QED
      BY <3>2
  <2>2. CASE ~(j + 1 <= n)
    BY <2>2
  <2> QED
    BY <2>1, <2>2
<1>8. T = Nat
  <2>1. T \in SUBSET Nat
    OBVIOUS
  <2> HIDE DEF T
  <2> QED
    BY <1>6, <1>7, <2>1, Counting
<1>9. f[1 .. n] = g[1 .. n]
  BY <1>1, <1>8
<1>10. g[1 .. n + 1] = Turn(k, g[1 .. n], ch)
  BY <1>1, <1>4
<1> QED
  BY <1>2, <1>3, <1>9, <1>10 DEF z

LEMMA RunNothing ==
    ASSUME NEW A, NEW k, NEW base, NEW s \in Seq(A)
    PROVE  Len(s) = 0 => Run(k, base, s) = base
<1>1. PICK f : Follows(f, k, base, s, Len(s)) /\ Run(k, base, s) = f[1 .. Len(s)]
  BY RunFollows
<1>2. 1 .. 0 = {} /\ {} \in SUBSET (1 .. 0)
  OBVIOUS
<1> QED
  BY <1>1, <1>2 DEF Follows

(* The folds of the model are these.                                       *)
LEMMA ExecuteIsRun ==
    \A q, data : Execute(q, data) = Run("feed", [q |-> q, used |-> 0], data)
BY DEF Execute, Run, Turn, FoldLeft, MapThenFoldSet

LEMMA OneByOneIsRun ==
    \A b, n : OneByOne(b, n) = Run("atom", [p |-> Fresh(b), verdict |-> "indeterminate"],
                                   SubSeq(stream, 1, n))
BY DEF OneByOne, Run, Turn, FoldLeft, MapThenFoldSet

LEMMA SubSeqGrows ==
    ASSUME NEW A, NEW S \in Seq(A), NEW a \in Nat, NEW j \in Nat, a + j + 1 <= Len(S)
    PROVE  /\ SubSeq(S, a + 1, a + j) \in Seq(A)
           /\ Len(SubSeq(S, a + 1, a + j)) = j
           /\ S[a + j + 1] \in A
           /\ SubSeq(S, a + 1, a + j + 1) = Append(SubSeq(S, a + 1, a + j), S[a + j + 1])
<1>1. SubSeq(S, a + 1, a + j) \in Seq(A) /\ Len(SubSeq(S, a + 1, a + j)) = j
  OBVIOUS
<1>2. S[a + j + 1] \in A
  BY ElementOfSeq
<1>3. SubSeq(S, a + 1, a + j + 1) = Append(SubSeq(S, a + 1, a + j), S[a + j + 1])
  <2> DEFINE u == SubSeq(S, a + 1, a + j + 1)
             v == Append(SubSeq(S, a + 1, a + j), S[a + j + 1])
  <2>1. u \in Seq(A) /\ Len(u) = j + 1 /\ \A i \in 1 .. j + 1 : u[i] = S[a + i]
    <3>1. u \in Seq(A) /\ Len(u) = j + 1
      BY SMTT(30)
    <3>2. \A i \in 1 .. j + 1 : u[i] = S[a + i]
      BY SMTT(30)
    <3> QED
      BY <3>1, <3>2
  <2>2. v \in Seq(A) /\ Len(v) = j + 1 /\ \A i \in 1 .. j + 1 : v[i] = S[a + i]
    BY <1>1, <1>2
  <2> HIDE DEF u, v
  <2>3. u = v
    BY <2>1, <2>2, SeqEqual
  <2> QED
    BY <2>3 DEF u, v
<1> QED
  BY <1>1, <1>2, <1>3

LEMMA ExecuteStep ==
    ASSUME NEW A, NEW S \in Seq(A), NEW q, NEW a \in Nat, NEW j \in Nat, a + j + 1 <= Len(S)
    PROVE  Execute(q, SubSeq(S, a + 1, a + j + 1)) =
             Feed(Execute(q, SubSeq(S, a + 1, a + j)), S[a + j + 1])
<1> DEFINE base == [q |-> q, used |-> 0]
           s == SubSeq(S, a + 1, a + j)
           k == "feed"
<1>1. s \in Seq(A) /\ S[a + j + 1] \in A /\ SubSeq(S, a + 1, a + j + 1) = Append(s, S[a + j + 1])
  BY SubSeqGrows
<1>2. Execute(q, s) = Run(k, base, s) /\ Execute(q, Append(s, S[a + j + 1])) = Run(k, base, Append(s, S[a + j + 1]))
  BY ExecuteIsRun
<1>3. \A run, ch : Turn(k, run, ch) = Feed(run, ch)
  BY DEF Turn
<1> HIDE DEF base, s, k
<1>4. Run(k, base, Append(s, S[a + j + 1])) = Turn(k, Run(k, base, s), S[a + j + 1])
  BY <1>1, RunStep
<1> QED
  BY <1>1, <1>2, <1>3, <1>4 DEF s

LEMMA ExecuteNothing ==
    ASSUME NEW A, NEW S \in Seq(A), NEW q, NEW a \in Nat, a <= Len(S)
    PROVE  Execute(q, SubSeq(S, a + 1, a)) = [q |-> q, used |-> 0]
<1> DEFINE base == [q |-> q, used |-> 0]
           s == SubSeq(S, a + 1, a)
           k == "feed"
<1>1. s \in Seq(A) /\ Len(s) = 0
  OBVIOUS
<1>2. Execute(q, s) = Run(k, base, s)
  BY ExecuteIsRun
<1> HIDE DEF base, s, k
<1>3. Run(k, base, s) = base
  BY <1>1, RunNothing
<1> QED
  BY <1>2, <1>3 DEF s, base

LEMMA ExecuteOne ==
    ASSUME NEW q, NEW ch
    PROVE  Execute(q, <<ch>>) = Feed([q |-> q, used |-> 0], ch)
<1> DEFINE S == <<ch>>
           A == {ch}
<1>0. S \in Seq(A) /\ Len(S) = 1 /\ S[1] = ch
  OBVIOUS
<1> HIDE DEF S, A
<1>1. S \in Seq(A) /\ Len(S) = 1 /\ S[1] = ch /\ SubSeq(S, 1, 1) = S
  BY <1>0, SubSeqFull
<1>2. Execute(q, SubSeq(S, 0 + 1, 0 + 0 + 1)) = Feed(Execute(q, SubSeq(S, 0 + 1, 0 + 0)), S[0 + 0 + 1])
  BY <1>1, ExecuteStep
<1>3. Execute(q, SubSeq(S, 0 + 1, 0)) = [q |-> q, used |-> 0]
  BY <1>1, ExecuteNothing
<1>4. SubSeq(S, 0 + 1, 0 + 0 + 1) = SubSeq(S, 1, 1) /\ SubSeq(S, 0 + 1, 0 + 0) = SubSeq(S, 0 + 1, 0) /\ S[0 + 0 + 1] = S[1]
  OBVIOUS
<1> QED
  BY <1>1, <1>2, <1>3, <1>4 DEF S

LEMMA OneByOneStep ==
    ASSUME NEW A, stream \in Seq(A), NEW b, NEW k \in Nat, k + 1 <= Len(stream)
    PROVE  OneByOne(b, k + 1) = ReadAtom(OneByOne(b, k), stream[k + 1])
<1> DEFINE base == [p |-> Fresh(b), verdict |-> "indeterminate"]
           s == SubSeq(stream, 1, k)
           kind == "atom"
<1>1. s \in Seq(A) /\ stream[k + 1] \in A /\ SubSeq(stream, 1, k + 1) = Append(s, stream[k + 1])
  <2>1. 0 \in Nat /\ 0 + k + 1 <= Len(stream) /\ 0 + k + 1 = k + 1 /\ 0 + 1 = 1 /\ 0 + k = k
    OBVIOUS
  <2> DEFINE a == 0
  <2> HIDE DEF a
  <2>2. /\ SubSeq(stream, a + 1, a + k) \in Seq(A)
        /\ stream[a + k + 1] \in A
        /\ SubSeq(stream, a + 1, a + k + 1) = Append(SubSeq(stream, a + 1, a + k), stream[a + k + 1])
    BY <2>1, SubSeqGrows DEF a
  <2> QED
    BY <2>1, <2>2 DEF a
<1>2. /\ OneByOne(b, k) = Run(kind, base, s)
      /\ OneByOne(b, k + 1) = Run(kind, base, SubSeq(stream, 1, k + 1))
  BY OneByOneIsRun
<1>3. \A run, ch : Turn(kind, run, ch) = ReadAtom(run, ch)
  BY DEF Turn
<1> HIDE DEF base, s, kind
<1>4. Run(kind, base, Append(s, stream[k + 1])) = Turn(kind, Run(kind, base, s), stream[k + 1])
  BY <1>1, RunStep
<1> QED
  BY <1>1, <1>2, <1>3, <1>4

LEMMA OneByOneNothing ==
    ASSUME NEW A, stream \in Seq(A), NEW b
    PROVE  OneByOne(b, 0) = [p |-> Fresh(b), verdict |-> "indeterminate"]
<1> DEFINE base == [p |-> Fresh(b), verdict |-> "indeterminate"]
           s == SubSeq(stream, 1, 0)
           kind == "atom"
<1>1. s \in Seq(A) /\ Len(s) = 0
  OBVIOUS
<1>2. OneByOne(b, 0) = Run(kind, base, s)
  BY OneByOneIsRun
<1> HIDE DEF base, s, kind
<1>3. Run(kind, base, s) = base
  BY <1>1, RunNothing
<1> QED
  BY <1>2, <1>3 DEF base

-----------------------------------------------------------------------------
(* The parser as it goes on within a message, and what a step makes of it: *)
(* it goes on, fails, or pauses behind the message or behind the headers.  *)
Fields == {"state", "hs", "word", "method", "version", "flags", "len", "nread", "errno",
           "field", "value", "url", "body", "headers", "complete"}
Live(q) == DOMAIN q = Fields /\ q.errno = "ok" /\ q.complete = FALSE /\ q.state # "start_req"

BodyStates == {"chunk_size_start", "chunk_size", "chunk_parameters", "chunk_size_almost_done",
               "chunk_data", "chunk_data_almost_done", "chunk_data_done", "body_identity"}
InBody(q) == q.state \in BodyStates \/ "trailing" \in q.flags
InHeaders(q) == q.state \notin BodyStates \cup {"headers_done"}

Outcome(q, s) ==
    /\ DOMAIN s = Fields
    /\ s.errno \in {"ok", "bad", "paused"}
    /\ s.errno = "ok" => s.complete = FALSE /\ s.state \notin {"start_req", "headers_done"}
    /\ s.errno = "bad" => s.complete = FALSE
    /\ s.errno = "paused" =>
         \/ s.complete = TRUE /\ s.state = "start_req"
         \/ /\ s.complete = FALSE /\ s.state = "headers_done"
            /\ ~InBody(q) /\ q.state # "headers_done"
    /\ (InBody(q) \/ q.state = "headers_done") /\ s.errno = "ok" => InBody(s)

LEMMA FailOutcome ==
    ASSUME NEW q, Live(q)
    PROVE  Outcome(q, Fail(q))
BY DEF Live, Outcome, Fail, Fields

LEMMA GoOutcome ==
    ASSUME NEW q, Live(q), InHeaders(q) \/ InBody(q), NEW s,
           s \notin {"start_req", "headers_done"}, InHeaders(q) \/ s \in BodyStates \/ "trailing" \in q.flags
    PROVE  Outcome(q, Go(q, s))
BY DEF Live, Outcome, Go, Fields, InHeaders, InBody, BodyStates

LEMMA MethodOutcome ==
    ASSUME NEW q, NEW ch, Live(q), InHeaders(q)
    PROVE  Outcome(q, Method(q, ch))
BY DEF Live, InHeaders, Outcome, InBody, Method, Fail, Fields, BodyStates

LEMMA UrlOutcome ==
    ASSUME NEW q, NEW ch, Live(q), InHeaders(q)
    PROVE  Outcome(q, Url(q, ch))
BY DEF Live, InHeaders, Outcome, InBody, Url, UrlChar, ParseUrlChar, Fail, Go, Fields, BodyStates, UrlFinished

LEMMA VersionOutcome ==
    ASSUME NEW q, NEW ch, Live(q), InHeaders(q)
    PROVE  Outcome(q, Version(q, ch))
BY DEF Live, InHeaders, Outcome, InBody, Version, Digit, Expect, Fail, Go, Fields, BodyStates

LEMMA HeadersAlmostDoneOutcome ==
    ASSUME NEW q, NEW ch, Live(q), InHeaders(q)
    PROVE  Outcome(q, HeadersAlmostDone(q, ch))
BY DEF Live, InHeaders, Outcome, InBody, HeadersAlmostDone, Flush, MessageComplete, Fail, Go, Fields, BodyStates

LEMMA HeadersDoneOutcome ==
    ASSUME NEW q, NEW ch, Live(q), q.state = "headers_done"
    PROVE  Outcome(q, HeadersDone(q, ch))
BY DEF Live, Outcome, InBody, HeadersDone, MessageComplete, Fail, Go, Fields, BodyStates

LEMMA FieldStartOutcome ==
    ASSUME NEW q, NEW ch, Live(q), InHeaders(q)
    PROVE  Outcome(q, FieldStart(q, ch))
<1>1. CASE ch = "LF"
  <2>1. FieldStart(q, ch) = HeadersAlmostDone(q, ch)
    BY <1>1 DEF FieldStart
  <2> QED
    BY <2>1, HeadersAlmostDoneOutcome
<1>2. CASE ch # "LF"
  BY <1>2 DEF Live, InHeaders, Outcome, InBody, FieldStart, OnHeaderField, Flush, Fail, Go,
              Fields, BodyStates
<1> QED
  BY <1>1, <1>2

LEMMA FieldOutcome ==
    ASSUME NEW q, NEW ch, Live(q), InHeaders(q)
    PROVE  Outcome(q, Field(q, ch))
BY DEF Live, InHeaders, Outcome, InBody, Field, OnHeaderField, Flush, Fail, Go, Fields, BodyStates

LEMMA ValueStartOutcome ==
    ASSUME NEW q, NEW ch, Live(q), InHeaders(q)
    PROVE  Outcome(q, ValueStart(q, ch))
BY DEF Live, InHeaders, Outcome, InBody, ValueStart, Fail, Go, Fields, BodyStates

LEMMA ValueOutcome ==
    ASSUME NEW q, NEW ch, Live(q), InHeaders(q)
    PROVE  Outcome(q, Value(q, ch))
BY DEF Live, InHeaders, Outcome, InBody, Value, Lengthen, Fail, Go, Fields, BodyStates

LEMMA DiscardWsOutcome ==
    ASSUME NEW q, NEW ch, Live(q), InHeaders(q)
    PROVE  Outcome(q, DiscardWs(q, ch))
<1>1. CASE ch \in {"SP", "TAB", "CR", "LF"}
  BY <1>1 DEF Live, InHeaders, Outcome, InBody, DiscardWs, Go, Fields, BodyStates
<1>2. CASE ch \notin {"SP", "TAB", "CR", "LF"}
  <2>1. DiscardWs(q, ch) = ValueStart(q, ch)
    BY <1>2 DEF DiscardWs
  <2> QED
    BY <2>1, ValueStartOutcome
<1> QED
  BY <1>1, <1>2

LEMMA DiscardLwsOutcome ==
    ASSUME NEW q, NEW ch, Live(q), InHeaders(q)
    PROVE  Outcome(q, DiscardLws(q, ch))
<1>1. CASE ch \in {"SP", "TAB"}
  BY <1>1 DEF Live, InHeaders, Outcome, InBody, DiscardLws, Go, Fields, BodyStates
<1>2. CASE ch \notin {"SP", "TAB"}
  <2>1. DiscardLws(q, ch) = FieldStart(q, ch)
    BY <1>2 DEF DiscardLws
  <2> QED
    BY <2>1, FieldStartOutcome
<1> QED
  BY <1>1, <1>2

LEMMA ValueLwsOutcome ==
    ASSUME NEW q, NEW ch, Live(q), InHeaders(q)
    PROVE  Outcome(q, ValueLws(q, ch))
<1> DEFINE r == [q EXCEPT !.flags = IF q.hs = "chunked" THEN @ \union {"chunked"} ELSE @]
<1>1. Live(r) /\ InHeaders(r) /\ r.state = q.state /\ (InBody(q) => InBody(r))
  BY DEF Live, InHeaders, InBody, Fields, BodyStates
<1>2. CASE ch \in {"SP", "TAB"}
  BY <1>2, ValueStartOutcome DEF ValueLws
<1>3. CASE ch \notin {"SP", "TAB"}
  <2> HIDE DEF r
  <2>1. Outcome(r, FieldStart(r, ch))
    BY <1>1, FieldStartOutcome
  <2>2. ValueLws(q, ch) = FieldStart(r, ch)
    BY <1>3 DEF ValueLws, r
  <2> QED
    BY <1>1, <2>1, <2>2 DEF Outcome
<1> QED
  BY <1>2, <1>3

LEMMA BodyIdentityOutcome ==
    ASSUME NEW q, NEW ch, Live(q), q.state = "body_identity"
    PROVE  Outcome(q, BodyIdentity(q, ch))
BY DEF Live, Outcome, InBody, BodyIdentity, MessageComplete, Fields, BodyStates

LEMMA ChunkSizeOutcome ==
    ASSUME NEW q, NEW ch, Live(q), q.state \in BodyStates
    PROVE  Outcome(q, ChunkSize(q, ch))
BY DEF Live, Outcome, InBody, ChunkSize, Lengthen, Fail, Go, Fields, BodyStates

LEMMA ChunkDataOutcome ==
    ASSUME NEW q, NEW ch, Live(q), q.state \in BodyStates
    PROVE  Outcome(q, ChunkData(q, ch))
BY DEF Live, Outcome, InBody, ChunkData, Expect, Fail, Go, Fields, BodyStates

LEMMA ExpectOutcome ==
    ASSUME NEW q, Live(q), InHeaders(q), NEW ok, NEW s, s \notin {"start_req", "headers_done"}
    PROVE  Outcome(q, Expect(q, ok, s))
BY DEF Live, Outcome, InBody, InHeaders, Expect, Fail, Go, Fields, BodyStates

HeaderStates == {"value_discard_ws_almost_done", "header_almost_done"}

LEMMA StepOutcome ==
    ASSUME NEW q, NEW ch, Live(q)
    PROVE  Outcome(q, Step(q, ch))
<1>1. CASE q.state = "method"
  BY <1>1, MethodOutcome DEF Step, InHeaders, BodyStates, UrlUnfinished, UrlFinished
<1>2. CASE q.state \in {"spaces_before_url"} \union UrlUnfinished \union UrlFinished
  <2>1. Step(q, ch) = Url(q, ch)
    BY <1>2 DEF Step, UrlUnfinished, UrlFinished
  <2>2. InHeaders(q)
    BY <1>2 DEF InHeaders, BodyStates, UrlUnfinished, UrlFinished
  <2> QED
    BY <2>1, <2>2, UrlOutcome
<1>3. CASE q.state \in {"field_start", "field", "value_discard_ws", "value_discard_lws",
                        "value", "value_lws", "headers_almost_done"}
  <2>1. InHeaders(q)
    BY <1>3 DEF InHeaders, BodyStates
  <2>2. Step(q, ch) \in {FieldStart(q, ch), Field(q, ch), DiscardWs(q, ch), DiscardLws(q, ch),
                         Value(q, ch), ValueLws(q, ch), HeadersAlmostDone(q, ch)}
    BY <1>3 DEF Step, UrlUnfinished, UrlFinished
  <2> QED
    BY <2>1, <2>2, FieldStartOutcome, FieldOutcome, DiscardWsOutcome, DiscardLwsOutcome,
       ValueOutcome, ValueLwsOutcome, HeadersAlmostDoneOutcome
<1>4. CASE q.state \in HeaderStates
  <2>1. InHeaders(q)
    BY <1>4 DEF InHeaders, BodyStates, HeaderStates
  <2>2. Step(q, ch) \in {Expect(q, ch = "LF", "value_discard_lws"),
                         Expect(q, ch = "LF", "value_lws")}
    BY <1>4 DEF Step, UrlUnfinished, UrlFinished, HeaderStates
  <2> QED
    BY <1>4, <2>1, <2>2 DEF Live, Outcome, InBody, InHeaders, Expect, Fail, Go, Fields, BodyStates
<1>5. CASE q.state = "headers_done"
  BY <1>5, HeadersDoneOutcome DEF Step, UrlUnfinished, UrlFinished
<1>6. CASE q.state = "body_identity"
  BY <1>6, BodyIdentityOutcome DEF Step, UrlUnfinished, UrlFinished
<1>7. CASE q.state \in BodyStates \ {"body_identity"}
  <2>1. Step(q, ch) \in {ChunkSize(q, ch), ChunkData(q, ch)}
    BY <1>7 DEF Step, UrlUnfinished, UrlFinished, BodyStates
  <2> QED
    BY <1>7, <2>1, ChunkSizeOutcome, ChunkDataOutcome
<1>8. CASE /\ q.state \notin {"method", "headers_done"} \union BodyStates \union HeaderStates
           /\ q.state \notin {"field_start", "field", "value_discard_ws", "value_discard_lws",
                             "value", "value_lws", "headers_almost_done"}
           /\ q.state \notin {"spaces_before_url"} \union UrlUnfinished \union UrlFinished
  <2>1. InHeaders(q)
    BY <1>8 DEF InHeaders
  <2>2. Step(q, ch) = Version(q, ch)
    BY <1>8 DEF Step, Live, BodyStates, HeaderStates
  <2> QED
    BY <2>1, <2>2, VersionOutcome
<1> QED
  BY <1>1, <1>2, <1>3, <1>4, <1>5, <1>6, <1>7, <1>8

-----------------------------------------------------------------------------
(* An atom is fed to a parser that goes on.                                *)
Counted(q) == [q EXCEPT !.nread = IF ParsingHeader(q.state) THEN @ + 1 ELSE @]
After(q, ch) == IF Counted(q).nread > MaxHeader THEN Fail(Counted(q)) ELSE Step(Counted(q), ch)
Stays(s) == s.errno = "bad" \/ s.state = "headers_done"

LEMMA FeedIs ==
    ASSUME NEW run, NEW ch, run.q.errno = "ok"
    PROVE  Feed(run, ch) =
             [q |-> After(run.q, ch),
              used |-> IF Stays(After(run.q, ch)) THEN run.used ELSE run.used + 1]
BY DEF Feed, After, Counted, Stays

LEMMA FeedIdles ==
    ASSUME NEW run, NEW ch, run.q.errno # "ok"
    PROVE  Feed(run, ch) = run
BY DEF Feed

LEMMA AfterOutcome ==
    ASSUME NEW q, NEW ch, Live(q)
    PROVE  Outcome(q, After(q, ch))
<1> DEFINE r == Counted(q)
<1>1. Live(r) /\ r.state = q.state /\ r.flags = q.flags
  BY DEF Live, Counted, Fields
<1> HIDE DEF r
<1>2. Outcome(r, Fail(r)) /\ Outcome(r, Step(r, ch))
  BY <1>1, FailOutcome, StepOutcome
<1>3. After(q, ch) \in {Fail(r), Step(r, ch)}
  BY DEF After, r
<1> QED
  BY <1>1, <1>2, <1>3 DEF Outcome, InBody

(* Before the request: only ends of line were read.                        *)
Lead(b, n) == [Fresh(b) EXCEPT !.nread = n]

Whole(q) == q = [f \in Fields |-> q[f]]

LEMMA SameFields ==
    ASSUME NEW q, NEW r, Whole(q), Whole(r), \A f \in Fields : q[f] = r[f]
    PROVE  q = r
BY DEF Whole

LEMMA LeadCompletes ==
    ASSUME NEW b, NEW c, NEW n
    PROVE  [Lead(b, n) EXCEPT !.complete = c] = Lead(c, n)
<1> DEFINE l == Lead(b, n)
           q == [l EXCEPT !.complete = c]
           r == Lead(c, n)
<1>1. DOMAIN l = Fields /\ DOMAIN r = Fields /\ DOMAIN q = Fields
  BY DEF Lead, Fresh, Fields
<1>2. q.complete = r.complete
  BY DEF Lead, Fresh
<1>3. q.state = r.state /\ q.hs = r.hs /\ q.word = r.word /\ q.method = r.method
  BY DEF Lead, Fresh
<1>4. q.version = r.version
  BY DEF Lead, Fresh
<1>5. q.flags = r.flags /\ q.len = r.len /\ q.nread = r.nread /\ q.errno = r.errno
  BY DEF Lead, Fresh
<1>6. /\ q.field = r.field /\ q.value = r.value /\ q.url = r.url /\ q.body = r.body
      /\ q.headers = r.headers
  BY DEF Lead, Fresh
<1>7. Whole(r)
  <2> DEFINE g == Fresh(c)
  <2>1. DOMAIN g = Fields
    BY DEF Fresh, Fields
  <2> HIDE DEF g
  <2>2. r = [g EXCEPT !.nread = n]
    BY DEF Lead, g
  <2> QED
    BY <2>1, <2>2 DEF Whole
<1>8. Whole(q)
  <2> HIDE DEF l
  <2> QED
    BY <1>1 DEF Whole
<1> HIDE DEF q, r
<1>9. \A f \in Fields : q[f] = r[f]
  BY <1>2, <1>3, <1>4, <1>5, <1>6 DEF Fields
<1> QED
  BY <1>7, <1>8, <1>9, SameFields DEF q, r

LEMMA LeadAfterIs ==
    ASSUME NEW d \in BOOLEAN, NEW n \in Nat, NEW ch
    PROVE  /\ Fail(Lead(d, n + 1)).errno = "bad"
           /\ After(Lead(d, n), ch) = IF n + 1 > MaxHeader THEN Fail(Lead(d, n + 1))
                                      ELSE StartReq(Lead(d, n + 1), ch)
<1> DEFINE l == Lead(d, n)
           r == Lead(d, n + 1)
<1>1. l.state = "start_req" /\ l.nread = n
  BY DEF Lead, Fresh
<1>2. r.state = "start_req" /\ r.nread = n + 1 /\ Fail(r).errno = "bad"
  BY DEF Lead, Fresh, Fail
<1>3. Counted(l) = r
  <2>1. Counted(l) = [l EXCEPT !.nread = n + 1]
    BY <1>1 DEF Counted, ParsingHeader
  <2> QED
    BY <2>1 DEF Lead, Fresh
<1> HIDE DEF l, r
<1>4. Step(r, ch) = StartReq(r, ch)
  BY <1>2 DEF Step, UrlUnfinished, UrlFinished
<1>5. After(l, ch) = IF n + 1 > MaxHeader THEN Fail(r) ELSE StartReq(r, ch)
  BY <1>2, <1>3, <1>4 DEF After
<1> QED
  BY <1>2, <1>5 DEF l, r

Leads(b, c, n, ch) ==
    \/ After(Lead(b, n), ch) = Lead(b, n + 1) /\ After(Lead(c, n), ch) = Lead(c, n + 1)
    \/ After(Lead(b, n), ch).errno = "bad" /\ After(Lead(c, n), ch).errno = "bad"
    \/ /\ After(Lead(b, n), ch) = After(Lead(c, n), ch)
       /\ Live(After(Lead(b, n), ch)) /\ After(Lead(b, n), ch).state # "headers_done"

LEMMA LeadAfter ==
    ASSUME NEW b \in BOOLEAN, NEW c \in BOOLEAN, NEW n \in Nat, NEW ch
    PROVE  Leads(b, c, n, ch)
<1>1. ASSUME NEW d \in BOOLEAN
      PROVE  Fail(Lead(d, n + 1)).errno = "bad"
  BY LeadAfterIs
<1>2. ASSUME NEW d \in BOOLEAN
      PROVE  After(Lead(d, n), ch) = IF n + 1 > MaxHeader THEN Fail(Lead(d, n + 1))
                                     ELSE StartReq(Lead(d, n + 1), ch)
  BY LeadAfterIs
<1>3. CASE n + 1 > MaxHeader
  BY <1>1, <1>2, <1>3 DEF Leads
<1>4. CASE ~(n + 1 > MaxHeader)
  <2>0. ASSUME NEW d \in BOOLEAN PROVE After(Lead(d, n), ch) = StartReq(Lead(d, n + 1), ch)
    BY <1>2, <1>4
  <2>1. CASE ch \in {"CR", "LF"}
    <3>1. ASSUME NEW r PROVE StartReq(r, ch) = r
      BY <2>1 DEF StartReq, Methods
    <3> QED
      BY <2>0, <3>1 DEF Leads
  <2>2. CASE ch \notin {"CR", "LF"} /\ \E m \in Methods : m[1] = ch
    <3> DEFINE f == FALSE
               t == Lead(f, n + 1)
               s == [t EXCEPT !.flags = {}, !.len = MaxLength, !.word = <<ch>>,
                              !.state = "method"]
    <3>1. ASSUME NEW d \in BOOLEAN
          PROVE  After(Lead(d, n), ch) =
                   [[Lead(d, n + 1) EXCEPT !.complete = f] EXCEPT
                      !.flags = {}, !.len = MaxLength, !.word = <<ch>>, !.state = "method"]
      BY <2>0, <2>2 DEF StartReq, Methods
    <3>2. DOMAIN t = Fields /\ t.errno = "ok" /\ t.complete = FALSE
      BY DEF Lead, Fresh, Fields
    <3> HIDE DEF f
    <3>3. ASSUME NEW d \in BOOLEAN PROVE [Lead(d, n + 1) EXCEPT !.complete = f] = t
      BY LeadCompletes
    <3> HIDE DEF t
    <3>4. Live(s) /\ s.state # "headers_done"
      BY <3>2 DEF Live, Fields
    <3>5. After(Lead(b, n), ch) = s /\ After(Lead(c, n), ch) = s
      BY <3>1, <3>3
    <3> QED
      BY <3>4, <3>5 DEF Leads
  <2>3. CASE ch \notin {"CR", "LF"} /\ ~\E m \in Methods : m[1] = ch
    BY <1>1, <2>0, <2>3 DEF StartReq, Leads
  <2> QED
    BY <2>1, <2>2, <2>3
<1> QED
  BY <1>3, <1>4

-----------------------------------------------------------------------------
(* What parse() makes of one atom.                                         *)
Told(q) == [p |-> q, verdict |-> IF q.complete THEN "true" ELSE "indeterminate"]

LEMMA ParseAtom ==
    ASSUME NEW q, NEW ch, q.errno = "ok", DOMAIN After(q, ch) = Fields
    PROVE  LET s == After(q, ch)
               r == ReadAtom([p |-> q, verdict |-> "indeterminate"], ch)
           IN  /\ s.errno = "ok" /\ s.state # "headers_done" => r = Told(s)
               /\ s.errno = "bad" => r = [p |-> s, verdict |-> "false"]
               /\ s.errno = "paused" /\ s.state # "headers_done" => r = Told(Unpaused(s))
               /\ s.errno = "paused" /\ s.state = "headers_done" /\ s.complete = FALSE =>
                    r = Told(Feed([q |-> Unpaused(s), used |-> 0], ch).q)
<1> DEFINE s == After(q, ch)
           u == IF Stays(s) THEN 0 ELSE 1
           e == Execute(q, <<ch>>)
           r == ReadAtom([p |-> q, verdict |-> "indeterminate"], ch)
<1>1. e = [q |-> s, used |-> u]
  <2> DEFINE run == [q |-> q, used |-> 0]
  <2>1. run.q = q /\ run.used = 0 /\ 0 + 1 = 1
    OBVIOUS
  <2>2. e = Feed(run, ch)
    BY ExecuteOne
  <2> HIDE DEF run, e
  <2> QED
    BY <2>1, <2>2, FeedIs
<1>2. r = [p |-> Parse(q, <<ch>>), verdict |-> Verdict(q, <<ch>>)]
  BY DEF ReadAtom
<1>3. Len(<<ch>>) = 1 /\ SubSeq(<<ch>>, 1 + 1, 1) = <<>> /\ SubSeq(<<ch>>, 0 + 1, 1) = <<ch>>
      /\ <<ch>> # <<>>
  <2> DEFINE w == <<ch>>
  <2>1. w \in Seq({ch}) /\ Len(w) = 1 /\ w # <<>>
    OBVIOUS
  <2> HIDE DEF w
  <2>2. SubSeq(w, 1, 1) = w
    BY <2>1, SubSeqFull
  <2>3. SubSeq(w, 1 + 1, 1) = <<>>
    BY <2>1
  <2> QED
    BY <2>1, <2>2, <2>3 DEF w
<1> HIDE DEF e
<1>4. CASE s.errno = "ok" /\ s.state # "headers_done"
  <2>1. u = 1 /\ Unpaused(s) = s
    BY <1>4 DEF Stays, Unpaused
  <2>2. Parse(q, <<ch>>) = s
    BY <1>1, <1>3, <2>1 DEF Parse, e
  <2> QED
    BY <1>1, <1>2, <1>3, <1>4, <2>1, <2>2 DEF Verdict, Told, e
<1>5. CASE s.errno = "bad"
  <2>1. u = 0 /\ Unpaused(s) = s
    BY <1>5 DEF Stays, Unpaused
  <2>2. Parse(q, <<ch>>) = s
    BY <1>1, <1>5, <2>1 DEF Parse, e
  <2> QED
    BY <1>1, <1>2, <1>3, <1>5, <2>1, <2>2 DEF Verdict, e
<1>6. CASE s.errno = "paused" /\ s.state # "headers_done"
  <2>1. u = 1
    BY <1>6 DEF Stays
  <2>2. Parse(q, <<ch>>) = Unpaused(s)
    BY <1>1, <1>3, <2>1 DEF Parse, e
  <2> QED
    BY <1>1, <1>2, <1>3, <1>6, <2>1, <2>2 DEF Verdict, Told, e
<1>7. CASE s.errno = "paused" /\ s.state = "headers_done" /\ s.complete = FALSE
  <2>1. u = 0
    BY <1>7 DEF Stays
  <2>2. Parse(q, <<ch>>) = Execute(Unpaused(s), <<ch>>).q
    <3>1. e.q = s /\ e.used + 1 = 0 + 1
      BY <1>1, <2>1
    <3>2. SubSeq(<<ch>>, e.used + 1, Len(<<ch>>)) = <<ch>>
      BY <1>3, <3>1
    <3> QED
      BY <1>3, <1>7, <3>1, <3>2 DEF Parse, e
  <2>3. Execute(Unpaused(s), <<ch>>) = Feed([q |-> Unpaused(s), used |-> 0], ch)
    BY ExecuteOne
  <2> QED
    BY <1>1, <1>2, <1>3, <1>7, <2>1, <2>2, <2>3 DEF Verdict, Told, e
<1> QED
  BY <1>4, <1>5, <1>6, <1>7

(* A parser that failed is not fed.                                        *)
LEMMA ParseBad ==
    ASSUME NEW run, NEW ch, run.p.errno = "bad", run.verdict = "indeterminate"
    PROVE  ReadAtom(run, ch) = [p |-> run.p, verdict |-> "false"]
<1> DEFINE q == run.p
           e == Execute(q, <<ch>>)
<1>1. e = [q |-> q, used |-> 0]
  <2> DEFINE f == [q |-> q, used |-> 0]
  <2>1. e = Feed(f, ch)
    BY ExecuteOne
  <2>2. f.q.errno # "ok"
    OBVIOUS
  <2> HIDE DEF f, e
  <2>3. Feed(f, ch) = f
    BY <2>2, FeedIdles
  <2> QED
    BY <2>1, <2>3 DEF f
<1>2. ReadAtom(run, ch) = [p |-> Parse(q, <<ch>>), verdict |-> Verdict(q, <<ch>>)]
  BY DEF ReadAtom
<1>3. Len(<<ch>>) = 1 /\ 0 < 1
  OBVIOUS
<1>4. q.errno = "bad" /\ Unpaused(q) = q
  BY DEF Unpaused
<1> HIDE DEF e, q
<1>5. Parse(q, <<ch>>) = q
  BY <1>1, <1>4 DEF Parse, e
<1>6. Verdict(q, <<ch>>) = "false"
  BY <1>1, <1>3, <1>4 DEF Verdict, e
<1> QED
  BY <1>2, <1>5, <1>6 DEF q

LEMMA ParseKnown ==
    ASSUME NEW run, NEW ch, run.verdict # "indeterminate"
    PROVE  ReadAtom(run, ch) = run
BY DEF ReadAtom

-----------------------------------------------------------------------------
(* What both ways of reading hold after k atoms of the stream: the fold e  *)
(* over the atoms of a read, and the stream read one by one.               *)
Atomwise(k) == OneByOne(FALSE, k)

LEMMA AtomwiseStep ==
    ASSUME NEW A, stream \in Seq(A), NEW k \in Nat, k + 1 <= Len(stream)
    PROVE  Atomwise(k + 1) = ReadAtom(Atomwise(k), stream[k + 1])
<1> DEFINE c == FALSE
<1>1. Atomwise(k + 1) = OneByOne(c, k + 1) /\ Atomwise(k) = OneByOne(c, k)
  BY DEF Atomwise
<1> HIDE DEF c
<1> QED
  BY <1>1, OneByOneStep

Finished(q) == DOMAIN q = Fields /\ q.errno = "paused" /\ q.complete = TRUE

(* The first run of a read from the atom a + 1, after j of its atoms.      *)
Leading(e, a, j) ==
    \E b, c \in BOOLEAN :
        /\ c = FALSE /\ e.q = Lead(b, a + j) /\ e.used = j
        /\ Atomwise(a + j) = Told(Lead(c, a + j))
GoesOn(e, a, j) == Live(e.q) /\ e.used = j /\ Atomwise(a + j) = Told(e.q)
Failed(e, a, j) == e.q.errno = "bad" /\ e.used \in Nat /\ e.used < j /\ Atomwise(a + j).verdict = "false"
Accepted(q, k) == Finished(q) /\ Atomwise(k).verdict = "true" /\ Content(Atomwise(k).p) = Content(q)
AtHeaders(e, a, j) ==
    /\ e.q.errno = "paused" /\ e.q.state = "headers_done" /\ e.q.complete = FALSE
    /\ Live(Unpaused(e.q)) /\ e.used \in Nat /\ e.used < j
    /\ Atomwise(a + e.used + 1) =
         Told(Feed([q |-> Unpaused(e.q), used |-> 0], stream[a + e.used + 1]).q)
First(e, a, j) ==
    \/ Leading(e, a, j) \/ GoesOn(e, a, j) \/ Failed(e, a, j)
    \/ Accepted(e.q, a + j) \/ AtHeaders(e, a, j)

LEMMA ToldLive ==
    ASSUME NEW q, q.complete = FALSE
    PROVE  Told(q) = [p |-> q, verdict |-> "indeterminate"]
BY DEF Told

LEMMA ToldFinished ==
    ASSUME NEW q, DOMAIN q = Fields, q.errno = "paused", q.complete = TRUE
    PROVE  /\ Told(Unpaused(q)).verdict = "true" /\ Content(Told(Unpaused(q)).p) = Content(q)
           /\ Told(q).verdict = "true" /\ Content(Told(q).p) = Content(q)
           /\ Unpaused(q).complete = TRUE /\ Content(Unpaused(q)) = Content(q)
BY DEF Told, Unpaused, Content, Fields

(* One more atom: a parser that goes on.                                   *)
LEMMA GoesOnStep ==
    ASSUME NEW A, stream \in Seq(A), NEW a \in Nat, NEW j \in Nat, a + j + 1 <= Len(stream),
           NEW e, GoesOn(e, a, j)
    PROVE  First(Feed(e, stream[a + j + 1]), a, j + 1)
<1> DEFINE ch == stream[a + j + 1]
           s == After(e.q, ch)
           f == Feed(e, ch)
           r == Atomwise(a + j + 1)
<1>1. Live(e.q) /\ e.q.errno = "ok" /\ e.used = j /\ Outcome(e.q, s)
  BY AfterOutcome DEF GoesOn, Live
<1>2. f = [q |-> s, used |-> IF Stays(s) THEN j ELSE j + 1]
  BY <1>1, FeedIs
<1>3. r = ReadAtom([p |-> e.q, verdict |-> "indeterminate"], ch)
  <2>1. Atomwise(a + j) = [p |-> e.q, verdict |-> "indeterminate"]
    BY <1>1, ToldLive DEF GoesOn, Live
  <2>2. a + j \in Nat /\ (a + j) + 1 = a + j + 1
    OBVIOUS
  <2>3. Atomwise((a + j) + 1) = ReadAtom(Atomwise(a + j), stream[(a + j) + 1])
    BY <2>2, AtomwiseStep
  <2> QED
    BY <2>1, <2>2, <2>3
<1>4. DOMAIN s = Fields
  BY <1>1 DEF Outcome
<1>5. a + (j + 1) = a + j + 1
  OBVIOUS
<1> HIDE DEF ch, s, f, r
<1>6. CASE s.errno = "ok"
  <2>1. s.state # "headers_done" /\ Live(s)
    BY <1>1, <1>6 DEF Outcome, Live
  <2>2. r = Told(s)
    BY <1>1, <1>3, <1>4, <1>6, <2>1, ParseAtom DEF s
  <2>3. f.q = s /\ f.used = j + 1
    BY <1>2, <1>6, <2>1 DEF Stays
  <2> QED
    BY <1>5, <2>1, <2>2, <2>3 DEF First, GoesOn, f, r, ch
<1>7. CASE s.errno = "bad"
  <2>1. r = [p |-> s, verdict |-> "false"]
    BY <1>1, <1>3, <1>4, <1>7, ParseAtom DEF s
  <2>2. f.q = s /\ f.used = j
    BY <1>2, <1>7 DEF Stays
  <2> QED
    BY <1>5, <1>7, <2>1, <2>2 DEF First, Failed, f, r, ch
<1>8. CASE s.errno = "paused" /\ s.complete = TRUE /\ s.state = "start_req"
  <2>1. r = Told(Unpaused(s))
    BY <1>1, <1>3, <1>4, <1>8, ParseAtom DEF s
  <2>2. f.q = s
    BY <1>2
  <2> QED
    BY <1>4, <1>5, <1>8, <2>1, <2>2, ToldFinished DEF First, Accepted, Finished, f, r, ch
<1>9. CASE s.errno = "paused" /\ s.complete = FALSE /\ s.state = "headers_done"
  <2>1. r = Told(Feed([q |-> Unpaused(s), used |-> 0], ch).q)
    BY <1>1, <1>3, <1>4, <1>9, ParseAtom DEF s
  <2>2. f.q = s /\ f.used = j
    BY <1>2, <1>9 DEF Stays
  <2>3. Live(Unpaused(s))
    BY <1>4, <1>9 DEF Live, Unpaused, Fields
  <2> QED
    BY <1>5, <1>9, <2>1, <2>2, <2>3 DEF First, AtHeaders, f, r, ch
<1> QED
  BY <1>1, <1>6, <1>7, <1>8, <1>9 DEF Outcome

(* One more atom: nothing but ends of line so far.                         *)
LEMMA LeadingStep ==
    ASSUME NEW A, stream \in Seq(A), NEW a \in Nat, NEW j \in Nat, a + j + 1 <= Len(stream),
           NEW e, Leading(e, a, j)
    PROVE  First(Feed(e, stream[a + j + 1]), a, j + 1)
<1> DEFINE ch == stream[a + j + 1]
           n == a + j
           f == Feed(e, ch)
           r == Atomwise(a + j + 1)
<1>1. PICK b \in BOOLEAN : \E c \in BOOLEAN :
        c = FALSE /\ e.q = Lead(b, n) /\ e.used = j /\ Atomwise(n) = Told(Lead(c, n))
  BY DEF Leading
<1>2. PICK c \in BOOLEAN :
        c = FALSE /\ e.q = Lead(b, n) /\ e.used = j /\ Atomwise(n) = Told(Lead(c, n))
  BY <1>1
<1>3. n \in Nat /\ n + 1 = a + j + 1 /\ a + (j + 1) = n + 1 /\ j < j + 1
  OBVIOUS
<1> DEFINE s == After(Lead(b, n), ch)
           l == Lead(c, n)
           t == After(l, ch)
<1>4. ASSUME NEW d, NEW m
      PROVE  /\ Lead(d, m).errno = "ok" /\ Lead(d, m).state = "start_req"
             /\ Lead(d, m).complete = d /\ DOMAIN Lead(d, m) = Fields
  BY DEF Lead, Fresh, Fields
<1>5. f = [q |-> s, used |-> IF Stays(s) THEN j ELSE j + 1]
  BY <1>2, <1>4, FeedIs
<1>11. l.errno = "ok" /\ l.complete = FALSE /\ Atomwise(n) = Told(l)
  BY <1>2, <1>4
<1>12. /\ t = Lead(c, n + 1) => t.errno = "ok" /\ t.state # "headers_done" /\ DOMAIN t = Fields
       /\ DOMAIN t = Fields
  <2>1. t \in {Fail(Lead(c, n + 1)), StartReq(Lead(c, n + 1), ch)}
    BY <1>3, LeadAfterIs
  <2> DEFINE m == Lead(c, n + 1)
  <2>2. DOMAIN m = Fields /\ m.errno = "ok" /\ m.state = "start_req"
    BY <1>4
  <2> HIDE DEF m, n, ch
  <2>3. DOMAIN Fail(m) = Fields
    BY <2>2 DEF Fail
  <2>4. DOMAIN StartReq(m, ch) = Fields
    BY <2>2, <2>3 DEF StartReq, Methods
  <2>5. t \in {Fail(m), StartReq(m, ch)}
    BY <2>1 DEF m, n, ch
  <2> QED
    BY <2>2, <2>3, <2>4, <2>5 DEF m
<1>6. r = ReadAtom([p |-> l, verdict |-> "indeterminate"], ch)
  <2>1. Atomwise(n) = [p |-> l, verdict |-> "indeterminate"]
    <3> HIDE DEF l
    <3> QED
      BY <1>11, ToldLive
  <2>2. Atomwise(n + 1) = ReadAtom(Atomwise(n), stream[n + 1])
    BY <1>3, AtomwiseStep
  <2> QED
    BY <1>3, <2>1, <2>2
<1>7. Leads(b, c, n, ch)
  BY <1>3, LeadAfter
<1> HIDE DEF ch, n, f, r, l
<1>8. CASE s = Lead(b, n + 1) /\ t = Lead(c, n + 1)
  <2>1. r = Told(t)
    BY <1>6, <1>8, <1>11, <1>12, ParseAtom
  <2>2. f.q = s /\ f.used = j + 1
    BY <1>4, <1>5, <1>8 DEF Stays
  <2>3. Leading(f, a, j + 1)
    BY <1>2, <1>3, <1>8, <2>1, <2>2 DEF Leading, r, l
  <2> QED
    BY <2>3 DEF First, f, ch
<1>9. CASE s.errno = "bad" /\ t.errno = "bad"
  <2>2. r = [p |-> t, verdict |-> "false"]
    BY <1>6, <1>9, <1>11, <1>12, ParseAtom
  <2>3. f.q = s /\ f.used = j
    BY <1>5, <1>9 DEF Stays
  <2>4. Failed(f, a, j + 1)
    BY <1>3, <1>9, <2>2, <2>3 DEF Failed, r
  <2> QED
    BY <2>4 DEF First, f, ch
<1>10. CASE s = t /\ Live(s) /\ s.state # "headers_done"
  <2>1. DOMAIN t = Fields /\ t.errno = "ok" /\ t.state # "headers_done"
    BY <1>10 DEF Live
  <2>2. r = Told(t)
    BY <1>6, <1>11, <2>1, ParseAtom
  <2>3. f.q = s /\ f.used = j + 1
    BY <1>5, <1>10, <2>1 DEF Stays
  <2>4. GoesOn(f, a, j + 1)
    BY <1>3, <1>10, <2>2, <2>3 DEF GoesOn, r
  <2> QED
    BY <2>4 DEF First, f, ch
<1> QED
  BY <1>7, <1>8, <1>9, <1>10 DEF Leads, l

LEMMA FirstStep ==
    ASSUME NEW A, stream \in Seq(A), NEW a \in Nat, NEW j \in Nat, a + j + 1 <= Len(stream),
           NEW e, First(e, a, j)
    PROVE  First(Feed(e, stream[a + j + 1]), a, j + 1)
<1> DEFINE ch == stream[a + j + 1]
<1>1. Atomwise(a + (j + 1)) = ReadAtom(Atomwise(a + j), ch)
  <2>1. a + j \in Nat /\ (a + j) + 1 = a + j + 1 /\ a + (j + 1) = (a + j) + 1
    OBVIOUS
  <2>2. Atomwise((a + j) + 1) = ReadAtom(Atomwise(a + j), stream[(a + j) + 1])
    BY <2>1, AtomwiseStep
  <2> QED
    BY <2>1, <2>2
<1> HIDE DEF ch
<1>2. CASE Leading(e, a, j)
  BY <1>2, LeadingStep
<1>3. CASE GoesOn(e, a, j)
  BY <1>3, GoesOnStep
<1>4. CASE Failed(e, a, j)
  <2>1. Feed(e, ch) = e
    BY <1>4, FeedIdles DEF Failed
  <2>2. Atomwise(a + (j + 1)) = Atomwise(a + j)
    BY <1>1, <1>4, ParseKnown DEF Failed
  <2>3. e.used < j => e.used < j + 1
    BY <1>4 DEF Failed
  <2> QED
    BY <1>4, <2>1, <2>2, <2>3 DEF First, Failed, ch
<1>5. CASE Accepted(e.q, a + j)
  <2>1. Feed(e, ch) = e
    BY <1>5, FeedIdles DEF Accepted, Finished
  <2>2. Atomwise(a + (j + 1)) = Atomwise(a + j)
    BY <1>1, <1>5, ParseKnown DEF Accepted
  <2> QED
    BY <1>5, <2>1, <2>2 DEF First, Accepted, ch
<1>6. CASE AtHeaders(e, a, j)
  <2>1. Feed(e, ch) = e
    BY <1>6, FeedIdles DEF AtHeaders
  <2>2. e.used < j => e.used < j + 1
    BY <1>6 DEF AtHeaders
  <2> QED
    BY <1>6, <2>1, <2>2 DEF First, AtHeaders, ch
<1> QED
  BY <1>2, <1>3, <1>4, <1>5, <1>6 DEF First

(* The atoms of a read from the atom a + 1 on.                             *)
Piece(a, n) == SubSeq(stream, a + 1, a + n)

LEMMA PieceGrows ==
    ASSUME NEW A, stream \in Seq(A), NEW q, NEW a \in Nat
    PROVE  /\ a <= Len(stream) => Execute(q, Piece(a, 0)) = [q |-> q, used |-> 0]
           /\ \A n \in Nat : a + n + 1 <= Len(stream) =>
                Execute(q, Piece(a, n + 1)) = Feed(Execute(q, Piece(a, n)), stream[a + n + 1])
<1>1. ASSUME a <= Len(stream)
      PROVE  Execute(q, Piece(a, 0)) = [q |-> q, used |-> 0]
  <2>1. SubSeq(stream, a + 1, a + 0) = SubSeq(stream, a + 1, a)
    OBVIOUS
  <2> QED
    BY <1>1, <2>1, ExecuteNothing DEF Piece
<1>2. ASSUME NEW n \in Nat, a + n + 1 <= Len(stream)
      PROVE  Execute(q, Piece(a, n + 1)) = Feed(Execute(q, Piece(a, n)), stream[a + n + 1])
  <2>1. Piece(a, n + 1) = SubSeq(stream, a + 1, a + n + 1)
    BY DEF Piece
  <2> QED
    BY <1>2, <2>1, ExecuteStep DEF Piece
<1> QED
  BY <1>1, <1>2

LEMMA FirstRun ==
    ASSUME NEW A, stream \in Seq(A), NEW q, NEW a \in Nat, NEW n \in Nat, a + n <= Len(stream),
           First([q |-> q, used |-> 0], a, 0)
    PROVE  First(Execute(q, Piece(a, n)), a, n)
<1> DEFINE T == {m \in Nat : a + m <= Len(stream) => First(Execute(q, Piece(a, m)), a, m)}
<1>0. Len(stream) \in Nat
  BY LenProperties
<1>1. 0 \in T
  <2>1. Execute(q, Piece(a, 0)) = [q |-> q, used |-> 0]
    BY <1>0, PieceGrows
  <2> QED
    BY <2>1
<1>2. ASSUME NEW m \in T PROVE m + 1 \in T
  <2> SUFFICES ASSUME a + m + 1 <= Len(stream)
               PROVE  First(Execute(q, Piece(a, m + 1)), a, m + 1)
    OBVIOUS
  <2> DEFINE e == Execute(q, Piece(a, m))
  <2>1. m \in Nat /\ a + m <= Len(stream)
    BY <1>0
  <2>2. First(e, a, m)
    BY <2>1
  <2>3. Execute(q, Piece(a, m + 1)) = Feed(e, stream[a + m + 1])
    BY <2>1, PieceGrows
  <2> HIDE DEF e, T
  <2>4. First(Feed(e, stream[a + m + 1]), a, m + 1)
    BY <2>1, <2>2, FirstStep
  <2> QED
    BY <2>3, <2>4
<1>3. T = Nat
  <2>1. T \in SUBSET Nat
    OBVIOUS
  <2> HIDE DEF T
  <2> QED
    BY <1>1, <1>2, <2>1, Counting
<1> QED
  BY <1>3

(* The second run of a read, after the headers.                            *)
Known(k) == Atomwise(k).verdict \in {"indeterminate", "false"}
Second(q, k) ==
    \/ Live(q) /\ InBody(q) /\ Atomwise(k) = Told(q)
    \/ q.errno = "bad" /\ q.complete = FALSE /\ Atomwise(k).p.errno = "bad" /\ Known(k)
    \/ Accepted(q, k)

LEMMA SecondStart ==
    ASSUME NEW q, NEW ch, Live(q), q.state = "headers_done", NEW k,
           Atomwise(k) = Told(Feed([q |-> q, used |-> 0], ch).q)
    PROVE  Second(Feed([q |-> q, used |-> 0], ch).q, k)
<1> DEFINE e == [q |-> q, used |-> 0]
           s == After(q, ch)
           f == Feed(e, ch)
<1>1. f.q = s
  <2>1. e.q = q /\ q.errno = "ok"
    BY DEF Live
  <2> HIDE DEF e
  <2> QED
    BY <2>1, FeedIs
<1>2. Outcome(q, s)
  BY AfterOutcome
<1>3. Atomwise(k) = Told(s)
  BY <1>1
<1> HIDE DEF s, f
<1>4. CASE s.errno = "ok"
  BY <1>1, <1>2, <1>3, <1>4 DEF Outcome, Live, Second, f
<1>5. CASE s.errno = "bad"
  BY <1>1, <1>2, <1>3, <1>5 DEF Outcome, Told, Known, Second, f
<1>6. CASE s.errno = "paused"
  BY <1>1, <1>2, <1>3, <1>6, ToldFinished DEF Outcome, Accepted, Finished, Second, f
<1> QED
  BY <1>2, <1>4, <1>5, <1>6 DEF Outcome

LEMMA SecondStep ==
    ASSUME NEW A, stream \in Seq(A), NEW k \in Nat, k + 1 <= Len(stream),
           NEW e, Second(e.q, k)
    PROVE  Second(Feed(e, stream[k + 1]).q, k + 1)
<1> DEFINE ch == stream[k + 1]
           s == After(e.q, ch)
           f == Feed(e, ch)
           r == Atomwise(k + 1)
<1>1. r = ReadAtom(Atomwise(k), ch)
  BY AtomwiseStep
<1>2. CASE Live(e.q) /\ InBody(e.q) /\ Atomwise(k) = Told(e.q)
  <2>1. e.q.errno = "ok" /\ Outcome(e.q, s)
    BY <1>2, AfterOutcome DEF Live
  <2>2. f.q = s
    BY <2>1, FeedIs
  <2>3. r = ReadAtom([p |-> e.q, verdict |-> "indeterminate"], ch)
    BY <1>1, <1>2, ToldLive DEF Live
  <2>4. DOMAIN s = Fields
    BY <2>1 DEF Outcome
  <2> HIDE DEF ch, s, f, r
  <2>5. CASE s.errno = "ok"
    <3>1. s.state # "headers_done" /\ Live(s) /\ InBody(s)
      BY <1>2, <2>1, <2>5 DEF Outcome, Live
    <3>2. r = Told(s)
      BY <2>1, <2>3, <2>4, <2>5, <3>1, ParseAtom DEF s
    <3> QED
      BY <2>2, <3>1, <3>2 DEF Second, f, r, ch
  <2>6. CASE s.errno = "bad"
    <3>1. r = [p |-> s, verdict |-> "false"]
      BY <2>1, <2>3, <2>4, <2>6, ParseAtom DEF s
    <3>2. s.complete = FALSE
      BY <2>1, <2>6 DEF Outcome
    <3> QED
      BY <2>2, <2>6, <3>1, <3>2 DEF Second, Known, f, r, ch
  <2>7. CASE s.errno = "paused"
    <3>1. s.complete = TRUE /\ s.state # "headers_done"
      BY <1>2, <2>1, <2>7 DEF Outcome
    <3>2. r = Told(Unpaused(s))
      BY <2>1, <2>3, <2>4, <2>7, <3>1, ParseAtom DEF s
    <3> QED
      BY <2>2, <2>4, <2>7, <3>1, <3>2, ToldFinished DEF Second, Accepted, Finished, f, r, ch
  <2> QED
    BY <2>1, <2>5, <2>6, <2>7 DEF Outcome
<1>3. CASE e.q.errno = "bad" /\ e.q.complete = FALSE /\ Atomwise(k).p.errno = "bad" /\ Known(k)
  <2>1. f = e
    BY <1>3, FeedIdles
  <2>2. r.p.errno = "bad" /\ r.verdict = "false"
    <3>1. CASE Atomwise(k).verdict = "indeterminate"
      BY <1>1, <1>3, <3>1, ParseBad
    <3>2. CASE Atomwise(k).verdict = "false"
      BY <1>1, <1>3, <3>2, ParseKnown
    <3> QED
      BY <1>3, <3>1, <3>2 DEF Known
  <2> QED
    BY <1>3, <2>1, <2>2 DEF Second, Known
<1>4. CASE Accepted(e.q, k)
  <2>1. f = e
    BY <1>4, FeedIdles DEF Accepted, Finished
  <2>2. r = Atomwise(k)
    BY <1>1, <1>4, ParseKnown DEF Accepted
  <2> QED
    BY <1>4, <2>1, <2>2 DEF Second, Accepted
<1> QED
  BY <1>2, <1>3, <1>4 DEF Second

LEMMA SecondRun ==
    ASSUME NEW A, stream \in Seq(A), NEW q, Live(q), q.state = "headers_done",
           NEW a \in Nat, NEW n \in Nat, a + n + 1 <= Len(stream),
           Atomwise(a + 1) = Told(Feed([q |-> q, used |-> 0], stream[a + 1]).q)
    PROVE  Second(Execute(q, Piece(a, n + 1)).q, a + n + 1)
<1> DEFINE T == {m \in Nat : a + m + 1 <= Len(stream) =>
                               Second(Execute(q, Piece(a, m + 1)).q, a + m + 1)}
<1>0. Len(stream) \in Nat
  BY LenProperties
<1>1. 0 \in T
  <2>1. a <= Len(stream) /\ a + 0 + 1 = a + 1 /\ a + 0 + 1 <= Len(stream) /\ 0 \in Nat
    BY <1>0
  <2>2. Execute(q, Piece(a, 0)) = [q |-> q, used |-> 0]
    BY <2>1, PieceGrows
  <2>3. Execute(q, Piece(a, 0 + 1)) = Feed(Execute(q, Piece(a, 0)), stream[a + 0 + 1])
    BY <2>1, PieceGrows
  <2>4. Second(Feed([q |-> q, used |-> 0], stream[a + 1]).q, a + 1)
    BY SecondStart
  <2> QED
    BY <2>1, <2>2, <2>3, <2>4
<1>2. ASSUME NEW m \in T PROVE m + 1 \in T
  <2> SUFFICES ASSUME a + (m + 1) + 1 <= Len(stream)
               PROVE  Second(Execute(q, Piece(a, m + 1 + 1)).q, a + (m + 1) + 1)
    OBVIOUS
  <2> DEFINE i == m + 1
             e == Execute(q, Piece(a, i))
             k == a + i
  <2>1. i \in Nat /\ k \in Nat /\ k <= Len(stream) /\ k = a + m + 1 /\ k + 1 <= Len(stream)
    BY <1>0
  <2>2. Second(e.q, k)
    BY <2>1
  <2>3. Execute(q, Piece(a, i + 1)) = Feed(e, stream[k + 1])
    BY <2>1, PieceGrows
  <2> HIDE DEF e, T, i, k
  <2>4. Second(Feed(e, stream[k + 1]).q, k + 1)
    BY <2>1, <2>2, SecondStep
  <2> QED
    BY <2>3, <2>4 DEF i, k
<1>3. T = Nat
  <2>1. T \in SUBSET Nat
    OBVIOUS
  <2> HIDE DEF T
  <2> QED
    BY <1>1, <1>2, <2>1, Counting
<1> QED
  BY <1>3

-----------------------------------------------------------------------------
(* What holds between two reads, k atoms of the stream behind it: the      *)
(* parser q and the verdict v are those of the stream read one by one, but *)
(* for the error behind the headers that the next read reports, and for    *)
(* the verdict on nothing but ends of line.                                *)
Agreed(k, q, v) ==
    \/ /\ v = "indeterminate"
       /\ \E b, c \in BOOLEAN : c = FALSE /\ q = Lead(b, k) /\ Atomwise(k) = Told(Lead(c, k))
    \/ v = "indeterminate" /\ Live(q) /\ Atomwise(k) = Told(q)
    \/ v = "indeterminate" /\ q.errno = "bad" /\ Atomwise(k).p.errno = "bad" /\ Known(k)
    \/ v = "true" /\ Atomwise(k).verdict = "true" /\ Content(Atomwise(k).p) = Content(q)
    \/ v = "false" /\ Atomwise(k).verdict = "false"
    \/ v = "true" /\ q.method = <<>>

(* A read behind an error.                                                 *)
LEMMA BadRun ==
    ASSUME NEW A, stream \in Seq(A), NEW q, q.errno = "bad", NEW a \in Nat, NEW n \in Nat,
           a + n + 1 <= Len(stream), Atomwise(a).p.errno = "bad", Known(a)
    PROVE  Execute(q, Piece(a, n + 1)) = [q |-> q, used |-> 0] /\ Atomwise(a + n + 1).verdict = "false"
<1> DEFINE base == [q |-> q, used |-> 0]
           T == {m \in Nat : a + m + 1 <= Len(stream) =>
                               /\ Execute(q, Piece(a, m + 1)) = base
                               /\ Atomwise(a + m + 1).verdict = "false"}
<1>0. Len(stream) \in Nat
  BY LenProperties
<1>1. \A ch : Feed(base, ch) = base
  <2>1. base.q.errno # "ok"
    OBVIOUS
  <2> HIDE DEF base
  <2> QED
    BY <2>1, FeedIdles
<1> HIDE DEF base
<1>2. 0 \in T
  <2> SUFFICES ASSUME a + 0 + 1 <= Len(stream)
               PROVE  /\ Execute(q, Piece(a, 0 + 1)) = base
                      /\ Atomwise(a + 0 + 1).verdict = "false"
    OBVIOUS
  <2>1. a <= Len(stream) /\ a + 0 + 1 = a + 1 /\ a + 1 <= Len(stream) /\ 0 \in Nat
    BY <1>0
  <2>2. Execute(q, Piece(a, 0)) = base
    BY <2>1, PieceGrows DEF base
  <2>3. Execute(q, Piece(a, 0 + 1)) = base
    <3>1. Execute(q, Piece(a, 0 + 1)) = Feed(Execute(q, Piece(a, 0)), stream[a + 0 + 1])
      BY <2>1, PieceGrows
    <3> QED
      BY <1>1, <2>2, <3>1
  <2>4. Atomwise(a + 1) = ReadAtom(Atomwise(a), stream[a + 1])
    BY <2>1, AtomwiseStep
  <2>5. CASE Atomwise(a).verdict = "indeterminate"
    BY <2>1, <2>3, <2>4, <2>5, ParseBad
  <2>6. CASE Atomwise(a).verdict = "false"
    BY <2>1, <2>3, <2>4, <2>6, ParseKnown
  <2> QED
    BY <2>5, <2>6 DEF Known
<1>3. ASSUME NEW m \in T PROVE m + 1 \in T
  <2> DEFINE i == m + 1
             k == a + i
  <2> SUFFICES ASSUME k + 1 <= Len(stream)
               PROVE  /\ Execute(q, Piece(a, i + 1)) = base
                      /\ Atomwise(k + 1).verdict = "false"
    OBVIOUS
  <2>1. i \in Nat /\ k \in Nat /\ k = a + m + 1 /\ k <= Len(stream)
    BY <1>0
  <2>2. Execute(q, Piece(a, i)) = base /\ Atomwise(k).verdict = "false"
    BY <2>1
  <2>3. Execute(q, Piece(a, i + 1)) = Feed(Execute(q, Piece(a, i)), stream[a + i + 1])
    BY <2>1, PieceGrows
  <2> HIDE DEF i, k, T
  <2>4. Atomwise(k + 1) = ReadAtom(Atomwise(k), stream[k + 1])
    BY <2>1, AtomwiseStep
  <2>5. Atomwise(k + 1) = Atomwise(k)
    BY <2>2, <2>4, ParseKnown
  <2> QED
    BY <1>1, <2>2, <2>3, <2>5
<1>4. T = Nat
  <2>1. T \in SUBSET Nat
    OBVIOUS
  <2> HIDE DEF T
  <2> QED
    BY <1>2, <1>3, <2>1, Counting
<1> QED
  BY <1>4 DEF base

(* What is left of a read behind the headers.                              *)
LEMMA PieceRest ==
    ASSUME NEW A, stream \in Seq(A), NEW a \in Nat, NEW n \in Nat, NEW u \in Nat,
           a + n <= Len(stream), u <= n
    PROVE  /\ Len(Piece(a, n)) = n
           /\ SubSeq(Piece(a, n), u + 1, Len(Piece(a, n))) = Piece(a + u, n - u)
           /\ (SubSeq(Piece(a, n), u + 1, Len(Piece(a, n))) = <<>>) <=> (u = n)
<1> DEFINE w == Piece(a, n)
           x == SubSeq(w, u + 1, n)
           y == Piece(a + u, n - u)
<1>1. w \in Seq(A) /\ Len(w) = n /\ \A i \in 1 .. n : w[i] = stream[a + i]
  BY DEF Piece
<1>2. y \in Seq(A) /\ Len(y) = n - u /\ \A i \in 1 .. n - u : y[i] = stream[a + u + i]
  <2>1. PICK b \in Nat, m \in Nat : b = a + u /\ m = n - u /\ b + m <= Len(stream)
    OBVIOUS
  <2>2. /\ Piece(b, m) \in Seq(A) /\ Len(Piece(b, m)) = m
        /\ \A i \in 1 .. m : Piece(b, m)[i] = stream[b + i]
    BY <2>1 DEF Piece
  <2> QED
    BY <2>1, <2>2
<1> HIDE DEF w
<1>3. x \in Seq(A) /\ Len(x) = n - u /\ \A i \in 1 .. n - u : x[i] = w[u + i]
  BY <1>1, SMTT(30)
<1>4. \A i \in 1 .. n - u : x[i] = stream[a + u + i]
  BY <1>1, <1>3
<1> HIDE DEF x, y
<1>5. x = y
  BY <1>2, <1>3, <1>4, SeqEqual
<1>6. x = <<>> <=> u = n
  BY <1>3, EmptySeq
<1> QED
  BY <1>1, <1>5, <1>6 DEF w, x, y

(* A read of n atoms more.                                                 *)
LEMMA ReadAgrees ==
    ASSUME NEW A, stream \in Seq(A), NEW q, NEW a \in Nat, NEW n \in Nat, n > 0,
           a + n <= Len(stream), Agreed(a, q, "indeterminate")
    PROVE  Agreed(a + n, Parse(q, Piece(a, n)), Verdict(q, Piece(a, n)))
<1> DEFINE data == Piece(a, n)
           e == Execute(q, data)
           rest == SubSeq(data, e.used + 1, Len(data))
           s == Parse(q, data)
           v == Verdict(q, data)
<1>1. /\ Len(data) = n
      /\ \A u \in Nat : u <= n =>
           SubSeq(data, u + 1, Len(data)) = Piece(a + u, n - u)
      /\ \A u \in Nat : u <= n => ((SubSeq(data, u + 1, Len(data)) = <<>>) <=> (u = n))
  <2>1. ASSUME NEW u \in Nat, u <= n
        PROVE  /\ Len(Piece(a, n)) = n
               /\ SubSeq(Piece(a, n), u + 1, Len(Piece(a, n))) = Piece(a + u, n - u)
               /\ (SubSeq(Piece(a, n), u + 1, Len(Piece(a, n))) = <<>>) <=> (u = n)
    BY <2>1, PieceRest
  <2> QED
    BY <2>1
<1>2. s = IF rest # <<>> /\ e.q.errno = "paused" /\ ~e.q.complete
          THEN Execute(Unpaused(e.q), rest).q ELSE Unpaused(e.q)
  BY DEF Parse
<1>3. v = IF e.used < n /\ e.q.errno # "paused" THEN "false"
          ELSE IF s.complete THEN "true" ELSE "indeterminate"
  BY <1>1 DEF Verdict
<1> SUFFICES Agreed(a + n, s, v)
  OBVIOUS
<1>4. CASE q.errno = "bad" /\ Atomwise(a).p.errno = "bad" /\ Known(a)
  <2>1. PICK m \in Nat : n = m + 1
    OBVIOUS
  <2>2. e = [q |-> q, used |-> 0] /\ Atomwise(a + n).verdict = "false"
    <3>1. a + m + 1 = a + n
      BY <2>1
    <3>2. Execute(q, Piece(a, m + 1)) = [q |-> q, used |-> 0] /\ Atomwise(a + m + 1).verdict = "false"
      BY <1>4, <3>1, BadRun
    <3> QED
      BY <2>1, <3>1, <3>2
  <2> HIDE DEF e, v, s
  <2>3. v = "false"
    BY <1>3, <1>4, <2>2
  <2> QED
    BY <2>2, <2>3 DEF Agreed
<1>5. CASE First([q |-> q, used |-> 0], a, 0)
  <2>1. First(e, a, n)
    BY <1>5, FirstRun
  <2> HIDE DEF data, e, s, v
  <2>2. CASE Leading(e, a, n)
    <3>1. PICK b \in BOOLEAN : \E c \in BOOLEAN :
            c = FALSE /\ e.q = Lead(b, a + n) /\ e.used = n /\ Atomwise(a + n) = Told(Lead(c, a + n))
      BY <2>2 DEF Leading
    <3>2. /\ Lead(b, a + n).errno = "ok" /\ Lead(b, a + n).complete = b
          /\ Lead(b, a + n).method = <<>>
      BY DEF Lead, Fresh
    <3>3. s = e.q
      BY <1>2, <3>1, <3>2 DEF Unpaused
    <3>4. v = IF b THEN "true" ELSE "indeterminate"
      BY <1>3, <3>1, <3>2, <3>3
    <3>5. CASE b = TRUE
      BY <3>1, <3>2, <3>3, <3>4, <3>5 DEF Agreed
    <3>6. CASE b = FALSE
      <4>1. v = "indeterminate"
        BY <3>4, <3>6
      <4> QED
        BY <3>1, <3>3, <4>1 DEF Agreed
    <3> QED
      BY <3>5, <3>6
  <2>3. CASE GoesOn(e, a, n)
    <3>1. e.used = n /\ Live(e.q) /\ Atomwise(a + n) = Told(e.q)
      BY <2>3 DEF GoesOn
    <3>2. s = e.q
      BY <1>2, <3>1 DEF Unpaused, Live
    <3>3. v = "indeterminate"
      BY <1>3, <3>1, <3>2 DEF Live
    <3> QED
      BY <3>1, <3>2, <3>3 DEF Agreed
  <2>4. CASE Failed(e, a, n)
    <3>1. v = "false"
      BY <1>3, <2>4 DEF Failed
    <3> QED
      BY <2>4, <3>1 DEF Agreed, Failed
  <2>5. CASE Accepted(e.q, a + n)
    <3>1. e.q.errno = "paused" /\ e.q.complete = TRUE /\ DOMAIN e.q = Fields
      BY <2>5 DEF Accepted, Finished
    <3>2. s = Unpaused(e.q)
      BY <1>2, <3>1
    <3>3. s.complete = TRUE /\ Content(s) = Content(e.q)
      BY <3>1, <3>2, ToldFinished
    <3>4. v = "true"
      BY <1>3, <3>1, <3>3
    <3> QED
      BY <2>5, <3>3, <3>4 DEF Agreed, Accepted
  <2>6. CASE AtHeaders(e, a, n)
    <3> DEFINE h == Unpaused(e.q)
               c == a + e.used
               x == Execute(h, rest)
    <3>0. PICK u \in Nat : e.used = u /\ u < n
      BY <2>6 DEF AtHeaders
    <3>1. PICK m \in Nat : n - u = m + 1
      <4>1. n - u - 1 \in Nat /\ n - u = n - u - 1 + 1
        BY <3>0
      <4> QED
        BY <4>1
    <3>10. c = a + u /\ c \in Nat /\ c + m + 1 = a + n
      BY <3>0, <3>1
    <3>2. rest = Piece(c, m + 1) /\ rest # <<>>
      <4>1. u <= n /\ u # n
        BY <3>0
      <4> QED
        BY <1>1, <3>0, <3>1, <3>10, <4>1
    <3>3. Live(h) /\ h.state = "headers_done" /\ e.q.errno = "paused" /\ e.q.complete = FALSE
      BY <2>6 DEF AtHeaders, Unpaused, Live, Fields
    <3>4. Atomwise(c + 1) = Told(Feed([q |-> h, used |-> 0], stream[c + 1]).q)
      BY <2>6 DEF AtHeaders
    <3>5. s = x.q
      BY <1>2, <3>2, <3>3
    <3> HIDE DEF h, c
    <3>6. Second(x.q, a + n)
      BY <3>10, <3>2, <3>3, <3>4, SecondRun
    <3>7. v = IF s.complete THEN "true" ELSE "indeterminate"
      BY <1>3, <3>3
    <3> HIDE DEF x, rest
    <3>8. CASE s.complete = FALSE
      <4>1. v = "indeterminate" /\ ~Finished(s)
        BY <3>7, <3>8 DEF Finished
      <4> QED
        BY <3>5, <3>6, <4>1 DEF Agreed, Second, Accepted
    <3>9. CASE Accepted(s, a + n)
      <4>1. v = "true"
        BY <3>7, <3>9 DEF Accepted, Finished
      <4> QED
        BY <3>9, <4>1 DEF Agreed, Accepted
    <3> QED
      BY <3>5, <3>6, <3>8, <3>9 DEF Second, Live
  <2> QED
    BY <2>1, <2>2, <2>3, <2>4, <2>5, <2>6 DEF First
<1>6. \/ q.errno = "bad" /\ Atomwise(a).p.errno = "bad" /\ Known(a)
      \/ First([q |-> q, used |-> 0], a, 0)
  <2> DEFINE base == [q |-> q, used |-> 0]
  <2>1. base.q = q /\ base.used = 0 /\ a + 0 = a
    OBVIOUS
  <2> HIDE DEF base, data, e, s, v
  <2>2. ASSUME NEW b \in BOOLEAN, NEW c \in BOOLEAN, c = FALSE, q = Lead(b, a),
               Atomwise(a) = Told(Lead(c, a))
        PROVE  First(base, a, 0)
    BY <2>1, <2>2 DEF First, Leading
  <2>3. ASSUME Live(q) /\ Atomwise(a) = Told(q)
        PROVE  First(base, a, 0)
    BY <2>1, <2>3 DEF First, GoesOn
  <2> QED
    BY <2>2, <2>3 DEF Agreed, base
<1> QED
  BY <1>4, <1>5, <1>6

-----------------------------------------------------------------------------
IInv ==
    /\ stream \in Seq(Range(stream))
    /\ pos \in Nat /\ pos <= Len(stream)
    /\ Agreed(pos, p, verdict)

LEMMA AgreedMeans ==
    IInv => CutIsImmaterial
<1> SUFFICES ASSUME IInv, p.method # <<>> PROVE
      LET r == Atomwise(pos)
      IN  /\ verdict = "true" => r.verdict = "true" /\ Content(r.p) = Content(p)
          /\ verdict = "false" => r.verdict = "false"
          /\ verdict = "indeterminate" => \/ r.verdict = "indeterminate"
                                          \/ r.verdict = "false" /\ p.errno = "bad"
  BY DEF CutIsImmaterial, Atomwise
<1>1. \A b, k : Lead(b, k).method = <<>>
  BY DEF Lead, Fresh
<1>2. Live(p) => Told(p).verdict = "indeterminate"
  BY DEF Told, Live
<1> QED
  BY <1>1, <1>2 DEF IInv, Agreed, Known

LEMMA StreamTyped ==
    ASSUME Init
    PROVE  stream \in Seq(Range(stream))
<1> DEFINE z == Serialized(sent)
<1>1. z \in Seq(Range(z))
  BY MessagesAssumption DEF Init
<1> HIDE DEF z
<1>2. CASE stream = z
  BY <1>1, <1>2
<1>3. CASE \E i \in DOMAIN z, x \in Noise : stream = [z EXCEPT ![i] = x]
  <2>1. PICK i \in DOMAIN z, x \in Noise : stream = [z EXCEPT ![i] = x]
    BY <1>3
  <2>2. Len(z) \in Nat /\ DOMAIN z = 1 .. Len(z)
    BY <1>1, LenProperties
  <2>3. DOMAIN stream = 1 .. Len(z) /\ stream = [j \in 1 .. Len(z) |-> stream[j]]
    BY <2>1, <2>2
  <2>4. \A j \in 1 .. Len(z) : stream[j] \in Range(stream)
    BY <2>3 DEF Range
  <2> QED
    BY <2>2, <2>3, <2>4, SeqDef
<1> QED
  BY <1>2, <1>3 DEF Init, z

(* A parser that has read nothing is one that has read no empty line.      *)
LEMMA FreshIsLead ==
    \A c : Fresh(c) = Lead(c, 0)
<1>1. ASSUME NEW c PROVE Fresh(c) = Lead(c, 0)
  <2>1. Fresh(c).nread = 0 /\ Whole(Fresh(c))
    BY DEF Fresh, Whole, Fields
  <2> DEFINE g == Fresh(c)
  <2> HIDE DEF g
  <2>2. Whole(g) /\ g.nread = 0 => g = [g EXCEPT !.nread = 0]
    BY DEF Whole
  <2> QED
    BY <2>1, <2>2 DEF Lead, g
<1> QED
  BY <1>1

LEMMA InitAgrees ==
    ASSUME Init
    PROVE  IInv
<1>1. stream \in Seq(Range(stream))
  BY StreamTyped
<1>2. Len(stream) \in Nat
  BY <1>1, LenProperties
<1>3. PICK b \in BOOLEAN : p = Fresh(b)
  BY DEF Init
<1>4. \A c : Fresh(c) = Lead(c, 0)
  BY FreshIsLead
<1>5. PICK c \in BOOLEAN : c = FALSE
  OBVIOUS
<1>6. Atomwise(0) = [p |-> Lead(c, 0), verdict |-> "indeterminate"]
  BY <1>1, <1>4, <1>5, OneByOneNothing DEF Atomwise
<1>7. Told(Lead(c, 0)) = [p |-> Lead(c, 0), verdict |-> "indeterminate"]
  <2>1. Lead(c, 0).complete = FALSE
    BY <1>5 DEF Lead, Fresh
  <2> QED
    BY <2>1, ToldLive
<1>8. Agreed(0, p, "indeterminate")
  BY <1>3, <1>4, <1>5, <1>6, <1>7 DEF Agreed
<1> QED
  BY <1>1, <1>2, <1>8 DEF IInv, Init

LEMMA AtomwiseStays ==
    ASSUME stream' = stream
    PROVE  \A k : Atomwise(k)' = Atomwise(k)
BY DEF Atomwise, OneByOne

LEMMA NextAgrees ==
    ASSUME IInv, [Next]_vars
    PROVE  IInv'
<1>1. stream' = stream
  BY DEF Next, HandleRead, vars
<1>2. ASSUME NEW k, NEW q, NEW v, Agreed(k, q, v)
      PROVE  Agreed(k, q, v)'
  BY <1>1, <1>2, AtomwiseStays DEF Agreed, Known
<1>3. CASE UNCHANGED vars
  <2>1. pos' = pos /\ p' = p /\ verdict' = verdict
    BY <1>3 DEF vars
  <2>2. Agreed(pos', p', verdict')
    BY <2>1 DEF IInv
  <2> QED
    BY <1>1, <1>2, <2>1 DEF IInv
<1>4. ASSUME NEW n \in 1 .. MaxRead \union {Len(stream) - pos}, n > 0, HandleRead(n)
      PROVE  IInv'
  <2>1. Len(stream) \in Nat
    BY LenProperties DEF IInv
  <2>2. n \in Nat
    BY <1>4, <2>1, LimitsAssumption DEF IInv
  <2>3. pos + n <= Len(stream) /\ pos' = pos + n /\ verdict = "indeterminate"
    BY <1>4 DEF HandleRead
  <2>4. p' = Parse(p, Piece(pos, n)) /\ verdict' = Verdict(p, Piece(pos, n))
    BY <1>4 DEF HandleRead, Piece
  <2>5. Agreed(pos + n, Parse(p, Piece(pos, n)), Verdict(p, Piece(pos, n)))
    BY <1>4, <2>2, <2>3, ReadAgrees DEF IInv
  <2>6. Agreed(pos, p, verdict)'
    <3> DEFINE k == pos + n
               q == Parse(p, Piece(pos, n))
               v == Verdict(p, Piece(pos, n))
    <3>1. pos' = k /\ p' = q /\ verdict' = v /\ Agreed(k, q, v)
      BY <2>3, <2>4, <2>5
    <3> QED
      BY <1>1, <3>1, AtomwiseStays DEF Agreed, Known
  <2> QED
    BY <1>1, <2>2, <2>3, <2>6 DEF IInv
<1> QED
  BY <1>3, <1>4 DEF Next

(* Wherever the reads are cut, the request that is accepted, and whether   *)
(* one is, is what the same stream read one atom at a time gives: for any  *)
(* messages, any atom in place of another, and any limits.                 *)
THEOREM CutsAreImmaterial == Spec => []CutIsImmaterial
<1>1. Init => IInv
  BY InitAgrees
<1>2. IInv /\ [Next]_vars => IInv'
  BY NextAgrees
<1>3. IInv => CutIsImmaterial
  BY AgreedMeans
<1> QED
  BY <1>1, <1>2, <1>3, PTL DEF Spec

-----------------------------------------------------------------------------
(* What is sent is read: the stream is followed section by section, and    *)
(* the sections are put together.                                          *)

(* A fold over one sequence and then another.                              *)
LEMMA PrefixGrows ==
    ASSUME NEW A, NEW t \in Seq(A), NEW j \in Nat, j + 1 <= Len(t)
    PROVE  /\ SubSeq(t, 1, j) \in Seq(A) /\ Len(SubSeq(t, 1, j)) = j
           /\ t[j + 1] \in A
           /\ SubSeq(t, 1, j + 1) = Append(SubSeq(t, 1, j), t[j + 1])
<1> DEFINE a == 0
<1>1. a \in Nat /\ a + j + 1 <= Len(t) /\ a + 1 = 1 /\ a + j = j /\ a + j + 1 = j + 1
  OBVIOUS
<1> HIDE DEF a
<1>2. /\ SubSeq(t, a + 1, a + j) \in Seq(A)
      /\ Len(SubSeq(t, a + 1, a + j)) = j
      /\ t[a + j + 1] \in A
      /\ SubSeq(t, a + 1, a + j + 1) = Append(SubSeq(t, a + 1, a + j), t[a + j + 1])
  BY <1>1, SubSeqGrows
<1> QED
  BY <1>1, <1>2

(* The prefixes of a sequence, as a function of their lengths.             *)
Beginnings(A, t, n, pre) ==
    /\ n \in Nat /\ n = Len(t) /\ pre[n] = t
    /\ pre[0] \in Seq(A) /\ Len(pre[0]) = 0 /\ pre[0] = <<>>
    /\ \A j \in Nat : j <= n => pre[j] \in Seq(A) /\ Len(pre[j]) = j
    /\ \A j \in Nat : j + 1 <= n => t[j + 1] \in A /\ pre[j + 1] = Append(pre[j], t[j + 1])

(* Every sequence has its prefixes.                                        *)
LEMMA BeginningsExist ==
    ASSUME NEW A, NEW t \in Seq(A)
    PROVE  \E n, pre : Beginnings(A, t, n, pre)
<1> DEFINE n == Len(t)
           pre == [j \in Nat |-> SubSeq(t, 1, j)]
<1>1. n \in Nat /\ n = Len(t) /\ pre[n] = t
  BY LenProperties, SubSeqFull
<1>2. pre[0] \in Seq(A) /\ Len(pre[0]) = 0 /\ pre[0] = <<>>
  <2>1. SubSeq(t, 1, 0) \in Seq(A) /\ Len(SubSeq(t, 1, 0)) = 0 /\ SubSeq(t, 1, 0) = <<>>
    OBVIOUS
  <2> QED
    BY <2>1
<1>3. ASSUME NEW j \in Nat, j + 1 <= n
      PROVE  /\ pre[j] \in Seq(A) /\ Len(pre[j]) = j
             /\ t[j + 1] \in A /\ pre[j + 1] = Append(pre[j], t[j + 1])
  <2>1. /\ SubSeq(t, 1, j) \in Seq(A) /\ Len(SubSeq(t, 1, j)) = j
        /\ t[j + 1] \in A
        /\ SubSeq(t, 1, j + 1) = Append(SubSeq(t, 1, j), t[j + 1])
    BY <1>3, PrefixGrows
  <2>2. pre[j] = SubSeq(t, 1, j) /\ pre[j + 1] = SubSeq(t, 1, j + 1)
    OBVIOUS
  <2> HIDE DEF pre
  <2> QED
    BY <2>1, <2>2
<1> HIDE DEF n, pre
<1>4. ASSUME NEW j \in Nat, j <= n
      PROVE  pre[j] \in Seq(A) /\ Len(pre[j]) = j
  <2>1. CASE j = n
    BY <1>1, <2>1
  <2>2. CASE j + 1 <= n
    BY <1>3, <2>2
  <2> QED
    BY <1>1, <1>4, <2>1, <2>2
<1>5. Beginnings(A, t, n, pre)
  BY <1>1, <1>2, <1>3, <1>4 DEF Beginnings
<1> QED
  BY <1>5

(* An atom more at the end of the second of two sequences.                 *)
LEMMA ConcatGrows ==
    ASSUME NEW A, NEW s \in Seq(A), NEW u \in Seq(A), NEW ch \in A
    PROVE  /\ s \o Append(u, ch) = Append(s \o u, ch)
           /\ s \o u \in Seq(A)
OBVIOUS

(* A fold over two sequences is one over the first and then the second.    *)
LEMMA RunConcat ==
    ASSUME NEW A, NEW k, NEW base, NEW s \in Seq(A), NEW t \in Seq(A)
    PROVE  Run(k, base, s \o t) = Run(k, Run(k, base, s), t)
<1>0. PICK n, pre : Beginnings(A, t, n, pre)
  BY BeginningsExist
<1> DEFINE b == Run(k, base, s)
           Joined(j) == s \o pre[j]
           T == {j \in Nat : j <= n => Run(k, base, Joined(j)) = Run(k, b, pre[j])}
<1>1. 0 \in T
  <2>1. Joined(0) = s
    BY <1>0 DEF Beginnings
  <2> HIDE DEF Joined, b
  <2>2. Run(k, b, pre[0]) = b
    BY <1>0, RunNothing DEF Beginnings
  <2>3. Run(k, base, Joined(0)) = Run(k, b, pre[0])
    BY <2>1, <2>2 DEF b
  <2> QED
    BY <2>3
<1>2. ASSUME NEW j \in T PROVE j + 1 \in T
  <2> SUFFICES ASSUME j + 1 <= n
               PROVE  Run(k, base, Joined(j + 1)) = Run(k, b, pre[j + 1])
    OBVIOUS
  <2> DEFINE u == pre[j]
             ch == t[j + 1]
             w == s \o u
  <2>1. /\ u \in Seq(A) /\ ch \in A /\ pre[j + 1] = Append(u, ch)
        /\ Run(k, base, w) = Run(k, b, u)
    BY <1>0 DEF Beginnings
  <2>2. Joined(j + 1) = s \o pre[j + 1]
    OBVIOUS
  <2> HIDE DEF u, ch, b, T, Joined
  <2>3. s \o Append(u, ch) = Append(w, ch) /\ w \in Seq(A)
    BY <2>1, ConcatGrows
  <2> HIDE DEF w
  <2>4. Run(k, b, Append(u, ch)) = Turn(k, Run(k, b, u), ch)
    BY <2>1, RunStep
  <2>5. Run(k, base, Append(w, ch)) = Turn(k, Run(k, base, w), ch)
    BY <2>1, <2>3, RunStep
  <2> QED
    BY <2>1, <2>2, <2>3, <2>4, <2>5
<1>3. T = Nat
  <2>1. T \in SUBSET Nat
    OBVIOUS
  <2> HIDE DEF T
  <2> QED
    BY <1>1, <1>2, <2>1, Counting
<1>4. Joined(n) = s \o t /\ pre[n] = t /\ n \in Nat /\ n <= n
  BY <1>0 DEF Beginnings
<1> HIDE DEF Joined
<1>5. n \in T
  BY <1>3, <1>4
<1> QED
  BY <1>4, <1>5

(* What no atom changes, no sequence of them changes.                      *)
LEMMA RunFixed ==
    ASSUME NEW A, NEW k, NEW base, NEW t \in Seq(A), \A ch \in A : Turn(k, base, ch) = base
    PROVE  Run(k, base, t) = base
<1>0. PICK n, pre : Beginnings(A, t, n, pre)
  BY BeginningsExist
<1> DEFINE T == {j \in Nat : j <= n => Run(k, base, pre[j]) = base}
<1>1. 0 \in T
  <2>1. Run(k, base, pre[0]) = base
    BY <1>0, RunNothing DEF Beginnings
  <2> QED
    BY <2>1
<1>2. ASSUME NEW j \in T PROVE j + 1 \in T
  <2> SUFFICES ASSUME j + 1 <= n
               PROVE  Run(k, base, pre[j + 1]) = base
    OBVIOUS
  <2> DEFINE u == pre[j]
             ch == t[j + 1]
  <2>1. /\ u \in Seq(A) /\ ch \in A /\ pre[j + 1] = Append(u, ch)
        /\ Run(k, base, u) = base
    BY <1>0 DEF Beginnings
  <2> HIDE DEF u, ch, T
  <2>2. Run(k, base, Append(u, ch)) = Turn(k, Run(k, base, u), ch)
    BY <2>1, RunStep
  <2> QED
    BY <2>1, <2>2
<1>3. T = Nat
  <2>1. T \in SUBSET Nat
    OBVIOUS
  <2> HIDE DEF T
  <2> QED
    BY <1>1, <1>2, <2>1, Counting
<1>4. pre[n] = t /\ n \in Nat /\ n <= n
  BY <1>0 DEF Beginnings
<1>5. n \in T
  BY <1>3, <1>4
<1> QED
  BY <1>4, <1>5

(* A fold over one atom.                                                   *)
LEMMA RunOne ==
    ASSUME NEW k, NEW base, NEW ch
    PROVE  Run(k, base, <<ch>>) = Turn(k, base, ch)
<1> DEFINE A == {ch}
           z == <<ch>>
<1>1. z \in Seq(A) /\ Len(z) = 1 /\ z[1] = ch
  OBVIOUS
<1> HIDE DEF A, z
<1>2. PICK n, pre : Beginnings(A, z, n, pre)
  BY <1>1, BeginningsExist
<1>3. n = 1 /\ 0 + 1 = 1
  BY <1>1, <1>2 DEF Beginnings
<1> DEFINE e == pre[0]
           x == z[0 + 1]
<1>4. e \in Seq(A) /\ Len(e) = 0 /\ z = Append(e, x) /\ x \in A /\ x = ch
  BY <1>1, <1>2, <1>3 DEF Beginnings
<1> HIDE DEF e, x
<1>5. Run(k, base, e) = base
  BY <1>4, RunNothing
<1>6. Run(k, base, Append(e, x)) = Turn(k, Run(k, base, e), x)
  <2>1. e \in Seq(A) /\ x \in A
    BY <1>4
  <2> QED
    BY <2>1, RunStep
<1>7. Run(k, base, z) = Turn(k, base, ch)
  BY <1>4, <1>5, <1>6
<1> QED
  BY <1>7 DEF z

(* The stream is read on, one atom at a time.                              *)
ReadOn(run, data) == Run("atom", run, data)
Starting(q) == [p |-> q, verdict |-> "indeterminate"]

(* Reading data takes q to r, or is refused where that is not excluded.    *)
Reads(sure, q, data, r) ==
    \/ ReadOn(Starting(q), data) = Starting(r)
    \/ ~sure /\ ReadOn(Starting(q), data).verdict = "false"

(* What is read in two parts; and what has a verdict keeps it.             *)
LEMMA ReadOnIs ==
    ASSUME NEW A, NEW run, NEW a \in Seq(A), NEW b \in Seq(A)
    PROVE  /\ ReadOn(run, a \o b) = ReadOn(ReadOn(run, a), b)
           /\ run.verdict # "indeterminate" => ReadOn(run, b) = run
           /\ b = <<>> => ReadOn(run, b) = run
<1> DEFINE k == "atom"
<1>1. \A r, d : ReadOn(r, d) = Run(k, r, d)
  BY DEF ReadOn
<1>2. \A r, ch : Turn(k, r, ch) = ReadAtom(r, ch)
  BY DEF Turn
<1> HIDE DEF k
<1>3. ReadOn(run, a \o b) = ReadOn(ReadOn(run, a), b)
  BY <1>1, RunConcat
<1>4. ASSUME run.verdict # "indeterminate" PROVE ReadOn(run, b) = run
  <2>1. \A ch \in A : Turn(k, run, ch) = run
    BY <1>2, <1>4, ParseKnown
  <2>2. Run(k, run, b) = run
    BY <2>1, RunFixed
  <2> QED
    BY <1>1, <2>2
<1>5. b = <<>> => ReadOn(run, b) = run
  <2>1. b = <<>> => Len(b) = 0
    OBVIOUS
  <2>2. Len(b) = 0 => Run(k, run, b) = run
    BY RunNothing
  <2> QED
    BY <1>1, <2>1, <2>2
<1> QED
  BY <1>3, <1>4, <1>5

(* One atom read.                                                          *)
LEMMA ReadOnOne ==
    ASSUME NEW run, NEW ch
    PROVE  ReadOn(run, <<ch>>) = ReadAtom(run, ch)
<1> DEFINE k == "atom"
<1>1. ReadOn(run, <<ch>>) = Run(k, run, <<ch>>)
  BY DEF ReadOn
<1>2. Turn(k, run, ch) = ReadAtom(run, ch)
  BY DEF Turn
<1> HIDE DEF k
<1> QED
  BY <1>1, <1>2, RunOne

(* Two sections in a row.                                                  *)
LEMMA ReadsOn ==
    ASSUME NEW A, NEW a \in Seq(A), NEW b \in Seq(A), NEW sure \in BOOLEAN, NEW q, NEW r, NEW s,
           Reads(sure, q, a, r), Reads(sure, r, b, s)
    PROVE  Reads(sure, q, a \o b, s)
<1>1. CASE ReadOn(Starting(q), a) = Starting(r)
  <2>1. ReadOn(Starting(q), a \o b) = ReadOn(Starting(r), b)
    BY <1>1, ReadOnIs
  <2> QED
    BY <2>1 DEF Reads
<1>2. CASE ~sure /\ ReadOn(Starting(q), a).verdict = "false"
  <2> DEFINE run == ReadOn(Starting(q), a)
  <2>1. ReadOn(Starting(q), a \o b) = ReadOn(run, b)
    BY ReadOnIs
  <2>2. run.verdict # "indeterminate"
    BY <1>2
  <2> HIDE DEF run
  <2>3. ReadOn(run, b) = run
    BY <2>2, ReadOnIs
  <2> QED
    BY <1>2, <2>1, <2>3 DEF Reads, run
<1> QED
  BY <1>1, <1>2 DEF Reads

(* A section that is empty.                                                *)
LEMMA ReadsNothing ==
    ASSUME NEW A, NEW a \in Seq(A), a = <<>>, NEW sure \in BOOLEAN, NEW q
    PROVE  Reads(sure, q, a, q)
BY ReadOnIs DEF Reads

(* Sequences of one, two and three atoms, as what they are put together    *)
(* from.                                                                   *)
LEMMA AppendIs ==
    ASSUME NEW A, NEW u \in Seq(A), NEW ch \in A
    PROVE  Append(u, ch) = u \o <<ch>> /\ <<ch>> \in Seq(A)
OBVIOUS

LEMMA PairIs ==
    ASSUME NEW a, NEW b
    PROVE  Append(<<a>>, b) = <<a, b>> /\ <<a>> \o <<b>> = <<a, b>>
<1> DEFINE A == {a, b}
           u == <<a>>
           v == Append(u, b)
           w == <<a, b>>
<1>1. u \in Seq(A) /\ Len(u) = 1 /\ u[1] = a /\ b \in A
  OBVIOUS
<1>2. w \in Seq(A) /\ Len(w) = 2 /\ w[1] = a /\ w[2] = b
  OBVIOUS
<1> HIDE DEF A, u
<1>3. v \in Seq(A) /\ Len(v) = 2 /\ v[1] = a /\ v[2] = b
  <2>1. /\ v \in Seq(A) /\ Len(v) = Len(u) + 1
        /\ \A i \in 1 .. Len(u) : v[i] = u[i]
        /\ v[Len(u) + 1] = b
    <3>1. u \in Seq(A) /\ b \in A
      BY <1>1
    <3> QED
      BY <3>1, AppendProperties
  <2> HIDE DEF v
  <2> QED
    BY <1>1, <2>1
<1>4. v = u \o <<b>>
  BY <1>1, AppendIs
<1> HIDE DEF v, w
<1>5. v = w
  <2>1. \A i \in 1 .. 2 : v[i] = w[i]
    BY <1>2, <1>3
  <2> QED
    BY <1>2, <1>3, <2>1, SeqEqual
<1> QED
  BY <1>4, <1>5 DEF v, u, w

(* A section, and one atom more.                                           *)
LEMMA ReadsAppend ==
    ASSUME NEW A, NEW u \in Seq(A), NEW ch \in A, NEW sure \in BOOLEAN, NEW q, NEW r, NEW s,
           Reads(sure, q, u, r), Reads(sure, r, <<ch>>, s)
    PROVE  Reads(sure, q, Append(u, ch), s)
<1>1. Append(u, ch) = u \o <<ch>> /\ <<ch>> \in Seq(A)
  BY AppendIs
<1>2. Reads(sure, q, u \o <<ch>>, s)
  BY <1>1, ReadsOn
<1> QED
  BY <1>1, <1>2

-----------------------------------------------------------------------------
(* A parser that goes on, and what one atom makes of it.                   *)
Going(q) ==
    DOMAIN q = Fields /\ q.errno = "ok" /\ q.complete = FALSE /\ q.nread \in Nat

(* All fields but those in changed are kept.                               *)
Keeps(q, r, changed) == \A f \in Fields \ changed : r[f] = q[f]

(* The counter of header atoms is all that counting an atom changes.       *)
LEMMA CountedIs ==
    ASSUME NEW q, Going(q)
    PROVE  /\ Going(Counted(q)) /\ Keeps(q, Counted(q), {"nread"})
           /\ Counted(q).nread = IF ParsingHeader(q.state) THEN q.nread + 1 ELSE q.nread
BY DEF Going, Keeps, Counted, Fields

(* An atom that the automaton takes without an end or an error.            *)
LEMMA OneAtom ==
    ASSUME NEW sure \in BOOLEAN, NEW q, NEW ch, NEW s, Going(q),
           sure => Counted(q).nread <= MaxHeader,
           s = Step(Counted(q), ch), DOMAIN s = Fields, s.errno = "ok", s.complete = FALSE,
           s.state # "headers_done"
    PROVE  Reads(sure, q, <<ch>>, s)
<1> DEFINE c == Counted(q)
           run == Starting(q)
<1>0. DOMAIN c = Fields
  BY CountedIs DEF Going
<1>1. ReadOn(run, <<ch>>) = ReadAtom([p |-> q, verdict |-> "indeterminate"], ch)
  BY ReadOnOne DEF Starting
<1>2. q.errno = "ok"
  BY DEF Going
<1>3. CASE c.nread > MaxHeader
  <2>1. After(q, ch) = Fail(c)
    BY <1>3 DEF After
  <2>2. DOMAIN Fail(c) = Fields /\ Fail(c).errno = "bad"
    BY <1>0 DEF Fail, Fields
  <2>3. ReadAtom([p |-> q, verdict |-> "indeterminate"], ch) = [p |-> Fail(c), verdict |-> "false"]
    BY <1>2, <2>1, <2>2, ParseAtom
  <2>4. ~sure
    <3>1. PICK n \in Nat : n = c.nread
      BY CountedIs DEF Going
    <3>2. PICK m \in Nat : m = MaxHeader
      BY LimitsAssumption
    <3>3. n > m /\ (sure => n <= m)
      BY <1>3, <3>1, <3>2
    <3>4. n > m => ~(n <= m)
      OBVIOUS
    <3> QED
      BY <3>3, <3>4
  <2> QED
    BY <1>1, <2>3, <2>4 DEF Reads
<1>4. CASE ~(c.nread > MaxHeader)
  <2>1. After(q, ch) = s
    BY <1>4 DEF After
  <2>2. ReadAtom([p |-> q, verdict |-> "indeterminate"], ch) = Told(s)
    BY <1>2, <2>1, ParseAtom
  <2>3. Told(s) = Starting(s)
    BY DEF Told, Starting
  <2> QED
    BY <1>1, <2>2, <2>3 DEF Reads
<1> QED
  BY <1>3, <1>4

(* The limit leaves room for n more atoms of a header.                     *)
Room(sure, q, n) == sure => q.nread + n <= MaxHeader

(* An atom of a header that only moves the automaton on.                   *)
LEMMA GoAtom ==
    ASSUME NEW sure \in BOOLEAN, NEW q, NEW ch, NEW to, Going(q), ParsingHeader(q.state), Room(sure, q, 1),
           Step(Counted(q), ch) = Go(Counted(q), to), to # "headers_done"
    PROVE  \E r : /\ Reads(sure, q, <<ch>>, r) /\ Going(r) /\ r.state = to /\ r.nread = q.nread + 1
                  /\ Keeps(q, r, {"state", "nread"})
<1> DEFINE c == Counted(q)
           s == Go(c, to)
<1>1. Going(c) /\ Keeps(q, c, {"nread"}) /\ c.nread = q.nread + 1
  BY CountedIs
<1> HIDE DEF c
<1>2. Going(s) /\ s.state = to /\ s.nread = c.nread /\ Keeps(c, s, {"state"})
  BY <1>1 DEF Going, Go, Keeps, Fields
<1>3. s.errno = "ok" /\ s.complete = FALSE /\ DOMAIN s = Fields
  BY <1>2 DEF Going
<1> HIDE DEF s
<1>4. Reads(sure, q, <<ch>>, s)
  BY <1>1, <1>2, <1>3, OneAtom DEF Room, c, s
<1>5. Keeps(q, s, {"state", "nread"})
  BY <1>1, <1>2 DEF Keeps
<1> QED
  BY <1>1, <1>2, <1>4, <1>5

-----------------------------------------------------------------------------
(* The empty lines before the request, and the method.                     *)
Blank(q) ==
    /\ q.flags = {} /\ q.len = MaxLength /\ q.body = <<>>
    /\ q.headers = {} /\ q.field = <<>> /\ q.value = <<>>

(* The parser among the empty lines before the request.                    *)
LEMMA LeadIs ==
    ASSUME NEW c \in BOOLEAN, c = FALSE, NEW n \in Nat, NEW ch
    PROVE  /\ Going(Lead(c, n)) /\ Lead(c, n).nread = n /\ Lead(c, n).state = "start_req"
           /\ Lead(c, n).url = <<>> /\ Lead(c, n).version = <<0, 0>> /\ Blank(Lead(c, n))
           /\ Counted(Lead(c, n)) = Lead(c, n + 1)
           /\ Step(Lead(c, n), ch) = StartReq(Lead(c, n), ch)
<1> DEFINE l == Lead(c, n)
           r == Lead(c, n + 1)
<1>1. l.state = "start_req" /\ l.nread = n
  BY DEF Lead, Fresh
<1>2. l.errno = "ok" /\ l.complete = FALSE /\ DOMAIN l = Fields
  BY DEF Lead, Fresh, Fields
<1>3. l.url = <<>> /\ l.version = <<0, 0>> /\ Blank(l)
  BY DEF Lead, Fresh, Blank
<1>4. Counted(l) = r
  <2>1. Counted(l) = [l EXCEPT !.nread = n + 1]
    BY <1>1 DEF Counted, ParsingHeader
  <2> QED
    BY <2>1 DEF Lead, Fresh
<1> HIDE DEF l, r
<1>5. Step(l, ch) = StartReq(l, ch)
  BY <1>1 DEF Step, UrlUnfinished, UrlFinished
<1>6. Going(l)
  BY <1>1, <1>2 DEF Going
<1> QED
  BY <1>1, <1>3, <1>4, <1>5, <1>6 DEF l, r

(* The empty lines are passed over; all they leave is the counter.         *)
LEMMA LeadRead ==
    ASSUME NEW sure \in BOOLEAN, NEW c \in BOOLEAN, c = FALSE, NEW lead \in Seq({"CR", "LF"}),
           sure => Len(lead) <= MaxHeader
    PROVE  Reads(sure, Lead(c, 0), lead, Lead(c, Len(lead)))
<1> DEFINE A == {"CR", "LF"}
<1>1. lead \in Seq(A) /\ \A ch \in A : ch \in {"CR", "LF"}
  OBVIOUS
<1> HIDE DEF A
<1>2. PICK n, pre : Beginnings(A, lead, n, pre)
  BY <1>1, BeginningsExist
<1>3. n \in Nat /\ n = Len(lead) /\ pre[n] = lead
  BY <1>2 DEF Beginnings
<1> DEFINE T == {j \in Nat : j <= n => Reads(sure, Lead(c, 0), pre[j], Lead(c, j))}
<1>4. 0 \in T
  <2>1. Reads(sure, Lead(c, 0), pre[0], Lead(c, 0))
    BY <1>2, ReadsNothing DEF Beginnings
  <2> QED
    BY <2>1
<1>5. ASSUME NEW j \in T PROVE j + 1 \in T
  <2> SUFFICES ASSUME j + 1 <= n
               PROVE  Reads(sure, Lead(c, 0), pre[j + 1], Lead(c, j + 1))
    OBVIOUS
  <2> DEFINE u == pre[j]
             ch == lead[j + 1]
  <2>1. /\ u \in Seq(A) /\ ch \in A /\ pre[j + 1] = Append(u, ch)
        /\ Reads(sure, Lead(c, 0), u, Lead(c, j)) /\ j \in Nat
    BY <1>2 DEF Beginnings
  <2> HIDE DEF u, ch, T
  <2>3. Going(Lead(c, j)) /\ Counted(Lead(c, j)) = Lead(c, j + 1)
    BY <2>1, LeadIs
  <2> DEFINE i == j + 1
             s == Lead(c, i)
  <2>4. i \in Nat /\ (sure => i <= MaxHeader)
    BY <1>3, <2>1, LimitsAssumption
  <2> HIDE DEF i
  <2>5. Going(s) /\ s.nread = i /\ s.state = "start_req" /\ Step(s, ch) = StartReq(s, ch)
    BY <2>4, LeadIs
  <2>6. Counted(Lead(c, j)) = s
    BY <2>3 DEF i
  <2> HIDE DEF s
  <2>7. StartReq(s, ch) = s
    BY <1>1, <2>1 DEF StartReq, Methods
  <2>8. s.errno = "ok" /\ s.complete = FALSE /\ DOMAIN s = Fields
    BY <2>5 DEF Going
  <2>9. Reads(sure, Lead(c, j), <<ch>>, s)
    BY <2>3, <2>4, <2>5, <2>6, <2>7, <2>8, OneAtom
  <2>10. Reads(sure, Lead(c, 0), Append(u, ch), s)
    BY <2>1, <2>9, ReadsAppend
  <2> QED
    BY <2>1, <2>10 DEF s, i
<1>6. T = Nat
  <2>1. T \in SUBSET Nat
    OBVIOUS
  <2> HIDE DEF T
  <2> QED
    BY <1>4, <1>5, <2>1, Counting
<1>7. n \in T /\ n <= n
  BY <1>3, <1>6
<1> QED
  BY <1>3, <1>7

(* What r holds behind the method m and n atoms before it.                 *)
MethodDone(m, r, n) ==
    /\ Going(r) /\ r.state = "spaces_before_url" /\ r.nread = n + 3
    /\ r.method = m /\ r.url = <<>> /\ r.version = <<0, 0>> /\ Blank(r)

(* The method is read.                                                     *)
LEMMA MethodRead ==
    ASSUME NEW sure \in BOOLEAN, NEW c \in BOOLEAN, c = FALSE, NEW n \in Nat, NEW m \in Methods,
           sure => n + 3 <= MaxHeader
    PROVE  \E r : Reads(sure, Lead(c, n), m \o <<"SP">>, r) /\ MethodDone(m, r, n)
<1> USE DEF MethodDone
<1> DEFINE sp == "SP"
<1>1. PICK a, b : m = <<a, b>> /\ a \notin {"SP", "CR", "LF"} /\ b \notin {"SP", "CR", "LF"}
  BY DEF Methods
<1>2. PICK room \in Nat : room = MaxHeader
  BY LimitsAssumption
<1>3. n + 1 \in Nat /\ n + 2 \in Nat /\ (sure => n + 1 <= MaxHeader) /\ (sure => n + 2 <= MaxHeader)
  BY <1>2
<1>4. \E r : /\ Reads(sure, Lead(c, n), <<a>>, r)
             /\ Going(r) /\ r.state = "method" /\ r.nread = n + 1 /\ r.word = <<a>>
             /\ r.url = <<>> /\ r.version = <<0, 0>> /\ Blank(r)
  <2> DEFINE i == n + 1
             q == Lead(c, n)
             l == Lead(c, i)
             s == [l EXCEPT !.complete = FALSE, !.flags = {}, !.len = MaxLength, !.word = <<a>>,
                            !.state = "method"]
  <2>1. Going(q) /\ Counted(q) = l
    BY LeadIs
  <2> HIDE DEF i, q
  <2>2. /\ Going(l) /\ l.nread = i /\ l.url = <<>> /\ l.version = <<0, 0>> /\ Blank(l)
        /\ Step(l, a) = StartReq(l, a)
    BY <1>3, LeadIs DEF i
  <2> HIDE DEF l
  <2>3. \E x \in Methods : x[1] = a
    BY <1>1
  <2>4. StartReq(l, a) = s
    BY <1>1, <2>3 DEF StartReq
  <2>5. /\ Going(s) /\ s.state = "method" /\ s.nread = i /\ s.word = <<a>>
        /\ s.url = <<>> /\ s.version = <<0, 0>> /\ Blank(s)
    BY <2>2 DEF Going, Blank, Fields
  <2> HIDE DEF s
  <2>6. s.errno = "ok" /\ s.complete = FALSE /\ DOMAIN s = Fields /\ s.state # "headers_done"
    BY <2>5 DEF Going
  <2>7. Reads(sure, q, <<a>>, s)
    BY <1>3, <2>1, <2>2, <2>4, <2>6, OneAtom DEF i
  <2> QED
    BY <2>5, <2>7 DEF i, q
<1>5. PICK q : /\ Reads(sure, Lead(c, n), <<a>>, q)
               /\ Going(q) /\ q.state = "method" /\ q.nread = n + 1 /\ q.word = <<a>>
               /\ q.url = <<>> /\ q.version = <<0, 0>> /\ Blank(q)
  BY <1>4
<1>6. \E r : /\ Reads(sure, q, <<b>>, r)
             /\ Going(r) /\ r.state = "method" /\ r.nread = n + 2 /\ r.word = m
             /\ r.url = <<>> /\ r.version = <<0, 0>> /\ Blank(r)
  <2> DEFINE d == Counted(q)
             s == [d EXCEPT !.word = Append(@, b)]
  <2>1. Going(d) /\ Keeps(q, d, {"nread"}) /\ d.nread = n + 1 + 1
    BY <1>5, CountedIs DEF ParsingHeader
  <2> HIDE DEF d
  <2>2. d.state = "method" /\ d.word = <<a>> /\ d.url = <<>> /\ d.version = <<0, 0>> /\ Blank(d)
    BY <1>5, <2>1 DEF Keeps, Fields, Blank
  <2>3. Append(d.word, b) = m
    BY <1>1, <2>2, PairIs
  <2>4. IsPrefix(m, m)
    BY <1>1 DEF IsPrefix
  <2>5. Step(d, b) = s
    <3>1. Step(d, b) = Method(d, b)
      BY <2>2 DEF Step, UrlUnfinished, UrlFinished
    <3>2. \E x \in Methods : IsPrefix(Append(d.word, b), x)
      BY <2>3, <2>4
    <3> QED
      BY <1>1, <3>1, <3>2 DEF Method
  <2>6. /\ Going(s) /\ s.state = "method" /\ s.nread = n + 2 /\ s.word = m
        /\ s.url = <<>> /\ s.version = <<0, 0>> /\ Blank(s)
    BY <2>1, <2>2, <2>3 DEF Going, Blank, Fields
  <2> HIDE DEF s
  <2>7. s.errno = "ok" /\ s.complete = FALSE /\ DOMAIN s = Fields /\ s.state # "headers_done"
    BY <2>6 DEF Going
  <2>8. sure => d.nread <= MaxHeader
    BY <1>2, <2>1
  <2>9. Reads(sure, q, <<b>>, s)
    BY <1>5, <2>5, <2>7, <2>8, OneAtom DEF d
  <2> QED
    BY <2>6, <2>9
<1>7. PICK t : /\ Reads(sure, q, <<b>>, t)
               /\ Going(t) /\ t.state = "method" /\ t.nread = n + 2 /\ t.word = m
               /\ t.url = <<>> /\ t.version = <<0, 0>> /\ Blank(t)
  BY <1>6
<1>8. \E r : /\ Reads(sure, t, <<sp>>, r)
             /\ Going(r) /\ r.state = "spaces_before_url" /\ r.nread = n + 3
             /\ r.method = m /\ r.url = <<>> /\ r.version = <<0, 0>> /\ Blank(r)
  <2> DEFINE d == Counted(t)
             s == [d EXCEPT !.method = d.word, !.state = "spaces_before_url"]
  <2>1. Going(d) /\ Keeps(t, d, {"nread"}) /\ d.nread = n + 2 + 1
    BY <1>7, CountedIs DEF ParsingHeader
  <2> HIDE DEF d
  <2>2. d.state = "method" /\ d.word = m /\ d.url = <<>> /\ d.version = <<0, 0>> /\ Blank(d)
    BY <1>7, <2>1 DEF Keeps, Fields, Blank
  <2>3. \A x \in Methods : ~IsPrefix(Append(m, sp), x)
    <3>1. Len(Append(m, sp)) = 3 /\ \A x \in Methods : Len(x) = 2
      BY <1>1 DEF Methods
    <3> QED
      BY <3>1 DEF IsPrefix
  <2>5. Step(d, sp) = s
    <3>1. Step(d, sp) = Method(d, sp)
      BY <2>2 DEF Step, UrlUnfinished, UrlFinished
    <3> QED
      BY <2>2, <2>3, <3>1 DEF Method
  <2>6. /\ Going(s) /\ s.state = "spaces_before_url" /\ s.nread = n + 3 /\ s.method = m
        /\ s.url = <<>> /\ s.version = <<0, 0>> /\ Blank(s)
    BY <2>1, <2>2, <2>3 DEF Going, Blank, Fields
  <2> HIDE DEF s
  <2>7. s.errno = "ok" /\ s.complete = FALSE /\ DOMAIN s = Fields /\ s.state # "headers_done"
    BY <2>6 DEF Going
  <2>8. sure => d.nread <= MaxHeader
    BY <1>2, <2>1
  <2>9. Reads(sure, t, <<sp>>, s)
    BY <1>7, <2>5, <2>7, <2>8, OneAtom DEF d
  <2> QED
    BY <2>6, <2>9
<1>9. PICK r : /\ Reads(sure, t, <<sp>>, r)
               /\ Going(r) /\ r.state = "spaces_before_url" /\ r.nread = n + 3
               /\ r.method = m /\ r.url = <<>> /\ r.version = <<0, 0>> /\ Blank(r)
  BY <1>8
<1>10. Reads(sure, Lead(c, n), m \o <<sp>>, r)
  <2> DEFINE A == {a, b, sp}
  <2>1. <<a>> \in Seq(A) /\ <<b>> \in Seq(A) /\ <<sp>> \in Seq(A) /\ m \in Seq(A)
    BY <1>1
  <2>2. <<a>> \o <<b>> = m
    BY <1>1, PairIs
  <2> HIDE DEF A, sp
  <2>3. Reads(sure, Lead(c, n), <<a>> \o <<b>>, t)
    BY <1>5, <1>7, <2>1, ReadsOn
  <2>4. Reads(sure, Lead(c, n), m, t)
    BY <2>2, <2>3
  <2> QED
    BY <1>9, <2>1, <2>4, ReadsOn
<1> QED
  BY <1>9, <1>10

-----------------------------------------------------------------------------
(* The url: the automaton is in the state that parse_url_char() gives.     *)
UrlStates == UrlUnfinished \cup UrlFinished
(* The state parse_url_char() is in behind u, from the one it starts in.   *)
UrlFrom(method) == IF method = <<"C", "ONNECT">> THEN "server_start" ELSE "spaces_before_url"
UrlState(method, u) == Run("url", UrlFrom(method), u)

(* What a url is, in these terms.                                          *)
LEMMA UrlStateIs ==
    ASSUME NEW method, NEW u
    PROVE  IsUrl(method, u) => UrlState(method, u) \in UrlFinished
BY DEF IsUrl, UrlState, UrlFrom, Run, Turn, FoldLeft, MapThenFoldSet

(* An atom more of the url.                                                *)
LEMMA UrlStateStep ==
    ASSUME NEW A, NEW method, NEW u \in Seq(A), NEW ch \in A
    PROVE  UrlState(method, Append(u, ch)) = ParseUrlChar(UrlState(method, u), ch)
<1> DEFINE k == "url"
           from == UrlFrom(method)
<1>1. \A r : Turn(k, r, ch) = ParseUrlChar(r, ch)
  BY DEF Turn
<1>2. \A v : UrlState(method, v) = Run(k, from, v)
  BY DEF UrlState
<1> HIDE DEF k, from
<1>3. Run(k, from, Append(u, ch)) = Turn(k, Run(k, from, u), ch)
  BY RunStep
<1> QED
  BY <1>1, <1>2, <1>3

(* The state it starts in.                                                 *)
LEMMA UrlStateOfNothing ==
    ASSUME NEW A, NEW method, NEW u \in Seq(A)
    PROVE  Len(u) = 0 => UrlState(method, u) = UrlFrom(method)
<1> DEFINE k == "url"
           from == UrlFrom(method)
<1>1. UrlState(method, u) = Run(k, from, u)
  BY DEF UrlState
<1> HIDE DEF k, from
<1> QED
  BY <1>1, RunNothing DEF from

(* What parse_url_char() returns; and what no url holds.                   *)
LEMMA ParseUrlCharIs ==
    ASSUME NEW s, NEW ch
    PROVE  /\ ParseUrlChar("dead", ch) = "dead"
           /\ s \in UrlStates \cup {"spaces_before_url"} =>
                ParseUrlChar(s, ch) \in UrlStates \cup {"dead"}
           /\ ParseUrlChar(s, ch) # "dead" => ch \notin {"SP", "TAB", "CR", "LF"}
<1>1. ParseUrlChar("dead", ch) = "dead"
  BY DEF ParseUrlChar
<1>2. ParseUrlChar(s, ch) # "dead" => ch \notin {"SP", "TAB", "CR", "LF"}
  BY DEF ParseUrlChar
<1>3. ASSUME s \in UrlStates \cup {"spaces_before_url"}
      PROVE  ParseUrlChar(s, ch) \in UrlStates \cup {"dead"}
  BY <1>3 DEF ParseUrlChar, UrlStates, UrlUnfinished, UrlFinished, IsUrlChar, IsAlpha, Delimiters
<1> QED
  BY <1>1, <1>2, <1>3

(* An atom of a url is read as parse_url_char() says.                      *)
LEMMA UrlAtom ==
    ASSUME NEW sure \in BOOLEAN, NEW q, NEW ch, NEW from, NEW to, Going(q), Room(sure, q, 1),
           \/ q.state = "spaces_before_url" /\ from = UrlFrom(q.method)
           \/ q.state \in UrlStates /\ from = q.state,
           to = ParseUrlChar(from, ch), to # "dead"
    PROVE  \E r : /\ Reads(sure, q, <<ch>>, r) /\ Going(r) /\ r.state = to /\ to \in UrlStates
                  /\ r.nread = q.nread + 1 /\ r.url = Append(q.url, ch)
                  /\ Keeps(q, r, {"state", "nread", "url"})
<1> DEFINE d == Counted(q)
           s == [d EXCEPT !.state = to, !.url = Append(@, ch)]
<1>1. ch \notin {"SP", "TAB", "CR", "LF"}
  BY ParseUrlCharIs
<1>2. from \in UrlStates \cup {"spaces_before_url"}
  BY DEF UrlFrom, UrlStates, UrlUnfinished
<1>3. to \in UrlStates
  BY <1>2, ParseUrlCharIs
<1>4. Going(d) /\ Keeps(q, d, {"nread"}) /\ d.nread = q.nread + 1
  BY CountedIs DEF ParsingHeader, UrlStates, UrlUnfinished, UrlFinished
<1> HIDE DEF d
<1>5. d.state = q.state /\ d.method = q.method /\ d.url = q.url
  BY <1>4 DEF Keeps, Fields
<1>6. Step(d, ch) = Url(d, ch)
  BY <1>5 DEF Step, UrlStates, UrlUnfinished, UrlFinished
<1>7. UrlChar(d, from, ch) = s
  BY DEF UrlChar
<1>8. Url(d, ch) = UrlChar(d, from, ch)
  <2>1. CASE q.state = "spaces_before_url" /\ from = UrlFrom(q.method)
    BY <1>1, <1>5, <2>1 DEF Url, UrlFrom, UrlFinished
  <2>2. CASE q.state \in UrlStates /\ from = q.state
    BY <1>1, <1>5, <2>2 DEF Url, UrlFinished, UrlStates, UrlUnfinished
  <2> QED
    BY <2>1, <2>2
<1>9. Going(s) /\ s.state = to /\ s.nread = q.nread + 1 /\ s.url = Append(q.url, ch)
      /\ Keeps(d, s, {"state", "url"})
  BY <1>4, <1>5 DEF Going, Keeps, Fields
<1> HIDE DEF s
<1>10. s.errno = "ok" /\ s.complete = FALSE /\ DOMAIN s = Fields /\ s.state # "headers_done"
  BY <1>3, <1>9 DEF Going, UrlStates, UrlUnfinished, UrlFinished
<1>11. sure => d.nread <= MaxHeader
  BY <1>4 DEF Room
<1>12. Reads(sure, q, <<ch>>, s)
  BY <1>6, <1>7, <1>8, <1>10, <1>11, OneAtom DEF d
<1>13. Keeps(q, s, {"state", "nread", "url"})
  BY <1>4, <1>9 DEF Keeps
<1> QED
  BY <1>3, <1>9, <1>12, <1>13

(* No prefix of a url is refused.                                          *)
LEMMA UrlAlive ==
    ASSUME NEW A, NEW method, NEW u \in Seq(A), IsUrl(method, u), NEW n, NEW pre,
           Beginnings(A, u, n, pre), NEW j \in Nat, j <= n
    PROVE  UrlState(method, pre[j]) # "dead"
<1> SUFFICES ASSUME UrlState(method, pre[j]) = "dead" PROVE FALSE
  OBVIOUS
<1> DEFINE T == {i \in Nat : j + i <= n => UrlState(method, pre[j + i]) = "dead"}
<1>0. n \in Nat
  BY DEF Beginnings
<1>1. 0 \in T
  BY <1>0
<1>2. ASSUME NEW i \in T PROVE i + 1 \in T
  <2> SUFFICES ASSUME j + (i + 1) <= n PROVE UrlState(method, pre[j + (i + 1)]) = "dead"
    OBVIOUS
  <2> DEFINE k == j + i
  <2>1. k \in Nat /\ k + 1 <= n /\ UrlState(method, pre[k]) = "dead" /\ j + (i + 1) = k + 1
    BY <1>0
  <2> HIDE DEF k, T
  <2>2. pre[k] \in Seq(A) /\ u[k + 1] \in A /\ pre[k + 1] = Append(pre[k], u[k + 1])
    BY <1>0, <2>1 DEF Beginnings
  <2>3. UrlState(method, pre[k + 1]) = ParseUrlChar(UrlState(method, pre[k]), u[k + 1])
    <3> DEFINE v == pre[k]
               ch == u[k + 1]
    <3>1. v \in Seq(A) /\ ch \in A
      BY <2>2
    <3> HIDE DEF v, ch
    <3>2. UrlState(method, Append(v, ch)) = ParseUrlChar(UrlState(method, v), ch)
      BY <3>1, UrlStateStep
    <3> QED
      BY <2>2, <3>2 DEF v, ch
  <2> QED
    BY <2>1, <2>3, ParseUrlCharIs
<1>3. T = Nat
  <2>1. T \in SUBSET Nat
    OBVIOUS
  <2> HIDE DEF T
  <2> QED
    BY <1>1, <1>2, <2>1, Counting
<1>4. n - j \in Nat /\ j + (n - j) = n /\ n <= n
  BY <1>0
<1>5. n - j \in T
  BY <1>3, <1>4
<1>6. UrlState(method, pre[n]) = "dead"
  BY <1>4, <1>5
<1>7. UrlState(method, u) \in UrlFinished
  BY UrlStateIs
<1> QED
  BY <1>6, <1>7 DEF Beginnings, UrlFinished

(* A url that parse_url_char() takes is read.                              *)
LEMMA UrlRead ==
    ASSUME NEW sure \in BOOLEAN, NEW A, NEW q, NEW u \in Seq(A), Going(q),
           q.state = "spaces_before_url", q.url = <<>>, IsUrl(q.method, u), Room(sure, q, Len(u))
    PROVE  \E r : /\ Reads(sure, q, u, r) /\ Going(r) /\ r.state \in UrlFinished
                  /\ r.nread = q.nread + Len(u) /\ r.url = u
                  /\ Keeps(q, r, {"state", "nread", "url"})
<1>1. PICK n, pre : Beginnings(A, u, n, pre)
  BY BeginningsExist
<1>2. n \in Nat /\ n = Len(u) /\ pre[n] = u
  BY <1>1 DEF Beginnings
<1> DEFINE U(j) == UrlState(q.method, pre[j])
           P(j, r) == /\ Going(r) /\ r.nread = q.nread + j /\ r.url = pre[j]
                      /\ Keeps(q, r, {"state", "nread", "url"})
                      /\ IF j = 0 THEN r.state = "spaces_before_url"
                         ELSE r.state = U(j) /\ r.state \in UrlStates
           T == {j \in Nat : j <= n => \E r : Reads(sure, q, pre[j], r) /\ P(j, r)}
<1>3. ASSUME NEW j \in Nat, j <= n PROVE U(j) # "dead"
  BY <1>1, <1>3, UrlAlive
<1>4. U(n) \in UrlFinished
  BY <1>2, UrlStateIs
<1>5. U(0) = UrlFrom(q.method)
  BY <1>1, UrlStateOfNothing DEF Beginnings
<1>6. ASSUME NEW j \in Nat, j + 1 <= n PROVE U(j + 1) = ParseUrlChar(U(j), u[j + 1])
  <2>1. pre[j] \in Seq(A) /\ u[j + 1] \in A /\ pre[j + 1] = Append(pre[j], u[j + 1])
    BY <1>1, <1>2, <1>6 DEF Beginnings
  <2> DEFINE v == pre[j]
             ch == u[j + 1]
             method == q.method
  <2>2. v \in Seq(A) /\ ch \in A
    BY <2>1
  <2> HIDE DEF v, ch, method
  <2>3. UrlState(method, Append(v, ch)) = ParseUrlChar(UrlState(method, v), ch)
    BY <2>2, UrlStateStep
  <2> QED
    BY <2>1, <2>3 DEF v, ch, method
<1> HIDE DEF U
<1>7. 0 \in T
  <2>1. Reads(sure, q, pre[0], q)
    BY <1>1, ReadsNothing DEF Beginnings
  <2>2. P(0, q)
    BY <1>1 DEF Beginnings, Keeps, Going
  <2> HIDE DEF P
  <2> QED
    BY <2>1, <2>2
<1>8. ASSUME NEW j \in T PROVE j + 1 \in T
  <2> SUFFICES ASSUME j + 1 <= n
               PROVE  \E r : Reads(sure, q, pre[j + 1], r) /\ P(j + 1, r)
    OBVIOUS
  <2>0. j \in Nat /\ j <= n /\ j + 1 \in Nat
    BY <1>2
  <2>1. PICK r : Reads(sure, q, pre[j], r) /\ P(j, r)
    BY <2>0
  <2> DEFINE ch == u[j + 1]
             to == U(j + 1)
  <2>2. ch \in A /\ pre[j] \in Seq(A) /\ pre[j + 1] = Append(pre[j], ch)
    BY <1>1, <2>0 DEF Beginnings
  <2>3. to = ParseUrlChar(U(j), ch) /\ to # "dead"
    BY <1>3, <1>6, <2>0
  <2> HIDE DEF T, ch, to
  <2>4. Going(r) /\ r.nread = q.nread + j /\ r.url = pre[j] /\ Keeps(q, r, {"state", "nread", "url"})
    BY <2>1
  <2>5. \/ r.state = "spaces_before_url" /\ U(j) = UrlFrom(r.method)
        \/ r.state \in UrlStates /\ U(j) = r.state
    <3>1. r.method = q.method
      BY <2>4 DEF Keeps, Fields
    <3> QED
      BY <1>5, <2>1, <3>1
  <2>6. Room(sure, r, 1)
    <3>1. PICK a \in Nat : a = q.nread
      BY DEF Going
    <3>2. PICK room \in Nat : room = MaxHeader
      BY LimitsAssumption
    <3>3. sure => a + n <= room
      BY <1>2, <3>1, <3>2 DEF Room
    <3>4. a + n <= room => a + j + 1 <= room
      BY <1>2, <2>0
    <3> QED
      BY <2>4, <3>1, <3>2, <3>3, <3>4 DEF Room
  <2>7. PICK s : /\ Reads(sure, r, <<ch>>, s) /\ Going(s) /\ s.state = to /\ to \in UrlStates
                 /\ s.nread = r.nread + 1 /\ s.url = Append(r.url, ch)
                 /\ Keeps(r, s, {"state", "nread", "url"})
    <3> DEFINE from == U(j)
    <3>1. /\ \/ r.state = "spaces_before_url" /\ from = UrlFrom(r.method)
             \/ r.state \in UrlStates /\ from = r.state
          /\ to = ParseUrlChar(from, ch)
      BY <2>3, <2>5
    <3> HIDE DEF from
    <3> QED
      BY <2>3, <2>4, <2>6, <3>1, UrlAtom
  <2>8. Reads(sure, q, pre[j + 1], s)
    BY <2>1, <2>2, <2>7, ReadsAppend
  <2>9. s.nread = q.nread + (j + 1)
    BY <2>0, <2>4, <2>7 DEF Going
  <2>10. Keeps(q, s, {"state", "nread", "url"})
    BY <2>4, <2>7 DEF Keeps
  <2>11. P(j + 1, s)
    BY <2>0, <2>2, <2>4, <2>7, <2>9, <2>10 DEF to
  <2> HIDE DEF P
  <2> QED
    BY <2>8, <2>11
<1>9. T = Nat
  <2>1. T \in SUBSET Nat
    OBVIOUS
  <2> HIDE DEF T
  <2> QED
    BY <1>7, <1>8, <2>1, Counting
<1>10. n \in T /\ n <= n
  BY <1>2, <1>9
<1>11. PICK r : Reads(sure, q, pre[n], r) /\ P(n, r)
  BY <1>10
<1>12. n # 0
  BY <1>4, <1>5 DEF UrlFrom, UrlFinished
<1> QED
  BY <1>2, <1>4, <1>11, <1>12

-----------------------------------------------------------------------------
(* The rest of the request line: the version, if there is one, and the end *)
(* of the line.                                                            *)
Wire == Atoms \cup Delimiters \cup
          {"HT", "TP/", ".", "0", "1", "2", "9", "chun", "ked"} \cup
          {"G", "ET", "P", "OST", "UT", "C", "ONNECT"}

(* What a digit is, and what it is not.                                    *)
LEMMA DigitsAre ==
    ASSUME NEW ch \in DOMAIN Digits
    PROVE  Digits[ch] \in 0 .. 9 /\ ch \notin {"SP", "TAB", "CR", "LF", ".", ";"}
<1>1. DOMAIN Digits = {"0", "1", "2", "9"}
  BY DEF Digits
<1>2. ch \notin {"SP", "TAB", "CR", "LF", ".", ";"}
  BY <1>1
<1>3. CASE ch = "0"
  BY <1>3 DEF Digits
<1>4. CASE ch = "1"
  BY <1>4 DEF Digits
<1>5. CASE ch = "2"
  BY <1>5 DEF Digits
<1>6. CASE ch = "9"
  BY <1>6 DEF Digits
<1> QED
  BY <1>1, <1>2, <1>3, <1>4, <1>5, <1>6

(* Room for n atoms is room for less.                                      *)
LEMMA RoomLess ==
    ASSUME NEW sure \in BOOLEAN, NEW q, NEW n \in Nat, NEW i \in Nat, i <= n, Going(q), Room(sure, q, n)
    PROVE  Room(sure, q, i)
<1>1. PICK a \in Nat : a = q.nread
  BY DEF Going
<1>2. PICK room \in Nat : room = MaxHeader
  BY LimitsAssumption
<1>3. a + n <= room => a + i <= room
  OBVIOUS
<1>4. sure => a + n <= room
  BY <1>1, <1>2 DEF Room
<1> QED
  BY <1>1, <1>2, <1>3, <1>4 DEF Room

(* The room that is left behind a atoms.                                   *)
LEMMA RoomLeft ==
    ASSUME NEW sure \in BOOLEAN, NEW q, NEW r, NEW n \in Nat, NEW i \in Nat, i <= n,
           Going(q), Going(r), r.nread = q.nread + i, Room(sure, q, n)
    PROVE  Room(sure, r, n - i)
<1>1. PICK a \in Nat : a = q.nread
  BY DEF Going
<1>2. PICK room \in Nat : room = MaxHeader
  BY LimitsAssumption
<1>3. a + n <= room => (a + i) + (n - i) <= room
  OBVIOUS
<1>4. sure => a + n <= room
  BY <1>1, <1>2 DEF Room
<1>5. r.nread = a + i
  BY <1>1
<1> QED
  BY <1>2, <1>3, <1>4, <1>5 DEF Room

(* A digit of the i-th number, which is v so far, is due; and is read.     *)
DigitDue(q, ch, i, v) ==
    /\ DOMAIN q.version = {1, 2} /\ q.version[i] = v
    /\ \/ i = 1 /\ q.state = "first_major" /\ ch # "0"
       \/ i = 1 /\ q.state = "major" /\ v <= 99
       \/ i = 2 /\ q.state = "first_minor"
       \/ i = 2 /\ q.state = "minor" /\ v <= 99
(* The digit is in the number.                                             *)
DigitRead(q, r, i, v) ==
    /\ r.state = IF i = 1 THEN "major" ELSE "minor"
    /\ DOMAIN r.version = {1, 2} /\ r.version[3 - i] = q.version[3 - i]
    /\ r.version[i] \in Nat
    /\ r.version[i] <= IF q.state \in {"first_major", "first_minor"} THEN 9 ELSE 10 * v + 9

(* No number of a version passes the limit: there are at most three        *)
(* digits.                                                                 *)
LEMMA DigitAtom ==
    ASSUME NEW sure \in BOOLEAN, NEW q, NEW ch \in DOMAIN Digits, NEW i \in {1, 2}, NEW v \in Nat,
           Going(q), Room(sure, q, 1), DigitDue(q, ch, i, v)
    PROVE  \E r : /\ Reads(sure, q, <<ch>>, r) /\ Going(r) /\ r.nread = q.nread + 1
                  /\ DigitRead(q, r, i, v)
                  /\ Keeps(q, r, {"state", "nread", "version"})
<1> USE DEF DigitDue
<1> DEFINE d == Counted(q)
           first == q.state \in {"first_major", "first_minor"}
           n == IF first THEN Digits[ch] ELSE 10 * v + Digits[ch]
           to == IF i = 1 THEN "major" ELSE "minor"
           s == [d EXCEPT !.version[i] = n, !.state = to]
<1>1. Going(d) /\ Keeps(q, d, {"nread"}) /\ d.nread = q.nread + 1
  BY CountedIs DEF ParsingHeader
<1> HIDE DEF d
<1>2. d.state = q.state /\ d.version = q.version
  BY <1>1 DEF Keeps, Fields
<1>3. PICK g \in 0 .. 9 : g = Digits[ch]
  BY DigitsAre
<1>4. /\ n \in Nat /\ n <= 999
      /\ n <= IF first THEN 9 ELSE 10 * v + 9
  <2>1. CASE first
    BY <1>3, <2>1
  <2>2. CASE ~first
    <3>1. v <= 99 /\ n = 10 * v + g
      BY <1>3, <2>2
    <3> QED
      BY <2>2, <3>1
  <2> QED
    BY <2>1, <2>2
<1>5. Digit(d, i, ch, TRUE) = s \/ ~first
  <2>1. CASE first
    <3>1. ~(Digits[ch] > 999)
      BY <1>3
    <3>2. n = Digits[ch]
      BY <2>1
    <3> HIDE DEF n
    <3> QED
      BY <3>1, <3>2 DEF Digit
  <2> QED
    BY <2>1
<1>6. Digit(d, i, ch, FALSE) = s \/ first
  <2>1. CASE ~first
    <3>1. n = 10 * d.version[i] + Digits[ch]
      BY <1>2, <2>1
    <3>2. ~(n > 999)
      BY <1>4
    <3> HIDE DEF n
    <3> QED
      BY <3>1, <3>2 DEF Digit
  <2> QED
    BY <2>1
<1>7. Step(d, ch) = Version(d, ch)
  BY <1>2 DEF Step, UrlUnfinished, UrlFinished
<1>8. ch \notin {"SP", "TAB", "CR", "LF", ".", ";"}
  BY DigitsAre
<1>9. Version(d, ch) = s
  <2> HIDE DEF s
  <2>1. CASE i = 1 /\ q.state = "first_major" /\ ch # "0"
    BY <1>2, <1>5, <2>1 DEF Version
  <2>2. CASE i = 1 /\ q.state = "major"
    BY <1>2, <1>6, <1>8, <2>2 DEF Version
  <2>3. CASE i = 2 /\ q.state = "first_minor"
    BY <1>2, <1>5, <2>3 DEF Version
  <2>4. CASE i = 2 /\ q.state = "minor"
    BY <1>2, <1>6, <1>8, <2>4 DEF Version
  <2> QED
    BY <2>1, <2>2, <2>3, <2>4
<1> HIDE DEF n
<1>10. /\ Going(s) /\ s.state = to /\ s.nread = q.nread + 1
       /\ Keeps(d, s, {"state", "version"})
       /\ s.version = [q.version EXCEPT ![i] = n]
  BY <1>1, <1>2 DEF Going, Keeps, Fields
<1> HIDE DEF s
<1>11. DOMAIN s.version = {1, 2} /\ s.version[i] = n /\ s.version[3 - i] = q.version[3 - i]
  BY <1>10
<1>12. s.errno = "ok" /\ s.complete = FALSE /\ DOMAIN s = Fields /\ s.state # "headers_done"
  BY <1>10 DEF Going
<1>13. sure => d.nread <= MaxHeader
  BY <1>1 DEF Room
<1>14. Reads(sure, q, <<ch>>, s)
  BY <1>7, <1>9, <1>12, <1>13, OneAtom DEF d
<1>15. Keeps(q, s, {"state", "nread", "version"})
  BY <1>1, <1>10 DEF Keeps
<1>16. DigitRead(q, s, i, v)
  BY <1>4, <1>10, <1>11 DEF DigitRead
<1> QED
  BY <1>10, <1>14, <1>15, <1>16

(* From q to r, in n atoms that change at most the fields in changed.      *)
Moves(sure, q, data, r, n, changed) ==
    /\ Reads(sure, q, data, r) /\ Going(r) /\ r.nread = q.nread + n /\ Keeps(q, r, changed)

(* Two moves in a row.                                                     *)
LEMMA MovesOn ==
    ASSUME NEW A, NEW a \in Seq(A), NEW b \in Seq(A), NEW sure \in BOOLEAN, NEW q, NEW r, NEW s,
           NEW n \in Nat, NEW i \in Nat, NEW changed, Going(q),
           Moves(sure, q, a, r, n, changed), Moves(sure, r, b, s, i, changed)
    PROVE  Moves(sure, q, a \o b, s, n + i, changed)
<1>1. Reads(sure, q, a \o b, s)
  BY ReadsOn DEF Moves
<1>2. Keeps(q, s, changed)
  BY DEF Moves, Keeps
<1>3. PICK k \in Nat : k = q.nread
  BY DEF Going
<1>4. s.nread = q.nread + (n + i)
  <2>1. r.nread = k + n /\ s.nread = r.nread + i
    BY <1>3 DEF Moves
  <2>2. (k + n) + i = k + (n + i)
    OBVIOUS
  <2> QED
    BY <1>3, <2>1, <2>2
<1> QED
  BY <1>1, <1>2, <1>4 DEF Moves

(* A move that changes less.                                               *)
LEMMA MovesWider ==
    ASSUME NEW sure, NEW q, NEW data, NEW r, NEW n, NEW less, NEW more, less \subseteq more,
           Moves(sure, q, data, r, n, less)
    PROVE  Moves(sure, q, data, r, n, more)
BY DEF Moves, Keeps

(* The carriage return and the line feed behind the url or the version.    *)
LEMMA LineEnd ==
    ASSUME NEW sure \in BOOLEAN, NEW q, Going(q), q.state \in UrlFinished \cup {"minor"},
           Room(sure, q, 2)
    PROVE  \E r : /\ Moves(sure, q, CRLF, r, 2, {"state", "nread", "version"})
                  /\ r.state = "field_start"
<1> DEFINE d == Counted(q)
           s == [d EXCEPT !.version = IF q.state = "minor" THEN @ ELSE <<0, 9>>,
                          !.state = "line_almost_done"]
           cr == "CR"
           lf == "LF"
           fs == "field_start"
           V == {"state", "nread", "version"}
<1>1. Going(d) /\ Keeps(q, d, {"nread"}) /\ d.nread = q.nread + 1
  BY CountedIs DEF ParsingHeader, UrlFinished
<1> HIDE DEF d
<1>2. d.state = q.state
  BY <1>1 DEF Keeps, Fields
<1>3. Step(d, cr) = s
  <2>1. CASE q.state = "minor"
    BY <1>2, <2>1 DEF Step, UrlUnfinished, UrlFinished, Version, Digits, Go
  <2>2. CASE q.state \in UrlFinished
    BY <1>2, <2>2 DEF Step, UrlUnfinished, UrlFinished, Url
  <2> QED
    BY <2>1, <2>2
<1>4. Going(s) /\ s.state = "line_almost_done" /\ s.nread = q.nread + 1
      /\ Keeps(d, s, {"state", "version"})
  BY <1>1, <1>2 DEF Going, Keeps, Fields
<1> HIDE DEF s
<1>5. s.errno = "ok" /\ s.complete = FALSE /\ DOMAIN s = Fields /\ s.state # "headers_done"
  BY <1>4 DEF Going
<1>6. Room(sure, q, 1) /\ Room(sure, s, 2 - 1)
  BY <1>4, RoomLess, RoomLeft
<1>7. Reads(sure, q, <<cr>>, s)
  BY <1>1, <1>3, <1>5, <1>6, OneAtom DEF d, Room
<1>8. Moves(sure, q, <<cr>>, s, 1, V)
  BY <1>1, <1>4, <1>7 DEF Moves, Keeps
<1>9. \E r : Moves(sure, s, <<lf>>, r, 1, V) /\ r.state = fs
  <2>1. Step(Counted(s), lf) = Go(Counted(s), fs) /\ fs # "headers_done"
    <3> DEFINE e == Counted(s)
    <3>1. Keeps(s, e, {"nread"})
      BY <1>4, CountedIs
    <3> HIDE DEF e
    <3>2. e.state = "line_almost_done"
      BY <1>4, <3>1 DEF Keeps, Fields
    <3>3. Step(e, lf) = Go(e, fs)
      BY <3>2 DEF Step, UrlUnfinished, UrlFinished, Version, Expect
    <3> QED
      BY <3>3 DEF e
  <2>2. ParsingHeader(s.state) /\ Room(sure, s, 1)
    BY <1>4, <1>6 DEF ParsingHeader
  <2> HIDE DEF lf, fs
  <2> QED
    BY <1>4, <2>1, <2>2, GoAtom DEF Moves, Keeps
<1>10. PICK r : Moves(sure, s, <<lf>>, r, 1, V) /\ r.state = fs
  BY <1>9
<1>11. <<cr>> \in Seq({cr, lf}) /\ <<lf>> \in Seq({cr, lf}) /\ <<cr>> \o <<lf>> = CRLF
  BY PairIs DEF CRLF
<1> HIDE DEF cr, lf, V, fs
<1>12. Moves(sure, q, <<cr>> \o <<lf>>, r, 1 + 1, V)
  BY <1>8, <1>10, <1>11, MovesOn
<1>13. Moves(sure, q, CRLF, r, 2, V)
  <2>1. 1 + 1 = 2
    OBVIOUS
  <2> QED
    BY <1>11, <1>12, <2>1
<1> QED
  BY <1>10, <1>13 DEF V, fs

LEMMA TripleIs ==
    ASSUME NEW a, NEW b, NEW c
    PROVE  <<a, b>> \o <<c>> = <<a, b, c>> /\ <<a>> \o <<b, c>> = <<a, b, c>>
<1> DEFINE A == {a, b, c}
           v == <<a, b>> \o <<c>>
           x == <<a>> \o <<b, c>>
           w == <<a, b, c>>
<1>1. /\ v \in Seq(A) /\ Len(v) = 3 /\ v[1] = a /\ v[2] = b /\ v[3] = c
      /\ x \in Seq(A) /\ Len(x) = 3 /\ x[1] = a /\ x[2] = b /\ x[3] = c
      /\ w \in Seq(A) /\ Len(w) = 3 /\ w[1] = a /\ w[2] = b /\ w[3] = c
  OBVIOUS
<1> HIDE DEF v, w, x, A
<1>2. (\A i \in 1 .. 3 : v[i] = w[i]) /\ \A i \in 1 .. 3 : x[i] = w[i]
  <2>1. \A i \in 1 .. 3 : i = 1 \/ i = 2 \/ i = 3
    OBVIOUS
  <2> QED
    BY <1>1, <2>1
<1>3. v = w
  BY <1>1, <1>2, SeqEqual
<1>4. x = w
  BY <1>1, <1>2, SeqEqual
<1> QED
  BY <1>3, <1>4 DEF v, w, x

(* The word before the version: three atoms.                               *)
LEMMA VersionLead ==
    ASSUME NEW sure \in BOOLEAN, NEW q, Going(q), q.state \in UrlFinished, Room(sure, q, 3)
    PROVE  \E r : /\ Moves(sure, q, <<"SP", "HT", "TP/">>, r, 3, {"state", "nread"})
                  /\ r.state = "first_major"
<1> DEFINE a == "SP"
           b == "HT"
           c == "TP/"
           s0 == "http_start"
           s1 == "http_HT"
           s2 == "first_major"
           V == {"state", "nread"}
<1>1. ASSUME NEW t, NEW ch, NEW to, NEW rest \in {1, 2, 3}, Going(t), Room(sure, t, rest),
             \/ t.state \in UrlFinished /\ ch = a /\ to = s0
             \/ t.state = s0 /\ ch = b /\ to = s1
             \/ t.state = s1 /\ ch = c /\ to = s2
      PROVE  \E r : Moves(sure, t, <<ch>>, r, 1, V) /\ r.state = to /\ Room(sure, r, rest - 1)
  <2>1. ParsingHeader(t.state) /\ to # "headers_done"
    BY <1>1 DEF ParsingHeader, UrlFinished
  <2>2. Step(Counted(t), ch) = Go(Counted(t), to)
    <3> DEFINE e == Counted(t)
    <3>1. Keeps(t, e, {"nread"})
      BY <1>1, CountedIs
    <3> HIDE DEF e
    <3>2. e.state = t.state
      BY <3>1 DEF Keeps, Fields
    <3>3. CASE t.state \in UrlFinished /\ ch = a /\ to = s0
      BY <3>2, <3>3 DEF Step, UrlUnfinished, UrlFinished, Url, e
    <3>4. CASE t.state = s0 /\ ch = b /\ to = s1
      BY <3>2, <3>4 DEF Step, UrlUnfinished, UrlFinished, Version, Expect, e
    <3>5. CASE t.state = s1 /\ ch = c /\ to = s2
      BY <3>2, <3>5 DEF Step, UrlUnfinished, UrlFinished, Version, Expect, e
    <3> QED
      BY <1>1, <3>3, <3>4, <3>5
  <2>3. Room(sure, t, 1)
    BY <1>1, RoomLess
  <2>4. PICK r : /\ Reads(sure, t, <<ch>>, r) /\ Going(r) /\ r.state = to /\ r.nread = t.nread + 1
                 /\ Keeps(t, r, {"state", "nread"})
    BY <1>1, <2>1, <2>2, <2>3, GoAtom
  <2>5. Room(sure, r, rest - 1)
    BY <1>1, <2>4, RoomLeft
  <2> QED
    BY <2>4, <2>5 DEF Moves
<1>2. PICK t : Moves(sure, q, <<a>>, t, 1, V) /\ t.state = s0 /\ Room(sure, t, 2)
  BY <1>1
<1>3. PICK u : Moves(sure, t, <<b>>, u, 1, V) /\ u.state = s1 /\ Room(sure, u, 1)
  BY <1>1, <1>2 DEF Moves
<1>4. PICK r : Moves(sure, u, <<c>>, r, 1, V) /\ r.state = s2 /\ Room(sure, r, 0)
  BY <1>1, <1>3 DEF Moves
<1> DEFINE A == {a, b, c}
<1>5. /\ <<a>> \in Seq(A) /\ <<b>> \in Seq(A) /\ <<c>> \in Seq(A) /\ <<a, b>> \in Seq(A)
      /\ <<a>> \o <<b>> = <<a, b>>
      /\ <<a, b>> \o <<c>> = <<a, b, c>>
  <2>1. <<a>> \in Seq(A) /\ <<b>> \in Seq(A) /\ <<c>> \in Seq(A) /\ <<a, b>> \in Seq(A)
    OBVIOUS
  <2> HIDE DEF a, b, c, A
  <2> QED
    BY <2>1, PairIs, TripleIs
<1> HIDE DEF a, b, c, A, V, s0, s1, s2
<1>6. Moves(sure, q, <<a>> \o <<b>>, u, 1 + 1, V)
  BY <1>2, <1>3, <1>5, MovesOn
<1>7. Moves(sure, q, <<a, b>>, u, 2, V)
  <2>1. 1 + 1 = 2
    OBVIOUS
  <2> QED
    BY <1>5, <1>6, <2>1
<1>8. Moves(sure, q, <<a, b>> \o <<c>>, r, 2 + 1, V)
  BY <1>4, <1>5, <1>7, MovesOn
<1>9. Moves(sure, q, <<a, b, c>>, r, 3, V)
  <2>1. 2 + 1 = 3
    OBVIOUS
  <2> QED
    BY <1>5, <1>8, <2>1
<1> QED
  BY <1>4, <1>9 DEF a, b, c, V, s2

(* Sequences over more atoms.                                              *)
LEMMA SeqWider ==
    ASSUME NEW A, NEW B, A \subseteq B, NEW s \in Seq(A)
    PROVE  s \in Seq(B)
OBVIOUS

(* The number of a version.                                                *)
LEMMA VersionRead ==
    ASSUME NEW sure \in BOOLEAN, NEW A, NEW q, NEW v \in Seq(A), Going(q), IsVersion(v),
           q.state = "first_major", q.version = <<0, 0>>, Room(sure, q, Len(v))
    PROVE  \E r : /\ Moves(sure, q, v, r, Len(v), {"state", "nread", "version"})
                  /\ r.state = "minor"
<1>1. PICK n, pre : Beginnings(A, v, n, pre)
  BY BeginningsExist
<1>2. n \in Nat /\ n = Len(v) /\ pre[n] = v
  BY <1>1 DEF Beginnings
<1>3. PICK dot \in 2 .. 4 :
        /\ n - dot \in 1 .. 3 /\ v[dot] = "."
        /\ \A i \in DOMAIN v \ {dot} : v[i] \in DOMAIN Digits
  BY <1>2 DEF IsVersion
<1>4. v[1] # "0" /\ DOMAIN v = 1 .. n
  <2>1. v[1] # "0"
    BY DEF IsVersion
  <2> QED
    BY <1>2, <2>1, LenProperties
<1> DEFINE V == {"state", "nread", "version"}
           P(j, r) ==
             /\ Moves(sure, q, pre[j], r, j, V)
             /\ DOMAIN r.version = {1, 2} /\ r.version[1] \in Nat /\ r.version[2] \in Nat
             /\ j = 0 => r.state = "first_major"
             /\ j \in 1 .. dot - 1 => r.state = "major"
             /\ j = dot => r.state = "first_minor"
             /\ j > dot => r.state = "minor"
             /\ j = 1 => r.version[1] <= 9
             /\ j = 2 => r.version[1] <= 99
             /\ j = dot + 1 => r.version[2] <= 9
             /\ j = dot + 2 => r.version[2] <= 99
           T == {j \in Nat : j <= n => \E r : P(j, r)}
<1>5. 0 \in T
  <2>1. Reads(sure, q, pre[0], q)
    BY <1>1, ReadsNothing DEF Beginnings
  <2>2. q.nread = q.nread + 0
    BY DEF Going
  <2>3. Moves(sure, q, pre[0], q, 0, V)
    BY <2>1, <2>2 DEF Moves, Keeps
  <2>4. P(0, q)
    BY <1>3, <2>3
  <2> HIDE DEF P
  <2> QED
    BY <2>4
<1>6. ASSUME NEW j \in T PROVE j + 1 \in T
  <2> SUFFICES ASSUME j + 1 <= n
               PROVE  \E r : P(j + 1, r)
    OBVIOUS
  <2>0. j \in Nat /\ j <= n /\ j + 1 \in Nat /\ j + 1 \in 1 .. n
    BY <1>2
  <2>1. PICK r : P(j, r)
    BY <2>0
  <2> DEFINE ch == v[j + 1]
             u == pre[j]
  <2>2. ch \in A /\ u \in Seq(A) /\ pre[j + 1] = u \o <<ch>> /\ <<ch>> \in Seq(A)
    <3>1. ch \in A /\ u \in Seq(A) /\ pre[j + 1] = Append(u, ch)
      BY <1>1, <2>0 DEF Beginnings
    <3> HIDE DEF u, ch
    <3> QED
      BY <3>1, AppendIs
  <2>3. j + 1 # dot => ch \in DOMAIN Digits
    BY <1>3, <1>4, <2>0
  <2>4. j + 1 = dot => ch = "."
    BY <1>3
  <2>5. j = 0 => ch # "0"
    BY <1>4
  <2> HIDE DEF ch, u, T
  <2>6. /\ Going(r) /\ r.nread = q.nread + j /\ Keeps(q, r, V)
        /\ Moves(sure, q, u, r, j, V)
        /\ DOMAIN r.version = {1, 2} /\ r.version[1] \in Nat /\ r.version[2] \in Nat
    BY <2>1 DEF Moves, u
  <2>7. Room(sure, r, 1)
    <3>1. Room(sure, r, n - j)
      BY <1>2, <2>0, <2>6, RoomLeft
    <3>2. 1 <= n - j /\ n - j \in Nat
      BY <1>2, <2>0
    <3> QED
      BY <2>6, <3>1, <3>2, RoomLess
  <2>8. ASSUME NEW s, Moves(sure, r, <<ch>>, s, 1, V)
        PROVE  Moves(sure, q, pre[j + 1], s, j + 1, V)
    <3> DEFINE x == <<ch>>
    <3>0. u \in Seq(A) /\ x \in Seq(A) /\ 1 \in Nat /\ j \in Nat
      BY <2>0, <2>2
    <3> HIDE DEF V, x, P
    <3>1. Moves(sure, q, u, r, j, V) /\ Moves(sure, r, x, s, 1, V)
      BY <2>6, <2>8 DEF x
    <3>2. Moves(sure, q, u \o x, s, j + 1, V)
      BY <3>0, <3>1, MovesOn
    <3> QED
      BY <2>2, <3>2 DEF x
  <2>9. CASE j + 1 = dot
    <3> DEFINE to == "first_minor"
    <3>1. r.state = "major" /\ ch = "."
      BY <1>3, <2>0, <2>1, <2>4, <2>9
    <3>2. Step(Counted(r), ch) = Go(Counted(r), to) /\ to # "headers_done" /\ ParsingHeader(r.state)
      <4> DEFINE e == Counted(r)
      <4>1. Keeps(r, e, {"nread"})
        BY <2>6, CountedIs
      <4> HIDE DEF e
      <4>2. e.state = "major"
        BY <3>1, <4>1 DEF Keeps, Fields
      <4> QED
        BY <3>1, <4>2 DEF Step, UrlUnfinished, UrlFinished, Version, Digits, ParsingHeader, e
    <3> HIDE DEF to
    <3>3. PICK s : /\ Reads(sure, r, <<ch>>, s) /\ Going(s) /\ s.state = to
                   /\ s.nread = r.nread + 1 /\ Keeps(r, s, {"state", "nread"})
      BY <2>6, <2>7, <3>2, GoAtom
    <3>4. Moves(sure, r, <<ch>>, s, 1, V) /\ s.version = r.version
      BY <3>3 DEF Moves, Keeps, Fields
    <3>5. Moves(sure, q, pre[j + 1], s, j + 1, V)
      BY <2>8, <3>4
    <3>6. P(j + 1, s)
      <4>1. s.state = "first_minor"
        BY <3>3 DEF to
      <4>2. j + 1 # dot + 1 /\ j + 1 # dot + 2 /\ j + 1 # 0 /\ j + 1 \notin 1 .. dot - 1 /\ ~(j + 1 > dot)
            /\ j + 1 # 1 /\ (j + 1 = 2 => j = 1)
        BY <2>9, <2>0
      <4>3. j = 1 => s.version[1] <= 99
        <5>1. j = 1 => r.version[1] <= 9
          BY <2>1
        <5>2. PICK g \in Nat : g = r.version[1]
          BY <2>6
        <5>3. g <= 9 => g <= 99
          OBVIOUS
        <5> QED
          BY <3>4, <5>1, <5>2, <5>3
      <4> QED
        BY <2>6, <3>4, <3>5, <4>1, <4>2, <4>3
    <3> HIDE DEF P
    <3> QED
      BY <3>6
  <2>10. CASE j + 1 # dot
    <3>1. PICK i \in {1, 2} : i = IF j < dot THEN 1 ELSE 2
      OBVIOUS
    <3>2. PICK w \in Nat : w = r.version[i]
      BY <2>6
    <3>3. DigitDue(r, ch, i, w)
      <4> USE DEF DigitDue
      <4>0. DOMAIN r.version = {1, 2} /\ r.version[i] = w
        BY <2>6, <3>2
      <4>1. j = 0 \/ (j \in 1 .. dot - 1 /\ (j = 1 \/ j = 2)) \/ j = dot \/ (j > dot /\ (j = dot + 1 \/ j = dot + 2))
        BY <1>2, <1>3, <2>0, <2>10
      <4>2. CASE j = 0
        BY <1>3, <2>1, <2>5, <3>1, <4>0, <4>2
      <4>3. CASE j \in 1 .. dot - 1 /\ (j = 1 \/ j = 2)
        <5>1. r.version[1] <= 9 \/ r.version[1] <= 99
          BY <2>1, <4>3
        <5>2. i = 1 /\ r.state = "major"
          BY <2>1, <3>1, <4>3
        <5> QED
          BY <3>2, <4>0, <5>1, <5>2
      <4>4. CASE j = dot
        BY <2>1, <3>1, <4>0, <4>4
      <4>5. CASE j > dot /\ (j = dot + 1 \/ j = dot + 2)
        <5>1. r.version[2] <= 9 \/ r.version[2] <= 99
          BY <2>1, <4>5
        <5>2. i = 2 /\ r.state = "minor"
          BY <2>1, <3>1, <4>5
        <5> QED
          BY <3>2, <4>0, <5>1, <5>2
      <4> QED
        BY <4>1, <4>2, <4>3, <4>4, <4>5
    <3>4. PICK s : /\ Reads(sure, r, <<ch>>, s) /\ Going(s) /\ s.nread = r.nread + 1
                   /\ DigitRead(r, s, i, w)
                   /\ Keeps(r, s, {"state", "nread", "version"})
      <4>1. ch \in DOMAIN Digits
        BY <2>3, <2>10
      <4>2. Going(r)
        BY <2>6
      <4> HIDE DEF P, V
      <4> QED
        BY <2>7, <3>1, <3>2, <3>3, <4>1, <4>2, DigitAtom
    <3>5. Moves(sure, q, pre[j + 1], s, j + 1, V)
      BY <2>8, <3>4 DEF Moves
    <3> USE DEF DigitRead
    <3>6. s.version[1] \in Nat /\ s.version[2] \in Nat
      BY <2>6, <3>4
    <3>7. P(j + 1, s)
      <4>1. CASE i = 1
        <5>1. j < dot /\ j + 1 < dot /\ j + 1 \in 1 .. dot - 1
          BY <2>0, <2>10, <3>1, <4>1
        <5>2. j + 1 = 1 => s.version[1] <= 9
          <6> SUFFICES ASSUME j = 0 PROVE s.version[1] <= 9
            BY <2>0
          <6>1. r.state = "first_major"
            BY <2>1
          <6> QED
            BY <3>4, <4>1, <6>1
        <5>3. j + 1 = 2 => s.version[1] <= 99
          <6> SUFFICES ASSUME j = 1 PROVE s.version[1] <= 99
            BY <2>0
          <6>1. w <= 9
            BY <2>1, <3>2, <4>1
          <6>2. PICK g \in Nat : g = s.version[1]
            BY <3>6
          <6>3. g <= 9 \/ g <= 10 * w + 9
            BY <3>4, <4>1, <6>2
          <6> QED
            BY <6>1, <6>2, <6>3
        <5> QED
          BY <3>4, <3>5, <3>6, <4>1, <5>1, <5>2, <5>3
      <4>2. CASE i = 2
        <5>1. j >= dot /\ j + 1 > dot /\ j + 1 # 0 /\ j + 1 # 1 /\ j + 1 # 2 /\ j + 1 \notin 1 .. dot - 1 /\ j + 1 # dot
          BY <2>0, <3>1, <4>2
        <5>2. j + 1 = dot + 1 => s.version[2] <= 9
          <6> SUFFICES ASSUME j = dot PROVE s.version[2] <= 9
            BY <2>0
          <6> QED
            BY <2>1, <3>4, <4>2
        <5>3. j + 1 = dot + 2 => s.version[2] <= 99
          <6> SUFFICES ASSUME j = dot + 1 PROVE s.version[2] <= 99
            BY <2>0
          <6>1. w <= 9
            BY <2>1, <3>2, <4>2
          <6>2. PICK g \in Nat : g = s.version[2]
            BY <3>6
          <6>3. g <= 9 \/ g <= 10 * w + 9
            BY <3>4, <4>2, <6>2
          <6> QED
            BY <6>1, <6>2, <6>3
        <5> QED
          BY <3>4, <3>5, <3>6, <4>2, <5>1, <5>2, <5>3
      <4> QED
        BY <4>1, <4>2
    <3> HIDE DEF P
    <3> QED
      BY <3>7
  <2> QED
    BY <2>9, <2>10
<1>7. T = Nat
  <2>1. T \in SUBSET Nat
    OBVIOUS
  <2> HIDE DEF T
  <2> QED
    BY <1>5, <1>6, <2>1, Counting
<1> HIDE DEF P
<1>8. n \in T /\ n <= n
  BY <1>2, <1>7
<1>9. PICK r : P(n, r)
  BY <1>8
<1> USE DEF P
<1>10. n > dot
  BY <1>2, <1>3
<1> QED
  BY <1>2, <1>9, <1>10

(* The version as it is sent.                                              *)
VersionOf(m) == IF m.version = <<>> THEN <<>> ELSE <<"SP", "HT", "TP/">> \o m.version

(* What ends the request line.                                             *)
LEMMA LineRead ==
    ASSUME NEW sure \in BOOLEAN, NEW m, NEW q, m.version \in Seq(Atoms),
           m.version # <<>> => IsVersion(m.version),
           Going(q), q.state \in UrlFinished, q.version = <<0, 0>>,
           Room(sure, q, Len(VersionOf(m) \o CRLF))
    PROVE  \E r : /\ Moves(sure, q, VersionOf(m) \o CRLF, r, Len(VersionOf(m) \o CRLF),
                           {"state", "nread", "version"})
                  /\ r.state = "field_start"
<1> DEFINE V == {"state", "nread", "version"}
           lead == <<"SP", "HT", "TP/">>
           crlf == CRLF
           v == m.version
<1>0. /\ v \in Seq(Wire) /\ lead \in Seq(Wire) /\ crlf \in Seq(Wire) /\ Len(lead) = 3 /\ Len(crlf) = 2
      /\ Len(v) \in Nat
  <2>1. Atoms \subseteq Wire /\ {"SP", "HT", "TP/", "CR", "LF"} \subseteq Wire
    BY DEF Wire, Delimiters
  <2>2. v \in Seq(Atoms)
    OBVIOUS
  <2>3. /\ lead \in Seq({"SP", "HT", "TP/", "CR", "LF"}) /\ Len(lead) = 3
        /\ crlf \in Seq({"SP", "HT", "TP/", "CR", "LF"}) /\ Len(crlf) = 2
    BY DEF CRLF
  <2> HIDE DEF v, lead, crlf
  <2> QED
    BY <2>1, <2>2, <2>3, SeqWider, LenProperties
<1>1. CASE v = <<>>
  <2>1. VersionOf(m) \o CRLF = crlf
    BY <1>0, <1>1 DEF VersionOf
  <2>2. PICK r : Moves(sure, q, CRLF, r, 2, V) /\ r.state = "field_start"
    BY <1>0, <2>1, LineEnd
  <2> QED
    BY <1>0, <2>1, <2>2
<1>2. CASE v # <<>>
  <2> DEFINE w == lead \o v
             n == Len(v)
  <2>1. VersionOf(m) = w
    BY <1>2 DEF VersionOf
  <2>2. w \in Seq(Wire) /\ Len(w) = 3 + n /\ Len(w \o crlf) = 3 + n + 2
    <3> HIDE DEF lead, v, crlf
    <3>1. w \in Seq(Wire) /\ Len(w) = Len(lead) + Len(v)
      BY <1>0, ConcatProperties
    <3> HIDE DEF w
    <3>2. Len(w \o crlf) = Len(w) + Len(crlf)
      BY <1>0, <3>1, ConcatProperties
    <3> QED
      BY <1>0, <3>1, <3>2
  <2> HIDE DEF crlf, v, w, n
  <2>3. n \in Nat /\ 3 + n + 2 \in Nat /\ 3 <= 3 + n + 2 /\ (3 + n + 2) - 3 = n + 2 /\ n <= n + 2 /\ (n + 2) - n = 2
    BY <1>0 DEF n
  <2>4. Room(sure, q, 3 + n + 2)
    BY <2>1, <2>2 DEF crlf
  <2>5. PICK a : Moves(sure, q, <<"SP", "HT", "TP/">>, a, 3, {"state", "nread"}) /\ a.state = "first_major"
    BY <2>3, <2>4, RoomLess, VersionLead
  <2> HIDE DEF lead
  <2>6. Moves(sure, q, lead, a, 3, V) /\ a.version = <<0, 0>> /\ Going(a) /\ a.nread = q.nread + 3
    BY <2>5 DEF Moves, Keeps, Fields, lead
  <2>7. Room(sure, a, n + 2)
    <3>1. Room(sure, a, (3 + n + 2) - 3)
      BY <2>3, <2>4, <2>6, RoomLeft
    <3> QED
      BY <2>3, <3>1
  <2>8. Room(sure, a, n)
    BY <2>3, <2>6, <2>7, RoomLess
  <2>9. PICK b : Moves(sure, a, v, b, n, V) /\ b.state = "minor"
    <3>1. v \in Seq(Wire) /\ IsVersion(v) /\ n = Len(v)
      BY <1>0, <1>2 DEF v, n
    <3> QED
      BY <2>5, <2>6, <2>8, <3>1, VersionRead
  <2>10. Going(b) /\ b.nread = a.nread + n
    BY <2>9 DEF Moves
  <2>11. Room(sure, b, 2)
    <3>1. n + 2 \in Nat
      BY <2>3
    <3>2. Room(sure, b, (n + 2) - n)
      BY <2>3, <2>6, <2>7, <2>10, <3>1, RoomLeft
    <3> QED
      BY <2>3, <3>2
  <2>12. PICK r : Moves(sure, b, crlf, r, 2, V) /\ r.state = "field_start"
    BY <2>9, <2>10, <2>11, LineEnd DEF crlf
  <2>13. Moves(sure, q, w, b, 3 + n, V)
    <3>1. lead \in Seq(Wire) /\ v \in Seq(Wire) /\ w = lead \o v
      BY <1>0 DEF v, w
    <3> QED
      BY <2>3, <2>6, <2>9, <3>1, MovesOn
  <2>14. Moves(sure, q, w \o crlf, r, 3 + n + 2, V)
    <3>1. 3 + n \in Nat /\ 2 \in Nat
      BY <2>3
    <3> QED
      BY <1>0, <2>2, <2>12, <2>13, <3>1, MovesOn DEF crlf
  <2> QED
    BY <2>1, <2>2, <2>12, <2>14 DEF crlf
<1> QED
  BY <1>1, <1>2

-----------------------------------------------------------------------------
(* Sequences that are put together from sequences.                         *)
LEMMA MappedIs ==
    ASSUME NEW A, NEW S, NEW v \in Seq(A), NEW g, g = [i \in DOMAIN v |-> g[i]],
           \A i \in DOMAIN v : g[i] \in S
    PROVE  g \in Seq(S) /\ Len(g) = Len(v) /\ DOMAIN g = 1 .. Len(v)
<1>1. Len(v) \in Nat /\ DOMAIN v = 1 .. Len(v)
  BY LenProperties
<1>2. g \in [1 .. Len(v) -> S]
  BY <1>1
<1>3. g \in Seq(S)
  BY <1>1, <1>2, SeqDef
<1>4. DOMAIN g = 1 .. Len(v) /\ DOMAIN g = 1 .. Len(g) /\ Len(g) \in Nat
  BY <1>2, <1>3, LenProperties
<1> QED
  BY <1>1, <1>3, <1>4

(* flat[j] is what the first j sequences of ss make.                       *)
Flattens(A, ss, n, flat) ==
    /\ n \in Nat /\ n = Len(ss) /\ flat[n] = FlattenSeq(ss)
    /\ flat[0] \in Seq(A) /\ Len(flat[0]) = 0 /\ flat[0] = <<>>
    /\ \A j \in Nat : j <= n => flat[j] \in Seq(A)
    /\ \A j \in Nat : j + 1 <= n => ss[j + 1] \in Seq(A) /\ flat[j + 1] = flat[j] \o ss[j + 1]

(* The flattened sequences exist: f is a function by recursion on their    *)
(* number.                                                                 *)
Flattened(f, ss, n) ==
    \A i \in 1 .. n : f[i] = IF i = 1 THEN ss[i] ELSE f[i - 1] \o ss[i]

LEMMA FlattenedExists ==
    ASSUME NEW ss, NEW n \in Nat
    PROVE  \E f : Flattened(f, ss, n)
<1> DEFINE T == {m \in Nat : \E f : Flattened(f, ss, m)}
<1>1. 0 \in T
  <2>1. \A f : Flattened(f, ss, 0)
    BY DEF Flattened
  <2> QED
    BY <2>1
<1>2. ASSUME NEW m \in T PROVE m + 1 \in T
  <2>1. PICK f : Flattened(f, ss, m)
    OBVIOUS
  <2> DEFINE g == [i \in 1 .. m + 1 |-> IF i = m + 1 THEN IF i = 1 THEN ss[i] ELSE f[i - 1] \o ss[i]
                                        ELSE f[i]]
  <2>2. Flattened(g, ss, m + 1)
    <3>1. m \in Nat
      OBVIOUS
    <3> SUFFICES ASSUME NEW i \in 1 .. m + 1
                 PROVE  g[i] = IF i = 1 THEN ss[i] ELSE g[i - 1] \o ss[i]
      BY DEF Flattened
    <3>2. CASE i = m + 1
      <4>1. i # 1 => i - 1 \in 1 .. m + 1 /\ i - 1 # m + 1
        BY <3>1, <3>2
      <4> QED
        BY <3>2, <4>1
    <3>3. CASE i # m + 1
      <4>1. i \in 1 .. m /\ g[i] = f[i] /\ (i # 1 => i - 1 \in 1 .. m + 1 /\ i - 1 # m + 1)
        BY <3>1, <3>3
      <4>2. f[i] = IF i = 1 THEN ss[i] ELSE f[i - 1] \o ss[i]
        BY <2>1, <4>1 DEF Flattened
      <4> QED
        BY <4>1, <4>2
    <3> QED
      BY <3>2, <3>3
  <2> HIDE DEF g
  <2> QED
    BY <2>2
<1>3. T = Nat
  <2>1. T \in SUBSET Nat
    OBVIOUS
  <2> HIDE DEF T
  <2> QED
    BY <1>1, <1>2, <2>1, Counting
<1> QED
  BY <1>3

(* The flattened beginnings of a sequence of sequences exist.              *)
LEMMA FlattensExists ==
    ASSUME NEW A, NEW ss \in Seq(Seq(A))
    PROVE  \E n, flat : Flattens(A, ss, n, flat)
<1> DEFINE n == Len(ss)
           body(f) == [i \in 1 .. n |-> IF i = 1 THEN ss[i] ELSE f[i - 1] \o ss[i]]
           iter == CHOOSE f : f = body(f)
           flat == [j \in Nat |-> IF j = 0 THEN <<>> ELSE iter[j]]
<1>1. n \in Nat /\ n = Len(ss) /\ DOMAIN ss = 1 .. n
  BY LenProperties
<1>2. FlattenSeq(ss) = IF n = 0 THEN ss ELSE iter[n]
  BY DEF FlattenSeq
<1> HIDE DEF n
<1>3. PICK g : Flattened(g, ss, n)
  BY <1>1, FlattenedExists
<1> DEFINE h == [i \in 1 .. n |-> g[i]]
<1>4. h = body(h)
  <2>1. \A i \in 1 .. n : i # 1 => i - 1 \in 1 .. n
    BY <1>1
  <2> QED
    BY <1>3, <2>1 DEF Flattened
<1> HIDE DEF h
<1>5. iter = body(iter)
  BY <1>4
<1> HIDE DEF iter
<1>6. \A i \in 1 .. n : iter[i] = IF i = 1 THEN ss[i] ELSE iter[i - 1] \o ss[i]
  BY <1>5
<1> HIDE DEF body
<1>7. flat[0] \in Seq(A) /\ Len(flat[0]) = 0 /\ flat[0] = <<>>
  OBVIOUS
<1>8. ASSUME NEW j \in Nat, j + 1 <= n, flat[j] \in Seq(A)
      PROVE  ss[j + 1] \in Seq(A) /\ flat[j + 1] = flat[j] \o ss[j + 1]
  <2> DEFINE s == ss[j + 1]
  <2>1. j + 1 \in 1 .. n /\ j + 1 \in Nat /\ j + 1 # 0 /\ j + 1 - 1 = j /\ (j + 1 = 1 <=> j = 0)
    BY <1>1, <1>8
  <2>2. s \in Seq(A)
    BY <1>1, <2>1, ElementOfSeq
  <2> HIDE DEF s
  <2>3. flat[j + 1] = IF j = 0 THEN s ELSE iter[j] \o s
    BY <1>6, <2>1 DEF s
  <2>4. <<>> \o s = s
    BY <2>2, ConcatEmptySeq
  <2> QED
    BY <2>2, <2>3, <2>4 DEF s
<1> DEFINE T == {j \in Nat : j <= n => flat[j] \in Seq(A)}
<1>9. 0 \in T
  BY <1>7
<1>10. ASSUME NEW j \in T PROVE j + 1 \in T
  <2> SUFFICES ASSUME j + 1 <= n PROVE flat[j + 1] \in Seq(A)
    OBVIOUS
  <2>1. j \in Nat /\ j <= n
    BY <1>1
  <2>2. flat[j] \in Seq(A)
    BY <2>1
  <2>3. ss[j + 1] \in Seq(A) /\ flat[j + 1] = flat[j] \o ss[j + 1]
    BY <1>8, <2>1, <2>2
  <2> HIDE DEF flat, T
  <2> QED
    BY <2>2, <2>3, ConcatProperties
<1>11. T = Nat
  <2>1. T \in SUBSET Nat
    OBVIOUS
  <2> HIDE DEF T
  <2> QED
    BY <1>9, <1>10, <2>1, Counting
<1>12. \A j \in Nat : j <= n => flat[j] \in Seq(A)
  BY <1>11
<1>13. \A j \in Nat : j + 1 <= n => ss[j + 1] \in Seq(A) /\ flat[j + 1] = flat[j] \o ss[j + 1]
  <2> SUFFICES ASSUME NEW j \in Nat, j + 1 <= n
               PROVE  ss[j + 1] \in Seq(A) /\ flat[j + 1] = flat[j] \o ss[j + 1]
    OBVIOUS
  <2>1. j <= n
    BY <1>1
  <2> QED
    BY <1>8, <1>12, <2>1
<1>14. flat[n] = FlattenSeq(ss)
  <2>1. CASE n = 0
    <3>1. ss = <<>>
      BY <1>1, <2>1, EmptySeq
    <3> QED
      BY <1>1, <1>2, <2>1, <3>1
  <2>2. CASE n # 0
    BY <1>1, <1>2, <2>2
  <2> QED
    BY <2>1, <2>2
<1> HIDE DEF flat
<1>15. Flattens(A, ss, n, flat)
  BY <1>1, <1>7, <1>12, <1>13, <1>14 DEF Flattens
<1> QED
  BY <1>15

(* flat[j] is what the first j atoms of a value make when each fold in it  *)
(* is replaced by the sequence by.                                         *)
Folds(A, v, by, n, flat) ==
    /\ n \in Nat /\ n = Len(v) /\ flat[n] = Folded(v, by)
    /\ flat[0] \in Seq(A) /\ Len(flat[0]) = 0 /\ flat[0] = <<>>
    /\ \A j \in Nat : j <= n => flat[j] \in Seq(A)
    /\ \A j \in Nat : j + 1 <= n =>
         flat[j + 1] = flat[j] \o IF v[j + 1] = "fold" THEN by ELSE <<v[j + 1]>>

(* And so do the beginnings of a folded value.                             *)
LEMMA FoldsExists ==
    ASSUME NEW A, NEW v \in Seq(A \cup {"fold"}), NEW by \in Seq(A)
    PROVE  \E n, flat : Folds(A, v, by, n, flat)
<1> DEFINE ss == [i \in DOMAIN v |-> IF v[i] = "fold" THEN by ELSE <<v[i]>>]
<1>1. Len(v) \in Nat /\ DOMAIN v = 1 .. Len(v)
  BY LenProperties
<1>2. \A i \in DOMAIN v : ss[i] \in Seq(A)
  <2> SUFFICES ASSUME NEW i \in DOMAIN v, v[i] # "fold" PROVE <<v[i]>> \in Seq(A)
    OBVIOUS
  <2> DEFINE x == v[i]
  <2>1. x \in A
    BY <1>1, ElementOfSeq
  <2> HIDE DEF x
  <2>2. <<x>> \in Seq(A)
    BY <2>1
  <2> QED
    BY <2>2 DEF x
<1>3. ss = [i \in DOMAIN v |-> ss[i]]
  OBVIOUS
<1>4. \A i \in DOMAIN v : ss[i] = IF v[i] = "fold" THEN by ELSE <<v[i]>>
  OBVIOUS
<1>5. Folded(v, by) = FlattenSeq(ss)
  BY DEF Folded
<1> HIDE DEF ss
<1>6. ss \in Seq(Seq(A)) /\ Len(ss) = Len(v)
  <2> DEFINE B == A \cup {"fold"}
             S == Seq(A)
  <2>1. v \in Seq(B) /\ \A i \in DOMAIN v : ss[i] \in S
    BY <1>2
  <2> HIDE DEF B, S
  <2>2. ss \in Seq(S) /\ Len(ss) = Len(v)
    BY <1>3, <2>1, MappedIs
  <2> QED
    BY <2>2 DEF S
<1>7. PICK n, flat : Flattens(A, ss, n, flat)
  BY <1>6, FlattensExists
<1>8. n \in Nat /\ n = Len(v) /\ flat[n] = Folded(v, by)
  BY <1>5, <1>6, <1>7 DEF Flattens
<1>9. ASSUME NEW j \in Nat, j + 1 <= n
      PROVE  flat[j + 1] = flat[j] \o IF v[j + 1] = "fold" THEN by ELSE <<v[j + 1]>>
  <2>1. flat[j + 1] = flat[j] \o ss[j + 1]
    BY <1>7, <1>9 DEF Flattens
  <2>2. j + 1 \in DOMAIN v
    BY <1>1, <1>8, <1>9
  <2> QED
    BY <1>4, <2>1, <2>2
<1>10. Folds(A, v, by, n, flat)
  BY <1>7, <1>8, <1>9 DEF Folds, Flattens
<1> QED
  BY <1>10

-----------------------------------------------------------------------------
(* The name of a header.  At the start of a line the pair before it is not *)
(* stored yet, and neither is the flag of a chunked body.                  *)
LineStates == {"field_start", "value_lws", "value_discard_lws"}
(* At the start of a line; and the flags the parser has then.              *)
AtLine(q) == Going(q) /\ q.state \in LineStates /\ q.field \in Seq(Wire)
Flags(q) == q.flags \cup IF q.state = "value_lws" /\ q.hs = "chunked" THEN {"chunked"} ELSE {}
(* What a line of the headers changes.                                     *)
OfHeader == {"state", "nread", "hs", "word", "flags", "len", "field", "value", "headers"}

(* What is stored at the start of a line.                                  *)
LEMMA FlushIs ==
    ASSUME NEW q, DOMAIN q = Fields
    PROVE  /\ DOMAIN Flush(q) = Fields /\ Flush(q).value = <<>>
           /\ Keeps(q, Flush(q), {"headers", "field", "value"})
           /\ Flush(q).field = (IF q.value = <<>> THEN q.field ELSE <<>>)
           /\ Flush(q).headers = (IF q.value = <<>> THEN q.headers
                                  ELSE {h \in q.headers : h[1] # q.field} \cup {<<q.field, q.value>>})
BY DEF Flush, Keeps, Fields

(* r has read name behind what q held at the start of the line.            *)
InName(q, r, name) ==
    /\ r.state = "field" /\ r.word = name /\ r.field = Flush(q).field \o name
    /\ r.value = <<>> /\ r.headers = Flush(q).headers /\ r.flags = Flags(q) /\ r.len = q.len

(* The first atom of a name.                                               *)
LEMMA NameStart ==
    ASSUME NEW sure \in BOOLEAN, NEW q, NEW ch \in Wire \ Delimiters, AtLine(q), Room(sure, q, 1)
    PROVE  \E r : Moves(sure, q, <<ch>>, r, 1, OfHeader) /\ InName(q, r, <<ch>>)
<1> DEFINE d == Counted(q)
           e == [d EXCEPT !.flags = Flags(q)]
           s == [OnHeaderField(e, ch) EXCEPT !.word = <<ch>>, !.state = "field"]
<1>1. Going(d) /\ Keeps(q, d, {"nread"}) /\ d.nread = q.nread + 1
  BY CountedIs DEF AtLine, LineStates, ParsingHeader
<1>0. Whole(d)
  BY DEF Counted, Whole, AtLine, Going
<1> HIDE DEF d
<1>2. d.state = q.state /\ d.flags = q.flags /\ d.hs = q.hs /\ d.len = q.len /\ d.field = q.field
      /\ d.value = q.value /\ d.headers = q.headers
  BY <1>1 DEF Keeps, Fields
<1>3. Going(e) /\ Keeps(d, e, {"flags"}) /\ e.flags = Flags(q)
  BY <1>1 DEF Going, Keeps, Fields
<1>4. Step(d, ch) = s
  <2>1. ch \notin {"CR", "LF", "SP", "TAB"}
    BY DEF Delimiters
  <2>2. FieldStart(e, ch) = s
    BY <2>1 DEF FieldStart
  <2>3. d = e \/ (d.state = "value_lws" /\ d.hs = "chunked")
    <3>1. CASE d.state = "value_lws" /\ d.hs = "chunked"
      BY <3>1
    <3>2. CASE ~(d.state = "value_lws" /\ d.hs = "chunked")
      <4>1. Flags(q) = d.flags
        BY <1>2, <3>2 DEF Flags
      <4>2. \A f \in Fields : d[f] = e[f]
        BY <1>3, <4>1 DEF Keeps, Fields
      <4>3. Whole(e)
        BY <1>0, <1>1 DEF Whole, Going
      <4> HIDE DEF e
      <4> QED
        BY <1>0, <4>2, <4>3, SameFields
    <3> QED
      BY <3>1, <3>2
  <2>4. CASE d.state = "field_start"
    <3>1. Step(d, ch) = FieldStart(d, ch)
      BY <2>4 DEF Step, UrlUnfinished, UrlFinished
    <3> QED
      BY <2>2, <2>3, <2>4, <3>1
  <2>5. CASE d.state = "value_discard_lws"
    <3>1. Step(d, ch) = FieldStart(d, ch)
      BY <2>1, <2>5 DEF Step, UrlUnfinished, UrlFinished, DiscardLws
    <3> QED
      BY <2>2, <2>3, <2>5, <3>1
  <2>6. CASE d.state = "value_lws"
    <3>1. e = [d EXCEPT !.flags = IF d.hs = "chunked" THEN @ \cup {"chunked"} ELSE @]
      BY <1>2, <2>6 DEF Flags
    <3>2. Step(d, ch) = FieldStart(e, ch)
      BY <2>1, <2>6, <3>1 DEF Step, UrlUnfinished, UrlFinished, ValueLws
    <3> QED
      BY <2>2, <3>2
  <2> QED
    BY <1>2, <2>4, <2>5, <2>6 DEF AtLine, LineStates
<1>5. e.field = q.field /\ e.value = q.value /\ e.headers = q.headers /\ e.len = q.len
  BY <1>2, <1>3 DEF Keeps, Fields
<1> HIDE DEF e
<1>6. /\ DOMAIN Flush(e) = Fields /\ Flush(e).value = <<>>
      /\ Keeps(e, Flush(e), {"headers", "field", "value"})
      /\ Flush(e).field = Flush(q).field /\ Flush(e).headers = Flush(q).headers
  BY <1>3, <1>5, FlushIs DEF AtLine, Going
<1> DEFINE f == Flush(e)
<1> HIDE DEF f
<1>7. s = [f EXCEPT !.field = Append(@, ch), !.word = <<ch>>, !.state = "field"]
  BY DEF OnHeaderField, f
<1> HIDE DEF s
<1>8. /\ DOMAIN s = Fields /\ s.state = "field" /\ s.word = <<ch>> /\ s.value = <<>>
      /\ s.field = Append(Flush(q).field, ch) /\ s.headers = Flush(q).headers
      /\ Keeps(f, s, {"field", "word", "state"})
  BY <1>6, <1>7 DEF f, Fields, Keeps
<1>9. Keeps(q, s, OfHeader)
  BY <1>1, <1>3, <1>6, <1>8 DEF Keeps, OfHeader, f
<1>10. s.flags = Flags(q) /\ s.len = q.len /\ s.nread = d.nread /\ s.errno = "ok" /\ s.complete = FALSE
  BY <1>3, <1>5, <1>6, <1>8 DEF Keeps, Fields, f, Going
<1>11. Going(s) /\ s.nread = q.nread + 1
  BY <1>1, <1>8, <1>10 DEF Going
<1>12. sure => d.nread <= MaxHeader
  BY <1>1 DEF Room
<1>13. Reads(sure, q, <<ch>>, s)
  <2>1. s.state # "headers_done"
    BY <1>8
  <2> QED
    BY <1>4, <1>8, <1>10, <1>12, <2>1, OneAtom DEF AtLine, d
<1>14. Append(Flush(q).field, ch) = Flush(q).field \o <<ch>>
  <2> DEFINE w == Flush(q).field
  <2>1. w \in Seq(Wire)
    BY FlushIs, EmptySeq DEF AtLine, Going
  <2> HIDE DEF w
  <2>2. Append(w, ch) = w \o <<ch>>
    BY <2>1, AppendIs
  <2> QED
    BY <2>2 DEF w
<1> QED
  BY <1>8, <1>9, <1>10, <1>11, <1>13, <1>14 DEF Moves, InName

(* Another one.                                                            *)
LEMMA NameOn ==
    ASSUME NEW sure \in BOOLEAN, NEW q, NEW r, NEW name \in Seq(Wire), NEW ch \in Wire \ Delimiters,
           AtLine(q), Going(r), InName(q, r, name), Room(sure, r, 1)
    PROVE  \E s : Moves(sure, r, <<ch>>, s, 1, OfHeader) /\ InName(q, s, name \o <<ch>>)
<1> DEFINE d == Counted(r)
           s == [d EXCEPT !.field = Append(@, ch), !.word = Append(@, ch)]
<1>1. Going(d) /\ Keeps(r, d, {"nread"}) /\ d.nread = r.nread + 1
  BY CountedIs DEF InName, ParsingHeader
<1> HIDE DEF d
<1>2. d.state = "field" /\ d.word = name /\ d.value = <<>> /\ d.field = Flush(q).field \o name
      /\ d.headers = Flush(q).headers /\ d.flags = Flags(q) /\ d.len = q.len
  BY <1>1 DEF Keeps, Fields, InName
<1>3. Step(d, ch) = s
  <2>1. ch \notin Delimiters /\ ch \notin {"CR", "LF", ":"}
    BY DEF Delimiters
  <2>2. Step(d, ch) = Field(d, ch)
    BY <1>2 DEF Step, UrlUnfinished, UrlFinished
  <2>3. Field(d, ch) = [OnHeaderField(d, ch) EXCEPT !.word = Append(@, ch)]
    BY <2>1 DEF Field
  <2>4. OnHeaderField(d, ch) = [d EXCEPT !.field = Append(@, ch)]
    BY <1>2 DEF OnHeaderField, Flush
  <2> QED
    BY <2>2, <2>3, <2>4
<1>4. Append(name, ch) = name \o <<ch>> /\ Append(d.field, ch) = Flush(q).field \o (name \o <<ch>>)
  <2> DEFINE w == Flush(q).field
  <2>1. w \in Seq(Wire)
    BY FlushIs, EmptySeq DEF AtLine, Going
  <2> HIDE DEF w
  <2>2. Append(name, ch) = name \o <<ch>> /\ w \o Append(name, ch) = Append(w \o name, ch)
    BY <2>1, AppendIs, ConcatGrows
  <2> QED
    BY <1>2, <2>2 DEF w
<1>5. /\ Going(s) /\ s.nread = r.nread + 1 /\ s.state = "field" /\ s.word = name \o <<ch>>
      /\ s.value = <<>> /\ s.field = Flush(q).field \o (name \o <<ch>>)
      /\ s.headers = Flush(q).headers /\ s.flags = Flags(q) /\ s.len = q.len
      /\ Keeps(d, s, OfHeader)
  BY <1>1, <1>2, <1>4 DEF Going, Keeps, Fields, OfHeader
<1> HIDE DEF s
<1>6. s.errno = "ok" /\ s.complete = FALSE /\ DOMAIN s = Fields /\ s.state # "headers_done"
  BY <1>5 DEF Going
<1>7. sure => d.nread <= MaxHeader
  BY <1>1 DEF Room
<1>8. Reads(sure, r, <<ch>>, s)
  BY <1>3, <1>6, <1>7, OneAtom DEF d
<1>9. Keeps(r, s, OfHeader)
  BY <1>1, <1>5 DEF Keeps, OfHeader
<1> QED
  BY <1>5, <1>8, <1>9 DEF Moves, InName

(* A name is read, behind what was there at the start of the line.         *)
LEMMA NameRead ==
    ASSUME NEW sure \in BOOLEAN, NEW q, NEW name \in Seq(Wire \ Delimiters), name # <<>>,
           AtLine(q), Room(sure, q, Len(name))
    PROVE  \E r : Moves(sure, q, name, r, Len(name), OfHeader) /\ InName(q, r, name)
<1> DEFINE A == Wire \ Delimiters
           V == OfHeader
<1>0. Going(q) /\ A \subseteq Wire
  BY DEF AtLine
<1>1. PICK n, pre : Beginnings(A, name, n, pre)
  BY BeginningsExist
<1> HIDE DEF A, V
<1>2. n \in Nat /\ n = Len(name) /\ pre[n] = name /\ n # 0
  <2>1. n \in Nat /\ n = Len(name) /\ pre[n] = name
    BY <1>1 DEF Beginnings
  <2> QED
    BY <2>1, EmptySeq
<1> DEFINE P(j, r) == Moves(sure, q, pre[j], r, j, V) /\ InName(q, r, pre[j])
           T == {j \in Nat : j + 1 <= n => \E r : P(j + 1, r)}
<1>3. 0 \in T
  <2> DEFINE ch == name[0 + 1]
             u == pre[0]
  <2>1. ch \in A /\ u = <<>> /\ u \in Seq(A) /\ pre[0 + 1] = Append(u, ch)
    BY <1>1, <1>2 DEF Beginnings
  <2> HIDE DEF ch, u
  <2>2. pre[0 + 1] = <<ch>>
    BY <2>1
  <2>3. Room(sure, q, 1)
    BY <1>0, <1>2, RoomLess
  <2>4. PICK r : Moves(sure, q, <<ch>>, r, 1, V) /\ InName(q, r, <<ch>>)
    BY <2>1, <2>3, NameStart DEF A, V
  <2>5. P(0 + 1, r)
    BY <2>2, <2>4
  <2> HIDE DEF P
  <2> QED
    BY <2>5
<1>4. ASSUME NEW k \in T PROVE k + 1 \in T
  <2> DEFINE j == k + 1
  <2> SUFFICES ASSUME j + 1 <= n PROVE \E r : P(j + 1, r)
    OBVIOUS
  <2>1. j \in Nat /\ j <= n /\ j + 1 <= n
    BY <1>2
  <2>2. PICK r : P(j, r)
    BY <2>1
  <2> HIDE DEF j, T
  <2> DEFINE ch == name[j + 1]
             u == pre[j]
  <2>3. ch \in A /\ u \in Seq(A) /\ pre[j + 1] = Append(u, ch)
    BY <1>1, <2>1 DEF Beginnings
  <2> HIDE DEF ch, u
  <2>4. pre[j + 1] = u \o <<ch>> /\ <<ch>> \in Seq(A) /\ u \in Seq(Wire)
    BY <1>0, <2>3, AppendIs, SeqWider
  <2>5. Moves(sure, q, u, r, j, V) /\ InName(q, r, u) /\ Going(r) /\ r.nread = q.nread + j
    BY <2>2 DEF Moves, u
  <2>6. Room(sure, r, 1)
    <3>1. Room(sure, r, n - j)
      BY <1>0, <1>2, <2>1, <2>5, RoomLeft
    <3>2. 1 <= n - j /\ n - j \in Nat
      BY <1>2, <2>1
    <3> QED
      BY <2>5, <3>1, <3>2, RoomLess
  <2>7. PICK s : Moves(sure, r, <<ch>>, s, 1, V) /\ InName(q, s, u \o <<ch>>)
    BY <2>3, <2>4, <2>5, <2>6, NameOn DEF A, V
  <2>8. Moves(sure, q, u \o <<ch>>, s, j + 1, V)
    BY <1>0, <2>1, <2>3, <2>4, <2>5, <2>7, MovesOn
  <2>9. P(j + 1, s)
    BY <2>4, <2>7, <2>8
  <2> HIDE DEF P
  <2> QED
    BY <2>9
<1>5. T = Nat
  <2>1. T \in SUBSET Nat
    OBVIOUS
  <2> HIDE DEF T
  <2> QED
    BY <1>3, <1>4, <2>1, Counting
<1> HIDE DEF P
<1>6. n - 1 \in Nat /\ (n - 1) + 1 = n /\ n <= n
  BY <1>2
<1>7. n - 1 \in T
  BY <1>5, <1>6
<1>8. PICK r : P(n, r)
  BY <1>6, <1>7
<1> QED
  BY <1>2, <1>8 DEF P, V

-----------------------------------------------------------------------------
(* The value of a header.                                                  *)

(* An atom of a header, as a move.                                         *)
LEMMA HeaderAtom ==
    ASSUME NEW sure \in BOOLEAN, NEW q, NEW ch, NEW s, NEW V, "nread" \in V, Going(q),
           ParsingHeader(q.state), Room(sure, q, 1),
           s = Step(Counted(q), ch), Going(s), s.nread = Counted(q).nread,
           Keeps(Counted(q), s, V), s.state # "headers_done"
    PROVE  Moves(sure, q, <<ch>>, s, 1, V)
<1>1. Keeps(q, Counted(q), {"nread"}) /\ Counted(q).nread = q.nread + 1
  BY CountedIs
<1>2. Reads(sure, q, <<ch>>, s)
  <2>1. sure => Counted(q).nread <= MaxHeader
    BY <1>1 DEF Room
  <2>2. s.errno = "ok" /\ s.complete = FALSE /\ DOMAIN s = Fields
    BY DEF Going
  <2> QED
    BY <2>1, <2>2, OneAtom
<1>3. Keeps(q, s, V)
  BY <1>1 DEF Keeps
<1> QED
  BY <1>1, <1>2, <1>3 DEF Moves

(* An atom that only takes the automaton to the next state, as a move.     *)
LEMMA MoveAtom ==
    ASSUME NEW sure \in BOOLEAN, NEW q, NEW ch, NEW to, NEW V, {"state", "nread"} \subseteq V, Going(q),
           ParsingHeader(q.state), Room(sure, q, 1),
           \A d : Keeps(q, d, {"nread"}) => Step(d, ch) = Go(d, to), to # "headers_done"
    PROVE  \E r : /\ Moves(sure, q, <<ch>>, r, 1, V) /\ r.state = to
                  /\ Keeps(q, r, {"state", "nread"})
<1>1. Step(Counted(q), ch) = Go(Counted(q), to)
  BY CountedIs
<1>2. PICK r : /\ Reads(sure, q, <<ch>>, r) /\ Going(r) /\ r.state = to /\ r.nread = q.nread + 1
               /\ Keeps(q, r, {"state", "nread"})
  BY <1>1, GoAtom
<1> QED
  BY <1>2 DEF Moves, Keeps

(* Two atoms in a row.                                                     *)
LEMMA MovesTwo ==
    ASSUME NEW sure \in BOOLEAN, NEW q, NEW a, NEW b, NEW t, NEW r, NEW V, Going(q),
           Moves(sure, q, <<a>>, t, 1, V), Moves(sure, t, <<b>>, r, 1, V)
    PROVE  Moves(sure, q, <<a, b>>, r, 2, V)
<1> DEFINE A == {a, b}
           x == <<a>>
           y == <<b>>
<1>1. x \in Seq(A) /\ y \in Seq(A) /\ x \o y = <<a, b>> /\ 1 \in Nat /\ 1 + 1 = 2
  BY PairIs
<1> HIDE DEF A, x, y
<1>2. Moves(sure, q, x, t, 1, V) /\ Moves(sure, t, y, r, 1, V)
  BY DEF x, y
<1>3. Moves(sure, q, x \o y, r, 1 + 1, V)
  BY <1>1, <1>2, MovesOn
<1> QED
  BY <1>1, <1>3

(* What a value changes.                                                   *)
OfValue == {"state", "nread", "hs", "flags", "len", "value"}

(* The room behind one of n atoms.                                         *)
LEMMA RoomNext ==
    ASSUME NEW sure \in BOOLEAN, NEW q, NEW data, NEW r, NEW V, NEW n \in Nat, NEW i \in Nat, i <= n,
           Going(q), Room(sure, q, n), Moves(sure, q, data, r, i, V)
    PROVE  Room(sure, r, n - i)
BY RoomLeft DEF Moves

(* The colon and the space behind a name.                                  *)
LEMMA ColonRead ==
    ASSUME NEW sure \in BOOLEAN, NEW q, NEW t, NEW name, Going(t), InName(q, t, name), Room(sure, t, 2)
    PROVE  \E r : /\ Moves(sure, t, <<":", "SP">>, r, 2, {"state", "nread", "hs"})
                  /\ r.state = "value_discard_ws" /\ r.hs = HeaderState(name)
<1> DEFINE d == Counted(t)
           s == [d EXCEPT !.hs = HeaderState(name), !.state = "value_discard_ws"]
           co == ":"
           sp == "SP"
           to == "value_discard_ws"
           V == {"state", "nread", "hs"}
<1>1. Going(d) /\ Keeps(t, d, {"nread"}) /\ d.nread = t.nread + 1
  BY CountedIs DEF InName, ParsingHeader
<1> HIDE DEF d
<1>2. d.state = "field" /\ d.word = name
  BY <1>1 DEF Keeps, Fields, InName
<1>3. s = Step(d, co)
  BY <1>2 DEF Step, UrlUnfinished, UrlFinished, Field, Go, Delimiters
<1>4. Going(s) /\ s.nread = d.nread /\ Keeps(d, s, V) /\ s.state = to /\ s.hs = HeaderState(name)
  BY <1>1 DEF Going, Keeps, Fields
<1>5. ParsingHeader(t.state) /\ Room(sure, t, 1) /\ "nread" \in V
  BY RoomLess DEF InName, ParsingHeader
<1> HIDE DEF s
<1>6. Moves(sure, t, <<co>>, s, 1, V)
  <2>1. s.state # "headers_done"
    BY <1>4
  <2> HIDE DEF co, V
  <2> QED
    BY <1>3, <1>4, <1>5, <2>1, HeaderAtom DEF d
<1>7. Room(sure, s, 1)
  <2>1. Room(sure, s, 2 - 1)
    BY <1>6, RoomNext
  <2> QED
    BY <2>1
<1>8. PICK r : Moves(sure, s, <<sp>>, r, 1, V) /\ r.state = to /\ Keeps(s, r, {"state", "nread"})
  <2>1. ASSUME NEW e, Keeps(s, e, {"nread"}) PROVE Step(e, sp) = e
    <3>1. e.state = to
      BY <1>4, <2>1 DEF Keeps, Fields
    <3> QED
      BY <3>1 DEF Step, UrlUnfinished, UrlFinished, DiscardWs
  <2> DEFINE e == Counted(s)
  <2>2. Going(e) /\ Keeps(s, e, {"nread"})
    BY <1>4, CountedIs
  <2>3. ParsingHeader(s.state) /\ "nread" \in V
    BY <1>4 DEF ParsingHeader
  <2>4. e = Step(e, sp)
    BY <2>1, <2>2
  <2>5. e.state = to
    BY <1>4, <2>2 DEF Keeps, Fields
  <2>6. Keeps(e, e, V) /\ e.state # "headers_done" /\ Keeps(s, e, {"state", "nread"})
    BY <2>2, <2>5 DEF Keeps
  <2>7. Moves(sure, s, <<sp>>, e, 1, V)
    <3> HIDE DEF sp, V
    <3> QED
      BY <1>4, <1>7, <2>2, <2>3, <2>4, <2>6, HeaderAtom
  <2> QED
    BY <2>5, <2>6, <2>7
<1>9. r.hs = HeaderState(name)
  BY <1>4, <1>8 DEF Keeps, Fields
<1>10. Moves(sure, t, <<co, sp>>, r, 2, V)
  <2> HIDE DEF co, sp, V
  <2> QED
    BY <1>6, <1>8, MovesTwo
<1> QED
  BY <1>8, <1>9, <1>10

(* The end of the line behind a value, and of one without a value.         *)
LEMMA ValueEnd ==
    ASSUME NEW sure \in BOOLEAN, NEW q, Going(q), q.state \in {"value", "value_discard_ws"},
           Room(sure, q, 2)
    PROVE  \E r : /\ Moves(sure, q, CRLF, r, 2, {"state", "nread"})
                  /\ r.state = IF q.state = "value" THEN "value_lws" ELSE "value_discard_lws"
<1> DEFINE V == {"state", "nread"}
           cr == "CR"
           lf == "LF"
           a == IF q.state = "value" THEN "header_almost_done" ELSE "value_discard_ws_almost_done"
           b == IF q.state = "value" THEN "value_lws" ELSE "value_discard_lws"
<1>1. PICK t : Moves(sure, q, <<cr>>, t, 1, V) /\ t.state = a
  <2>1. ASSUME NEW d, Keeps(q, d, {"nread"}) PROVE Step(d, cr) = Go(d, a)
    <3>1. d.state = q.state
      BY <2>1 DEF Keeps, Fields
    <3> QED
      BY <3>1 DEF Step, UrlUnfinished, UrlFinished, Value, DiscardWs, Digits
  <2>2. ParsingHeader(q.state) /\ Room(sure, q, 1) /\ a # "headers_done" /\ {"state", "nread"} \subseteq V
    BY RoomLess DEF ParsingHeader
  <2> HIDE DEF cr, V, a
  <2> QED
    BY <2>1, <2>2, MoveAtom
<1>2. PICK r : Moves(sure, t, <<lf>>, r, 1, V) /\ r.state = b
  <2>1. ASSUME NEW d, Keeps(t, d, {"nread"}) PROVE Step(d, lf) = Go(d, b)
    <3>1. d.state = a
      BY <1>1, <2>1 DEF Keeps, Fields
    <3> QED
      BY <3>1 DEF Step, UrlUnfinished, UrlFinished, Expect
  <2>2. ParsingHeader(t.state) /\ b # "headers_done" /\ {"state", "nread"} \subseteq V
    BY <1>1 DEF ParsingHeader
  <2>3. Room(sure, t, 1)
    <3>1. Room(sure, t, 2 - 1)
      BY <1>1, RoomNext
    <3> QED
      BY <3>1
  <2>4. Going(t)
    BY <1>1 DEF Moves
  <2> HIDE DEF lf, V, b
  <2> QED
    BY <2>1, <2>2, <2>3, <2>4, MoveAtom
<1>3. Moves(sure, q, <<cr, lf>>, r, 2, V)
  <2> HIDE DEF cr, lf, V, a, b
  <2> QED
    BY <1>1, <1>2, MovesTwo
<1> QED
  BY <1>2, <1>3 DEF CRLF

(* The flag that a value brings at once, and the state it is read in.      *)
Flagged(hs) == IF hs = "upgrade" THEN {"upgrade"} ELSE {}

(* The first atom of a value is in r; and which atoms may be the first.    *)
ValueStarted(q, r, ch) ==
    /\ r.state = "value" /\ r.value = <<ch>> /\ r.flags = q.flags \cup Flagged(q.hs)
    /\ r.hs = IF q.hs = "transfer_encoding" THEN "matching_chunked"
              ELSE IF q.hs = "content_length" THEN "content_length" ELSE "general"
    /\ r.len = IF q.hs = "content_length" THEN Digits[ch] ELSE q.len
ValueDue(q, ch) ==
    /\ q.state = "value_discard_ws" /\ q.value = <<>> /\ ch \notin {"SP", "TAB", "CR", "LF"}
    /\ \/ q.hs \in {"general", "upgrade"}
       \/ q.hs = "transfer_encoding" /\ ch = "chun"
       \/ q.hs = "content_length" /\ ch \in DOMAIN Digits

(* The first atom of a value is read.                                      *)
LEMMA ValueFirst ==
    ASSUME NEW sure \in BOOLEAN, NEW q, NEW ch, Going(q), Room(sure, q, 1), ValueDue(q, ch)
    PROVE  \E r : Moves(sure, q, <<ch>>, r, 1, OfValue) /\ ValueStarted(q, r, ch)
<1> USE DEF ValueDue
<1> DEFINE d == Counted(q)
           s == ValueStart(d, ch)
           kind == IF q.hs = "transfer_encoding" THEN "matching_chunked"
                   ELSE IF q.hs = "content_length" THEN "content_length" ELSE "general"
           n == IF q.hs = "content_length" THEN Digits[ch] ELSE q.len
<1>1. Going(d) /\ Keeps(q, d, {"nread"}) /\ d.nread = q.nread + 1
  BY CountedIs DEF ParsingHeader
<1> HIDE DEF d
<1>2. d.state = q.state /\ d.value = <<>> /\ d.hs = q.hs /\ d.len = q.len /\ d.flags = q.flags
  BY <1>1 DEF Keeps, Fields
<1>3. Step(d, ch) = s
  <2> HIDE DEF s
  <2>1. Step(d, ch) = DiscardWs(d, ch)
    BY <1>2 DEF Step, UrlUnfinished, UrlFinished
  <2> QED
    BY <2>1 DEF DiscardWs, s
<1>5. /\ Going(s) /\ s.nread = d.nread /\ Keeps(d, s, OfValue)
      /\ s.state = "value" /\ s.value = Append(<<>>, ch) /\ s.flags = q.flags \cup Flagged(q.hs)
      /\ s.hs = kind /\ s.len = n
  <2> DEFINE r == [d EXCEPT !.state = "value", !.value = Append(@, ch), !.hs = "general"]
  <2>0. /\ Going(r) /\ r.nread = d.nread /\ Keeps(d, r, OfValue) /\ r.flags = q.flags
        /\ r.state = "value" /\ r.value = Append(<<>>, ch) /\ r.hs = "general" /\ r.len = q.len
    BY <1>1, <1>2 DEF Going, Keeps, Fields, OfValue
  <2>1. CASE q.hs = "upgrade"
    <3>1. s = [r EXCEPT !.flags = @ \cup {"upgrade"}]
      BY <1>2, <2>1 DEF ValueStart
    <3> HIDE DEF s, r
    <3> QED
      BY <2>0, <2>1, <3>1 DEF Going, Keeps, Fields, OfValue, Flagged
  <2>2. CASE q.hs = "general"
    <3>1. s = r
      BY <1>2, <2>2 DEF ValueStart
    <3> HIDE DEF s, r
    <3> QED
      BY <2>0, <2>2, <3>1 DEF Going, Keeps, Fields, OfValue, Flagged
  <2>3. CASE q.hs = "transfer_encoding" /\ ch = "chun"
    <3>1. s = [r EXCEPT !.hs = "matching_chunked"]
      BY <1>2, <2>3 DEF ValueStart
    <3> HIDE DEF s, r
    <3> QED
      BY <2>0, <2>3, <3>1 DEF Going, Keeps, Fields, OfValue, Flagged
  <2>4. CASE q.hs = "content_length" /\ ch \in DOMAIN Digits
    <3>1. s = [r EXCEPT !.hs = "content_length", !.len = Digits[ch]]
      BY <1>2, <2>4 DEF ValueStart
    <3> HIDE DEF s, r
    <3> QED
      BY <2>0, <2>4, <3>1 DEF Going, Keeps, Fields, OfValue, Flagged
  <2> QED
    BY <2>1, <2>2, <2>3, <2>4
<1> HIDE DEF s, kind, n
<1>6. ParsingHeader(q.state) /\ "nread" \in OfValue /\ s.state # "headers_done"
  BY <1>5 DEF ParsingHeader, OfValue
<1>7. Moves(sure, q, <<ch>>, s, 1, OfValue)
  BY <1>3, <1>5, <1>6, HeaderAtom DEF d
<1>8. Append(<<>>, ch) = <<ch>>
  OBVIOUS
<1> QED
  BY <1>5, <1>7, <1>8 DEF kind, n, ValueStarted

(* An atom that may be the next of a value; and what it leaves in r.       *)
MoreDue(q, ch) ==
    /\ q.state = "value" /\ ch \notin {"CR", "LF"}
    /\ q.hs = "general" \/ (q.hs = "matching_chunked" /\ ch = "ked")
ValueGrown(q, r, ch) ==
    /\ r.state = "value" /\ r.value = Append(q.value, ch)
    /\ r.hs = IF q.hs = "general" THEN "general" ELSE "chunked"
    /\ r.flags = q.flags /\ r.len = q.len

(* The next atom of a value is read.                                       *)
LEMMA ValueNext ==
    ASSUME NEW sure \in BOOLEAN, NEW q, NEW ch, Going(q), Room(sure, q, 1), MoreDue(q, ch)
    PROVE  \E r : Moves(sure, q, <<ch>>, r, 1, OfValue) /\ ValueGrown(q, r, ch)
<1> USE DEF MoreDue
<1> DEFINE d == Counted(q)
           kind == IF q.hs = "general" THEN "general" ELSE "chunked"
           s == [d EXCEPT !.value = Append(@, ch), !.hs = kind]
<1>1. Going(d) /\ Keeps(q, d, {"nread"}) /\ d.nread = q.nread + 1
  BY CountedIs DEF ParsingHeader
<1> HIDE DEF d
<1>2. d.state = q.state /\ d.value = q.value /\ d.hs = q.hs /\ d.len = q.len /\ d.flags = q.flags
  BY <1>1 DEF Keeps, Fields
<1>3. Step(d, ch) = Value(d, ch)
  BY <1>2 DEF Step, UrlUnfinished, UrlFinished
<1>4. Value(d, ch) = s
  <2>1. CASE q.hs = "general"
    BY <1>2, <2>1 DEF Value
  <2>2. CASE q.hs = "matching_chunked" /\ ch = "ked"
    BY <1>2, <2>2 DEF Value
  <2> QED
    BY <2>1, <2>2
<1>5. /\ Going(s) /\ s.nread = d.nread /\ Keeps(d, s, OfValue)
      /\ s.state = "value" /\ s.value = Append(q.value, ch) /\ s.flags = q.flags
      /\ s.hs = kind /\ s.len = q.len
  BY <1>1, <1>2 DEF Going, Keeps, Fields, OfValue
<1> HIDE DEF s, kind
<1>6. ParsingHeader(q.state) /\ "nread" \in OfValue /\ s.state # "headers_done"
  BY <1>5 DEF ParsingHeader, OfValue
<1>7. Moves(sure, q, <<ch>>, s, 1, OfValue)
  BY <1>3, <1>4, <1>5, <1>6, HeaderAtom DEF d
<1> QED
  BY <1>5, <1>7 DEF kind, ValueGrown

(* A folded line: three atoms, one of which belongs to the value.          *)
LEMMA FoldRead ==
    ASSUME NEW sure \in BOOLEAN, NEW q, Going(q), q.state = "value", q.hs = "general", Room(sure, q, 3)
    PROVE  \E r : /\ Moves(sure, q, CRLF \o <<"SP">>, r, 3, OfValue)
                  /\ r.state = "value" /\ r.value = Append(q.value, "SP") /\ r.hs = "general"
                  /\ r.flags = q.flags /\ r.len = q.len
<1> DEFINE crlf == CRLF
           sp == "SP"
           x == <<sp>>
<1>1. PICK t : Moves(sure, q, CRLF, t, 2, {"state", "nread"}) /\ t.state = "value_lws"
  <2>1. Room(sure, q, 2)
    BY RoomLess
  <2> QED
    BY <2>1, ValueEnd
<1>2. Moves(sure, q, CRLF, t, 2, OfValue) /\ Going(t)
  BY <1>1 DEF Moves, OfValue, Keeps
<1>3. t.value = q.value /\ t.hs = "general" /\ t.flags = q.flags /\ t.len = q.len
  BY <1>1 DEF Moves, Keeps, Fields
<1>4. Room(sure, t, 1)
  <2>1. Room(sure, t, 3 - 2)
    BY <1>2, RoomNext
  <2> QED
    BY <2>1
<1>5. \E r : /\ Moves(sure, t, x, r, 1, OfValue)
             /\ r.state = "value" /\ r.value = Append(q.value, sp) /\ r.hs = "general"
             /\ r.flags = q.flags /\ r.len = q.len
  <2> DEFINE d == Counted(t)
             s == [d EXCEPT !.state = "value", !.value = Append(@, sp), !.hs = "general"]
  <2>1. Going(d) /\ Keeps(t, d, {"nread"}) /\ d.nread = t.nread + 1
    BY <1>1, <1>2, CountedIs DEF ParsingHeader
  <2> HIDE DEF d
  <2>2. d.state = "value_lws" /\ d.value = q.value /\ d.hs = "general" /\ d.len = q.len /\ d.flags = q.flags
    BY <1>1, <1>3, <2>1 DEF Keeps, Fields
  <2>3. Step(d, sp) = s
    <3>1. Step(d, sp) = ValueStart(d, sp)
      BY <2>2 DEF Step, UrlUnfinished, UrlFinished, ValueLws
    <3> QED
      BY <2>2, <3>1 DEF ValueStart
  <2>5. /\ Going(s) /\ s.nread = d.nread /\ Keeps(d, s, OfValue)
        /\ s.state = "value" /\ s.value = Append(q.value, sp) /\ s.flags = q.flags
        /\ s.hs = "general" /\ s.len = q.len
    BY <2>1, <2>2 DEF Going, Keeps, Fields, OfValue
  <2> HIDE DEF s
  <2>6. ParsingHeader(t.state) /\ "nread" \in OfValue /\ s.state # "headers_done"
    BY <1>1, <2>5 DEF ParsingHeader, OfValue
  <2>7. Moves(sure, t, <<sp>>, s, 1, OfValue)
    <3> HIDE DEF sp
    <3> QED
      BY <1>2, <1>4, <2>3, <2>5, <2>6, HeaderAtom DEF d
  <2> QED
    BY <2>5, <2>7
<1>6. PICK r : /\ Moves(sure, t, x, r, 1, OfValue)
               /\ r.state = "value" /\ r.value = Append(q.value, sp) /\ r.hs = "general"
               /\ r.flags = q.flags /\ r.len = q.len
  BY <1>5
<1>7. crlf \in Seq({"CR", "LF", "SP"}) /\ x \in Seq({"CR", "LF", "SP"}) /\ 2 + 1 = 3
  BY DEF CRLF
<1> HIDE DEF crlf, x, sp
<1>8. Moves(sure, q, crlf \o x, r, 2 + 1, OfValue)
  BY <1>2, <1>6, <1>7, MovesOn DEF crlf
<1> QED
  BY <1>6, <1>7, <1>8 DEF crlf, x, sp

(* A function that never falls.                                            *)
LEMMA Climbs ==
    ASSUME NEW f, NEW n \in Nat, \A i \in Nat : i <= n => f[i] \in Nat,
           \A i \in Nat : i + 1 <= n => f[i] <= f[i + 1], NEW j \in Nat, j <= n
    PROVE  f[j] <= f[n]
<1> DEFINE T == {i \in Nat : j + i <= n => f[j] <= f[j + i]}
<1>1. 0 \in T
  OBVIOUS
<1>2. ASSUME NEW i \in T PROVE i + 1 \in T
  <2> SUFFICES ASSUME j + (i + 1) <= n PROVE f[j] <= f[j + (i + 1)]
    OBVIOUS
  <2> DEFINE k == j + i
  <2>1. k \in Nat /\ k + 1 <= n /\ k <= n /\ j + (i + 1) = k + 1 /\ f[j] <= f[k]
    OBVIOUS
  <2> HIDE DEF k, T
  <2>2. f[k] <= f[k + 1] /\ f[k] \in Nat /\ f[j] \in Nat /\ f[k + 1] \in Nat
    BY <2>1
  <2> QED
    BY <2>1, <2>2
<1>3. T = Nat
  <2>1. T \in SUBSET Nat
    OBVIOUS
  <2> HIDE DEF T
  <2> QED
    BY <1>1, <1>2, <2>1, Counting
<1>4. n - j \in Nat /\ j + (n - j) = n /\ n <= n
  OBVIOUS
<1>5. n - j \in T
  BY <1>3, <1>4
<1> QED
  BY <1>4, <1>5

(* A fold, or one more atom of a value.                                    *)
Piecewise(atom, by) == IF atom = "fold" THEN by ELSE <<atom>>

(* The beginnings of a value are not longer than the value.                *)
LEMMA FoldsClimb ==
    ASSUME NEW A, NEW v \in Seq(A \cup {"fold"}), NEW by \in Seq(A), NEW n, NEW flat,
           Folds(A, v, by, n, flat), NEW j \in Nat, j + 1 <= n
    PROVE  /\ Len(flat[j]) + Len(Piecewise(v[j + 1], by)) <= Len(flat[n])
           /\ Len(flat[j + 1]) = Len(flat[j]) + Len(Piecewise(v[j + 1], by))
           /\ Piecewise(v[j + 1], by) \in Seq(A)
<1> DEFINE f == [i \in Nat |-> Len(flat[i])]
           B == A \cup {"fold"}
<1>0. n \in Nat /\ n = Len(v) /\ v \in Seq(B)
  BY DEF Folds
<1>1. ASSUME NEW i \in Nat, i + 1 <= n
      PROVE  /\ Piecewise(v[i + 1], by) \in Seq(A) /\ flat[i] \in Seq(A)
             /\ Len(flat[i + 1]) = Len(flat[i]) + Len(Piecewise(v[i + 1], by))
  <2> DEFINE x == v[i + 1]
             y == Piecewise(x, by)
             u == flat[i]
  <2>1. x \in B
    <3>1. i + 1 \in 1 .. n
      BY <1>0, <1>1
    <3> HIDE DEF B
    <3> QED
      BY <1>0, <3>1, ElementOfSeq
  <2>2. u \in Seq(A) /\ flat[i + 1] = u \o y
    <3>1. u \in Seq(A)
      BY <1>0, <1>1 DEF Folds
    <3>2. flat[i + 1] = flat[i] \o IF v[i + 1] = "fold" THEN by ELSE <<v[i + 1]>>
      BY <1>1 DEF Folds
    <3>3. y = IF v[i + 1] = "fold" THEN by ELSE <<v[i + 1]>>
      BY DEF Piecewise
    <3> QED
      BY <3>1, <3>2, <3>3
  <2> HIDE DEF x, u
  <2>3. y \in Seq(A)
    <3>1. CASE x = "fold"
      BY <3>1 DEF Piecewise
    <3>2. CASE x # "fold"
      <4>1. x \in A
        BY <2>1, <3>2
      <4>2. <<x>> \in Seq(A)
        BY <4>1
      <4> QED
        BY <3>2, <4>2 DEF Piecewise
    <3> QED
      BY <3>1, <3>2
  <2> HIDE DEF y
  <2>4. Len(u \o y) = Len(u) + Len(y)
    BY <2>2, <2>3, ConcatProperties
  <2> QED
    BY <2>2, <2>3, <2>4 DEF x, y, u
<1>2. \A i \in Nat : i <= n => f[i] \in Nat
  <2> SUFFICES ASSUME NEW i \in Nat, i <= n PROVE f[i] \in Nat
    OBVIOUS
  <2>1. flat[i] \in Seq(A)
    BY DEF Folds
  <2> QED
    BY <2>1, LenProperties
<1>3. \A i \in Nat : i + 1 <= n => f[i] <= f[i + 1]
  <2> SUFFICES ASSUME NEW i \in Nat, i + 1 <= n PROVE f[i] <= f[i + 1]
    OBVIOUS
  <2>1. /\ Len(Piecewise(v[i + 1], by)) \in Nat /\ Len(flat[i]) \in Nat
        /\ Len(flat[i + 1]) = Len(flat[i]) + Len(Piecewise(v[i + 1], by))
    BY <1>1, LenProperties
  <2>2. f[i] = Len(flat[i]) /\ f[i + 1] = Len(flat[i + 1])
    OBVIOUS
  <2> HIDE DEF f
  <2>3. PICK a \in Nat, b \in Nat : f[i] = a /\ f[i + 1] = a + b
    BY <2>1, <2>2
  <2> QED
    BY <2>3
<1>4. \A i \in Nat : f[i] = Len(flat[i])
  OBVIOUS
<1> HIDE DEF f
<1>5. j + 1 \in Nat /\ f[j + 1] <= f[n]
  <2> DEFINE k == j + 1
  <2>1. k \in Nat /\ k <= n
    OBVIOUS
  <2> HIDE DEF k
  <2>2. f[k] <= f[n]
    BY <1>0, <1>2, <1>3, <2>1, Climbs
  <2> QED
    BY <2>1, <2>2 DEF k
<1> QED
  BY <1>0, <1>1, <1>4, <1>5

(* A folded line on the wire, and the atoms of a value.                    *)
Raw == CRLF \o <<"SP">>
ValueAtoms == (Atoms \ {"CR", "LF"}) \cup {"fold"}

(* The atoms that are named in this proof are those of the wire.           *)
LEMMA WireIs ==
    /\ Atoms \subseteq Wire /\ ValueAtoms \subseteq Wire \cup {"fold"}
    /\ Raw \in Seq(Wire) /\ Len(Raw) = 3 /\ <<"SP">> \in Seq(Wire) /\ Len(<<"SP">>) = 1
    /\ CRLF \in Seq(Wire) /\ Len(CRLF) = 2
    /\ DOMAIN Digits \subseteq Wire /\ "fold" \notin DOMAIN Digits
    /\ Raw = CRLF \o <<"SP">>
<1>1. Atoms \subseteq Wire /\ ValueAtoms \subseteq Wire \cup {"fold"}
  BY DEF Wire, ValueAtoms
<1>2. "SP" \in Wire /\ "CR" \in Wire /\ "LF" \in Wire
  BY DEF Wire, Delimiters
<1>3. <<"SP">> \in Seq(Wire) /\ Len(<<"SP">>) = 1
  BY <1>2
<1>4. CRLF \in Seq(Wire) /\ Len(CRLF) = 2
  BY <1>2 DEF CRLF
<1>5. Raw \in Seq(Wire) /\ Len(Raw) = 3
  <2> DEFINE x == <<"SP">>
  <2>1. x \in Seq(Wire) /\ Len(x) = 1
    BY <1>3
  <2> HIDE DEF x
  <2>2. CRLF \o x \in Seq(Wire) /\ Len(CRLF \o x) = Len(CRLF) + Len(x)
    BY <1>4, <2>1, ConcatProperties
  <2>3. Len(CRLF) + Len(x) = 3
    BY <1>4, <2>1
  <2> QED
    BY <2>2, <2>3 DEF Raw, x
<1>6. DOMAIN Digits = {"0", "1", "2", "9"}
  BY DEF Digits
<1>7. DOMAIN Digits \subseteq Wire
  BY <1>6 DEF Wire
<1> QED
  BY <1>1, <1>3, <1>4, <1>5, <1>6, <1>7 DEF Raw

(* One atom behind nothing.                                                *)
LEMMA OneMore ==
    ASSUME NEW A, NEW u \in Seq(A), Len(u) = 0, NEW x
    PROVE  u \o <<x>> = <<x>> /\ Len(<<x>>) = 1
OBVIOUS

(* A value of a header that the parser does not look into.                 *)
LEMMA PlainRead ==
    ASSUME NEW sure \in BOOLEAN, NEW q, NEW v \in Seq(ValueAtoms), v # <<>>, Going(q),
           v[1] \notin {"SP", "TAB", "fold"}, q.hs \in {"general", "upgrade"},
           q.state = "value_discard_ws", q.value = <<>>, Room(sure, q, Len(Folded(v, Raw)))
    PROVE  \E r : /\ Moves(sure, q, Folded(v, Raw), r, Len(Folded(v, Raw)), OfValue)
                  /\ r.state = "value" /\ r.hs = "general" /\ r.value = Folded(v, <<"SP">>)
                  /\ r.flags = q.flags \cup Flagged(q.hs) /\ r.len = q.len
<1> DEFINE B == Wire \cup {"fold"}
           sp == "SP"
           by == <<sp>>
           V == OfValue
<1>0. v \in Seq(B) /\ by \in Seq(Wire) /\ Raw \in Seq(Wire)
  BY WireIs, SeqWider
<1>1. PICK n, raw : Folds(Wire, v, Raw, n, raw)
  BY <1>0, FoldsExists
<1>2. PICK k, cut : Folds(Wire, v, by, k, cut)
  BY <1>0, FoldsExists
<1>3. n \in Nat /\ n = Len(v) /\ k = n /\ raw[n] = Folded(v, Raw) /\ cut[n] = Folded(v, by) /\ n # 0
  <2>1. n \in Nat /\ n = Len(v) /\ k = Len(v) /\ raw[n] = Folded(v, Raw) /\ cut[k] = Folded(v, by)
    BY <1>1, <1>2 DEF Folds
  <2> HIDE DEF by
  <2> QED
    BY <2>1, EmptySeq
<1> DEFINE P(j, r) == /\ Moves(sure, q, raw[j], r, Len(raw[j]), V)
                      /\ r.state = "value" /\ r.hs = "general" /\ r.value = cut[j]
                      /\ r.flags = q.flags \cup Flagged(q.hs) /\ r.len = q.len
           T == {j \in Nat : j + 1 <= n => \E r : P(j + 1, r)}
<1>4. ASSUME NEW j \in Nat, j + 1 <= n
      PROVE  /\ raw[j] \in Seq(Wire) /\ cut[j] \in Seq(Wire)
             /\ raw[j + 1] = raw[j] \o Piecewise(v[j + 1], Raw)
             /\ cut[j + 1] = cut[j] \o Piecewise(v[j + 1], by)
             /\ v[j + 1] \in ValueAtoms
  <2>1. v[j + 1] \in ValueAtoms
    <3>1. j + 1 \in 1 .. n
      BY <1>3, <1>4
    <3> HIDE DEF B
    <3> QED
      BY <1>3, <3>1, ElementOfSeq
  <2>2. j <= n
    BY <1>3, <1>4
  <2>3. raw[j + 1] = raw[j] \o IF v[j + 1] = "fold" THEN Raw ELSE <<v[j + 1]>>
    BY <1>1, <1>4 DEF Folds
  <2>4. cut[j + 1] = cut[j] \o IF v[j + 1] = "fold" THEN by ELSE <<v[j + 1]>>
    BY <1>2, <1>3, <1>4 DEF Folds
  <2> HIDE DEF by
  <2>5. raw[j] \in Seq(Wire) /\ cut[j] \in Seq(Wire)
    BY <1>1, <1>2, <1>3, <2>2 DEF Folds
  <2> QED
    BY <2>1, <2>3, <2>4, <2>5 DEF Piecewise
<1>5. raw[0] \in Seq(Wire) /\ Len(raw[0]) = 0 /\ cut[0] \in Seq(Wire) /\ Len(cut[0]) = 0
  BY <1>1, <1>2 DEF Folds
<1>6. 0 \in T
  <2> DEFINE ch == v[1]
             u == raw[0]
             w == cut[0]
  <2>1. 0 + 1 = 1 /\ 1 <= n /\ 0 \in Nat
    BY <1>3
  <2>2. ch \in ValueAtoms /\ ch # "fold" /\ raw[1] = u \o Piecewise(ch, Raw) /\ cut[1] = w \o Piecewise(ch, by)
    BY <1>4, <2>1
  <2>3. Len(u) + Len(Piecewise(ch, Raw)) <= Len(raw[n])
    <3>1. Len(raw[0]) + Len(Piecewise(v[0 + 1], Raw)) <= Len(raw[n])
      BY <1>0, <1>1, <2>1, FoldsClimb
    <3> QED
      BY <2>1, <3>1
  <2>4. u \in Seq(Wire) /\ Len(u) = 0 /\ w \in Seq(Wire) /\ Len(w) = 0
    BY <1>5
  <2>5. ch \notin {"SP", "TAB", "CR", "LF"}
    BY <2>2 DEF ValueAtoms
  <2> HIDE DEF u, w, ch, by
  <2>6. raw[1] = <<ch>> /\ cut[1] = <<ch>> /\ Len(<<ch>>) = 1 /\ Piecewise(ch, Raw) = <<ch>>
    BY <2>2, <2>4, OneMore DEF Piecewise
  <2>7. Room(sure, q, 1)
    <3>1. Len(raw[n]) \in Nat /\ 1 <= Len(raw[n])
      <4>1. raw[n] \in Seq(Wire)
        BY <1>1, <1>3 DEF Folds
      <4>2. Len(raw[n]) \in Nat
        BY <4>1, LenProperties
      <4> QED
        BY <2>3, <2>4, <2>6, <4>2
    <3> QED
      BY <1>3, <3>1, RoomLess
  <2>8. PICK r : Moves(sure, q, <<ch>>, r, 1, V) /\ ValueStarted(q, r, ch)
    <3>1. ValueDue(q, ch)
      BY <2>5 DEF ValueDue
    <3> QED
      BY <2>7, <3>1, ValueFirst
  <2>9. /\ r.state = "value" /\ r.value = <<ch>> /\ r.flags = q.flags \cup Flagged(q.hs)
        /\ r.hs = "general" /\ r.len = q.len
    BY <2>8 DEF ValueStarted
  <2>10. P(1, r)
    BY <2>6, <2>8, <2>9
  <2> HIDE DEF P
  <2> QED
    BY <2>1, <2>10
<1>7. ASSUME NEW i \in T PROVE i + 1 \in T
  <2> DEFINE j == i + 1
  <2> SUFFICES ASSUME j + 1 <= n PROVE \E r : P(j + 1, r)
    OBVIOUS
  <2>1. j \in Nat /\ j <= n /\ j + 1 <= n
    BY <1>3
  <2>2. PICK r : P(j, r)
    BY <2>1
  <2> HIDE DEF j, T
  <2> DEFINE ch == v[j + 1]
             u == raw[j]
             w == cut[j]
             x == Piecewise(ch, Raw)
             y == Piecewise(ch, by)
             a == Len(u)
             b == Len(x)
  <2>3. ch \in ValueAtoms /\ u \in Seq(Wire) /\ w \in Seq(Wire) /\ raw[j + 1] = u \o x /\ cut[j + 1] = w \o y
    BY <1>4, <2>1
  <2>4. /\ Len(raw[j]) + Len(Piecewise(v[j + 1], Raw)) <= Len(raw[n])
        /\ Len(raw[j + 1]) = Len(raw[j]) + Len(Piecewise(v[j + 1], Raw))
        /\ Piecewise(v[j + 1], Raw) \in Seq(Wire)
    BY <1>0, <1>1, <2>1, FoldsClimb
  <2>5. a + b <= Len(raw[n]) /\ Len(raw[j + 1]) = a + b /\ x \in Seq(Wire) /\ a \in Nat /\ b \in Nat
        /\ Len(raw[n]) \in Nat
    <3>1. raw[n] \in Seq(Wire)
      BY <1>1, <1>3 DEF Folds
    <3> QED
      BY <2>3, <2>4, <3>1, LenProperties
  <2>6. Moves(sure, q, u, r, a, V) /\ Going(r) /\ r.nread = q.nread + a /\ r.value = w
        /\ r.state = "value" /\ r.hs = "general" /\ r.flags = q.flags \cup Flagged(q.hs) /\ r.len = q.len
    BY <2>2 DEF Moves
  <2> HIDE DEF ch, u, w, x, y, a, b, by, V
  <2>7. Room(sure, r, b)
    <3> DEFINE N == Len(raw[n])
    <3>1. N \in Nat /\ Room(sure, q, N) /\ a <= N /\ N - a \in Nat /\ b <= N - a
      BY <1>3, <2>5
    <3> HIDE DEF N
    <3>2. Room(sure, r, N - a)
      BY <2>5, <2>6, <3>1, RoomLeft
    <3> QED
      BY <2>5, <2>6, <3>1, <3>2, RoomLess
  <2>8. \E s : /\ Moves(sure, r, x, s, b, V)
               /\ s.state = "value" /\ s.hs = "general" /\ s.value = w \o y
               /\ s.flags = r.flags /\ s.len = r.len
    <3>1. CASE ch = "fold"
      <4>1. x = Raw /\ y = by /\ b = 3 /\ x = CRLF \o <<"SP">>
        BY <3>1, WireIs DEF x, y, b, Piecewise
      <4>2. PICK s : /\ Moves(sure, r, CRLF \o <<"SP">>, s, 3, V)
                     /\ s.state = "value" /\ s.value = Append(r.value, "SP") /\ s.hs = "general"
                     /\ s.flags = r.flags /\ s.len = r.len
        <5>1. Room(sure, r, 3)
          BY <2>7, <4>1
        <5> QED
          BY <2>6, <5>1, FoldRead DEF V
      <4>3. Append(w, sp) = w \o by
        <5>1. sp \in Wire
          BY DEF Wire, Delimiters
        <5> HIDE DEF sp
        <5> QED
          BY <2>3, <5>1, AppendIs DEF by
      <4> QED
        BY <2>6, <4>1, <4>2, <4>3
    <3>2. CASE ch # "fold"
      <4>1. x = <<ch>> /\ y = <<ch>> /\ b = 1
        <5>1. x = <<ch>> /\ y = <<ch>>
          BY <3>2 DEF x, y, Piecewise
        <5>2. Len(<<ch>>) = 1
          OBVIOUS
        <5> QED
          BY <5>1, <5>2 DEF b
      <4>2. ch \notin {"CR", "LF"} /\ ch \in Wire
        BY <2>3, <3>2, WireIs DEF ValueAtoms
      <4>3. PICK s : Moves(sure, r, <<ch>>, s, 1, V) /\ ValueGrown(r, s, ch)
        <5>1. Room(sure, r, 1) /\ MoreDue(r, ch)
          BY <2>6, <2>7, <4>1, <4>2 DEF MoreDue
        <5> QED
          BY <2>6, <4>2, <5>1, ValueNext DEF V
      <4>4. Append(w, ch) = w \o <<ch>>
        BY <2>3, <4>2, AppendIs
      <4> QED
        BY <2>6, <4>1, <4>3, <4>4 DEF ValueGrown
    <3> QED
      BY <3>1, <3>2
  <2>9. PICK s : /\ Moves(sure, r, x, s, b, V)
                 /\ s.state = "value" /\ s.hs = "general" /\ s.value = w \o y
                 /\ s.flags = r.flags /\ s.len = r.len
    BY <2>8
  <2>10. Moves(sure, q, u \o x, s, a + b, V)
    BY <2>3, <2>5, <2>6, <2>9, MovesOn
  <2>11. P(j + 1, s)
    BY <2>3, <2>5, <2>6, <2>9, <2>10
  <2> HIDE DEF P
  <2> QED
    BY <2>11
<1>8. T = Nat
  <2>1. T \in SUBSET Nat
    OBVIOUS
  <2> HIDE DEF T
  <2> QED
    BY <1>6, <1>7, <2>1, Counting
<1> HIDE DEF P
<1>9. n - 1 \in Nat /\ (n - 1) + 1 = n /\ n <= n
  BY <1>3
<1>10. n - 1 \in T
  BY <1>8, <1>9
<1>11. PICK r : P(n, r)
  BY <1>9, <1>10
<1> QED
  BY <1>3, <1>11 DEF P, V

(* A value without a folded line is sent as it is.                         *)
LEMMA FoldedPlain ==
    ASSUME NEW B, B \subseteq Wire, "fold" \notin B, NEW v \in Seq(B), NEW by \in Seq(Wire)
    PROVE  Folded(v, by) = v
<1> DEFINE C == Wire \cup {"fold"}
           fold == "fold"
<1>0. v \in Seq(C) /\ B \subseteq Wire
  BY SeqWider
<1>1. PICK n, flat : Folds(Wire, v, by, n, flat)
  BY <1>0, FoldsExists
<1>2. PICK k, pre : Beginnings(B, v, k, pre)
  BY BeginningsExist
<1>3. n \in Nat /\ n = k /\ flat[n] = Folded(v, by) /\ pre[n] = v
  BY <1>1, <1>2 DEF Folds, Beginnings
<1> HIDE DEF C
<1> DEFINE T == {j \in Nat : j <= n => flat[j] = pre[j]}
<1>4. 0 \in T
  <2>1. flat[0] = <<>> /\ pre[0] = <<>>
    BY <1>1, <1>2 DEF Folds, Beginnings
  <2> QED
    BY <2>1
<1>5. ASSUME NEW j \in T PROVE j + 1 \in T
  <2> SUFFICES ASSUME j + 1 <= n PROVE flat[j + 1] = pre[j + 1]
    OBVIOUS
  <2> DEFINE ch == v[j + 1]
             u == pre[j]
  <2>1. j \in Nat /\ j <= n /\ flat[j] = u
    BY <1>3
  <2>2. ch \in B /\ u \in Seq(B) /\ pre[j + 1] = Append(u, ch)
    BY <1>2, <1>3, <2>1 DEF Beginnings
  <2>3. flat[j + 1] = u \o IF ch = fold THEN by ELSE <<ch>>
    BY <1>1, <2>1 DEF Folds
  <2> HIDE DEF ch, u, T
  <2>4. Append(u, ch) = u \o <<ch>>
    BY <2>2, AppendIs
  <2>5. ch # fold
    BY <2>2
  <2> QED
    BY <2>2, <2>3, <2>4, <2>5
<1>6. T = Nat
  <2>1. T \in SUBSET Nat
    OBVIOUS
  <2> HIDE DEF T
  <2> QED
    BY <1>4, <1>5, <2>1, Counting
<1>7. n \in T /\ n <= n
  BY <1>3, <1>6
<1> QED
  BY <1>3, <1>7

(* The coding of a body that is cut into chunks.                           *)
LEMMA CodingRead ==
    ASSUME NEW sure \in BOOLEAN, NEW q, Going(q), q.hs = "transfer_encoding",
           q.state = "value_discard_ws", q.value = <<>>, Room(sure, q, 2)
    PROVE  \E r : /\ Moves(sure, q, <<"chun", "ked">>, r, 2, OfValue)
                  /\ r.state = "value" /\ r.hs = "chunked" /\ r.value = <<"chun", "ked">>
                  /\ r.flags = q.flags /\ r.len = q.len
<1> DEFINE a == "chun"
           b == "ked"
           V == OfValue
<1>1. PICK t : Moves(sure, q, <<a>>, t, 1, V) /\ ValueStarted(q, t, a)
  <2>1. ValueDue(q, a) /\ Room(sure, q, 1)
    BY RoomLess DEF ValueDue
  <2> HIDE DEF a
  <2> QED
    BY <2>1, ValueFirst
<1>2. /\ t.state = "value" /\ t.value = <<a>> /\ t.flags = q.flags /\ t.hs = "matching_chunked"
      /\ t.len = q.len /\ Going(t)
  BY <1>1 DEF ValueStarted, Flagged, Moves
<1>3. Room(sure, t, 1)
  <2> HIDE DEF a, V
  <2>1. Moves(sure, q, <<a>>, t, 1, V)
    BY <1>1
  <2>2. Room(sure, t, 2 - 1)
    BY <2>1, RoomNext
  <2> QED
    BY <2>2
<1>4. PICK r : Moves(sure, t, <<b>>, r, 1, V) /\ ValueGrown(t, r, b)
  <2>1. MoreDue(t, b)
    BY <1>2 DEF MoreDue
  <2> HIDE DEF b
  <2> QED
    BY <1>2, <1>3, <2>1, ValueNext
<1>5. /\ r.state = "value" /\ r.value = Append(<<a>>, b) /\ r.flags = q.flags /\ r.hs = "chunked"
      /\ r.len = q.len
  BY <1>2, <1>4 DEF ValueGrown
<1> HIDE DEF a, b, V
<1>6. Moves(sure, q, <<a, b>>, r, 2, V)
  BY <1>1, <1>4, MovesTwo
<1> QED
  BY <1>5, <1>6, PairIs DEF a, b, V

-----------------------------------------------------------------------------
(* A length, which may be too long.                                        *)
Refused(sure, q, data) == ~sure /\ ReadOn(Starting(q), data).verdict = "false"

(* What is refused stays so.                                               *)
LEMMA RefusedOn ==
    ASSUME NEW A, NEW a \in Seq(A), NEW b \in Seq(A), NEW sure \in BOOLEAN, NEW q, Refused(sure, q, a)
    PROVE  Refused(sure, q, a \o b)
<1> DEFINE run == ReadOn(Starting(q), a)
<1>1. ReadOn(Starting(q), a \o b) = ReadOn(run, b)
  BY ReadOnIs
<1>2. run.verdict = "false" /\ run.verdict # "indeterminate" /\ ~sure
  BY DEF Refused
<1> HIDE DEF run
<1>3. ReadOn(run, b) = run
  BY <1>2, ReadOnIs
<1> QED
  BY <1>1, <1>2, <1>3 DEF Refused

(* What is refused behind a section that is read.                          *)
LEMMA RefusedLater ==
    ASSUME NEW A, NEW a \in Seq(A), NEW b \in Seq(A), NEW sure \in BOOLEAN, NEW q, NEW r,
           Reads(sure, q, a, r), Refused(sure, r, b)
    PROVE  Refused(sure, q, a \o b)
<1>1. CASE ReadOn(Starting(q), a) = Starting(r)
  <2>1. ReadOn(Starting(q), a \o b) = ReadOn(Starting(r), b)
    BY <1>1, ReadOnIs
  <2> QED
    BY <2>1 DEF Refused
<1>2. CASE Refused(sure, q, a)
  BY <1>2, RefusedOn
<1> QED
  BY <1>1, <1>2 DEF Reads, Refused

(* An atom that is refused.                                                *)
LEMMA FailAtom ==
    ASSUME NEW q, NEW ch, Going(q), DOMAIN Step(Counted(q), ch) = Fields,
           Step(Counted(q), ch).errno = "bad"
    PROVE  ReadOn(Starting(q), <<ch>>).verdict = "false"
<1> DEFINE c == Counted(q)
           run == Starting(q)
           s == After(q, ch)
<1>0. DOMAIN c = Fields /\ q.errno = "ok"
  BY CountedIs DEF Going
<1>1. ReadOn(run, <<ch>>) = ReadAtom([p |-> q, verdict |-> "indeterminate"], ch)
  BY ReadOnOne DEF Starting
<1>2. DOMAIN s = Fields /\ s.errno = "bad"
  <2>1. CASE c.nread > MaxHeader
    <3>1. s = Fail(c)
      BY <2>1 DEF After
    <3>2. DOMAIN Fail(c) = Fields /\ Fail(c).errno = "bad"
      BY <1>0 DEF Fail, Fields
    <3> QED
      BY <3>1, <3>2
  <2>2. CASE ~(c.nread > MaxHeader)
    <3>1. s = Step(c, ch)
      BY <2>2 DEF After
    <3> QED
      BY <3>1
  <2> QED
    BY <2>1, <2>2
<1>3. ReadAtom([p |-> q, verdict |-> "indeterminate"], ch) = [p |-> s, verdict |-> "false"]
  BY <1>0, <1>2, ParseAtom
<1> QED
  BY <1>1, <1>3

(* One more digit of a number.                                             *)
LEMMA NumberStep ==
    ASSUME NEW A, NEW u \in Seq(A), NEW ch \in A
    PROVE  /\ Number(Append(u, ch)) = 10 * Number(u) + Digits[ch]
           /\ Len(u) = 0 => Number(u) = 0
<1> DEFINE k == "number"
           zero == 0
<1>1. \A w : Number(w) = Run(k, zero, w)
  BY DEF Number, Run, Turn, FoldLeft, MapThenFoldSet
<1>2. \A r : Turn(k, r, ch) = 10 * r + Digits[ch]
  BY DEF Turn
<1> HIDE DEF k, zero
<1>3. Run(k, zero, Append(u, ch)) = Turn(k, Run(k, zero, u), ch)
  BY RunStep
<1>4. Len(u) = 0 => Run(k, zero, u) = zero
  BY RunNothing
<1> QED
  BY <1>1, <1>2, <1>3, <1>4 DEF zero

(* The guard of Lengthen keeps the length from a wrap.                     *)
LEMMA LengthenIs ==
    ASSUME NEW n \in Nat, NEW g \in 0 .. 9, ~((MaxLength - 10) \div 10 < n)
    PROVE  (10 * n + g) % (MaxLength + 1) = 10 * n + g /\ 10 * n + g < MaxLength
<1>1. PICK m \in Nat : m = MaxLength /\ m >= 16
  BY LimitsAssumption
<1>2. 10 * n + g < m
  BY <1>1
<1>3. \A x \in Nat : x < m + 1 => x % (m + 1) = x
  BY <1>1
<1> QED
  BY <1>1, <1>2, <1>3

(* One more digit of a length.                                             *)
LengthGrown(q, r, ch) ==
    /\ r.state = "value" /\ r.value = Append(q.value, ch) /\ r.hs = "content_length"
    /\ r.flags = q.flags /\ r.len = 10 * q.len + Digits[ch] /\ r.len \in Nat /\ r.len < MaxLength

(* One more digit is added, or refused as too much.                        *)
LEMMA LengthNext ==
    ASSUME NEW sure \in BOOLEAN, NEW q, NEW ch \in DOMAIN Digits, Going(q), q.state = "value",
           q.hs = "content_length", q.len \in Nat, ~sure
    PROVE  \/ Refused(sure, q, <<ch>>)
           \/ \E r : Moves(sure, q, <<ch>>, r, 1, OfValue) /\ LengthGrown(q, r, ch)
<1> DEFINE d == Counted(q)
           e == [d EXCEPT !.value = Append(@, ch)]
<1>1. Going(d) /\ Keeps(q, d, {"nread"}) /\ d.nread = q.nread + 1
  BY CountedIs DEF ParsingHeader
<1> HIDE DEF d
<1>2. d.state = q.state /\ d.value = q.value /\ d.hs = q.hs /\ d.len = q.len /\ d.flags = q.flags
  BY <1>1 DEF Keeps, Fields
<1>3. /\ Going(e) /\ e.nread = d.nread /\ Keeps(d, e, {"value"}) /\ e.value = Append(q.value, ch)
      /\ e.state = "value" /\ e.hs = "content_length" /\ e.flags = q.flags /\ e.len = q.len
  BY <1>1, <1>2 DEF Going, Keeps, Fields
<1>4. Step(d, ch) = Lengthen(e, 10, ch)
  <2>1. Step(d, ch) = Value(d, ch)
    BY <1>2 DEF Step, UrlUnfinished, UrlFinished
  <2>2. ch \notin {"SP", "TAB", "CR", "LF"}
    BY DigitsAre
  <2> QED
    BY <1>2, <2>1, <2>2 DEF Value
<1> HIDE DEF e
<1>5. PICK g \in 0 .. 9 : g = Digits[ch]
  BY DigitsAre
<1>6. PICK n \in Nat : n = q.len
  OBVIOUS
<1>7. CASE (MaxLength - 10) \div 10 < n
  <2>1. Step(d, ch) = Fail(e)
    BY <1>3, <1>4, <1>6, <1>7 DEF Lengthen
  <2>2. DOMAIN Fail(e) = Fields /\ Fail(e).errno = "bad"
    BY <1>3 DEF Fail, Fields, Going
  <2> QED
    BY <2>1, <2>2, FailAtom DEF d, Refused
<1>8. CASE ~((MaxLength - 10) \div 10 < n)
  <2> DEFINE k == 10 * n + g
             s == [e EXCEPT !.len = k]
  <2>1. k % (MaxLength + 1) = k /\ k < MaxLength /\ k \in Nat
    BY <1>8, LengthenIs
  <2>2. Step(d, ch) = s
    <3>1. Step(d, ch) = [e EXCEPT !.len = (10 * n + g) % (MaxLength + 1)]
      BY <1>3, <1>4, <1>5, <1>6, <1>8 DEF Lengthen
    <3> QED
      BY <2>1, <3>1
  <2> HIDE DEF k
  <2>3. /\ Going(s) /\ s.nread = d.nread /\ Keeps(e, s, {"len"}) /\ s.value = Append(q.value, ch)
        /\ s.state = "value" /\ s.hs = "content_length" /\ s.flags = q.flags /\ s.len = k
    BY <1>3 DEF Going, Keeps, Fields
  <2> HIDE DEF s
  <2>4. Keeps(d, s, OfValue)
    BY <1>3, <2>3 DEF Keeps, OfValue
  <2>5. ParsingHeader(q.state) /\ "nread" \in OfValue /\ s.state # "headers_done" /\ Room(sure, q, 1)
    BY <2>3 DEF ParsingHeader, OfValue, Room
  <2>6. Moves(sure, q, <<ch>>, s, 1, OfValue)
    BY <2>2, <2>3, <2>4, <2>5, HeaderAtom DEF d
  <2>7. LengthGrown(q, s, ch)
    BY <1>5, <1>6, <2>1, <2>3 DEF LengthGrown, k
  <2> QED
    BY <2>6, <2>7
<1> QED
  BY <1>7, <1>8

(* What r holds behind the digits u of a length.                           *)
LengthSeen(q, r, u) ==
    /\ r.state = "value" /\ r.value = u /\ r.hs = "content_length" /\ r.flags = q.flags
    /\ r.len = Number(u) /\ r.len \in Nat /\ r.len < MaxLength

(* A length is the number that was sent, or is refused as too much.        *)
LEMMA LengthRead ==
    ASSUME NEW sure \in BOOLEAN, NEW q, NEW v \in Seq(DOMAIN Digits), v # <<>>, Going(q),
           sure => Len(v) = 1, q.hs = "content_length",
           q.state = "value_discard_ws", q.value = <<>>, Room(sure, q, Len(v))
    PROVE  \/ Refused(sure, q, v)
           \/ \E r : Moves(sure, q, v, r, Len(v), OfValue) /\ LengthSeen(q, r, v)
<1> DEFINE A == DOMAIN Digits
           V == OfValue
<1>1. PICK n, pre : Beginnings(A, v, n, pre)
  BY BeginningsExist
<1>2. n \in Nat /\ n = Len(v) /\ pre[n] = v /\ n # 0
  <2>1. n \in Nat /\ n = Len(v) /\ pre[n] = v
    BY <1>1 DEF Beginnings
  <2> HIDE DEF A
  <2> QED
    BY <2>1, EmptySeq
<1> DEFINE P(j) == \/ Refused(sure, q, pre[j])
                   \/ \E r : Moves(sure, q, pre[j], r, j, V) /\ LengthSeen(q, r, pre[j])
           T == {j \in Nat : j + 1 <= n => P(j + 1)}
<1>3. \A ch \in A : Digits[ch] \in 0 .. 9
  BY DigitsAre
<1>4. 0 \in T
  <2> DEFINE ch == v[0 + 1]
             u == pre[0]
  <2>1. ch \in A /\ u \in Seq(A) /\ Len(u) = 0 /\ u = <<>> /\ pre[0 + 1] = Append(u, ch)
    BY <1>1, <1>2 DEF Beginnings
  <2> HIDE DEF ch, u, A
  <2>2. pre[0 + 1] = <<ch>>
    BY <2>1
  <2>3. Number(<<ch>>) = Digits[ch]
    <3>1. Number(Append(u, ch)) = 10 * Number(u) + Digits[ch] /\ Number(u) = 0
      BY <2>1, NumberStep
    <3>2. Digits[ch] \in 0 .. 9
      BY <1>3, <2>1
    <3> QED
      BY <2>1, <2>2, <3>1, <3>2
  <2>4. PICK r : Moves(sure, q, <<ch>>, r, 1, V) /\ ValueStarted(q, r, ch)
    <3>1. ValueDue(q, ch)
      <4>1. ch \notin {"SP", "TAB", "CR", "LF"}
        BY <2>1, DigitsAre DEF A
      <4> QED
        BY <2>1, <4>1 DEF ValueDue, A
    <3>2. Room(sure, q, 1)
      BY <1>2, RoomLess
    <3> QED
      BY <3>1, <3>2, ValueFirst
  <2>5. LengthSeen(q, r, <<ch>>)
    <3>1. /\ r.state = "value" /\ r.value = <<ch>> /\ r.hs = "content_length" /\ r.flags = q.flags
          /\ r.len = Digits[ch]
      BY <2>4 DEF ValueStarted, Flagged
    <3>2. Digits[ch] \in Nat /\ Digits[ch] < MaxLength
      <4>1. PICK m \in Nat : m = MaxLength /\ m >= 16
        BY LimitsAssumption
      <4>2. Digits[ch] \in 0 .. 9
        BY <1>3, <2>1
      <4> QED
        BY <4>1, <4>2
    <3> QED
      BY <2>3, <3>1, <3>2 DEF LengthSeen
  <2>6. P(0 + 1)
    BY <2>2, <2>4, <2>5
  <2> HIDE DEF P
  <2> QED
    BY <2>6
<1>5. ASSUME NEW i \in T PROVE i + 1 \in T
  <2> DEFINE j == i + 1
  <2> SUFFICES ASSUME j + 1 <= n PROVE P(j + 1)
    OBVIOUS
  <2>1. j \in Nat /\ j <= n /\ j + 1 <= n /\ n # 1
    BY <1>2
  <2>2. P(j)
    BY <2>1
  <2>3. ~sure
    BY <1>2, <2>1
  <2> HIDE DEF j, T
  <2> DEFINE ch == v[j + 1]
             u == pre[j]
             x == <<ch>>
  <2>4. ch \in A /\ u \in Seq(A) /\ pre[j + 1] = Append(u, ch)
    BY <1>1, <2>1 DEF Beginnings
  <2> HIDE DEF ch, u, A
  <2>5. Append(u, ch) = u \o x /\ x \in Seq(A)
    BY <2>4, AppendIs
  <2> HIDE DEF x
  <2>6. CASE Refused(sure, q, u)
    <3>1. Refused(sure, q, u \o x)
      BY <2>4, <2>5, <2>6, RefusedOn
    <3> QED
      BY <2>4, <2>5, <3>1
  <2>7. ASSUME NEW r, Moves(sure, q, u, r, j, V), LengthSeen(q, r, u)
        PROVE  P(j + 1)
    <3>1. Going(r) /\ r.state = "value" /\ r.hs = "content_length" /\ r.len \in Nat
          /\ r.value = u /\ r.flags = q.flags /\ r.len = Number(u) /\ Reads(sure, q, u, r)
      BY <2>7 DEF LengthSeen, Moves
    <3>2. \/ Refused(sure, r, x)
          \/ \E s : Moves(sure, r, x, s, 1, V) /\ LengthGrown(r, s, ch)
      BY <2>3, <2>4, <3>1, LengthNext DEF A, x
    <3>3. CASE Refused(sure, r, x)
      <4>1. Refused(sure, q, u \o x)
        BY <2>4, <2>5, <3>1, <3>3, RefusedLater
      <4> QED
        BY <2>4, <2>5, <4>1
    <3>4. ASSUME NEW s, Moves(sure, r, x, s, 1, V), LengthGrown(r, s, ch)
          PROVE  P(j + 1)
      <4>1. Moves(sure, q, u \o x, s, j + 1, V)
        <5> HIDE DEF P, V
        <5>1. Moves(sure, r, x, s, 1, V)
          BY <3>4
        <5>2. Moves(sure, q, u, r, j, V)
          BY <2>7
        <5> QED
          BY <2>1, <2>4, <2>5, <5>1, <5>2, MovesOn
      <4>2. LengthSeen(q, s, Append(u, ch))
        <5>1. Number(Append(u, ch)) = 10 * Number(u) + Digits[ch]
          BY <2>4, NumberStep
        <5> QED
          BY <3>1, <3>4, <5>1 DEF LengthSeen, LengthGrown
      <4> QED
        BY <2>4, <2>5, <4>1, <4>2
    <3> QED
      BY <3>2, <3>3, <3>4
  <2> QED
    BY <2>2, <2>6, <2>7 DEF u
<1>6. T = Nat
  <2>1. T \in SUBSET Nat
    OBVIOUS
  <2> HIDE DEF T
  <2> QED
    BY <1>4, <1>5, <2>1, Counting
<1> HIDE DEF P
<1>7. n - 1 \in Nat /\ (n - 1) + 1 = n /\ n <= n
  BY <1>2
<1>8. n - 1 \in T
  BY <1>6, <1>7
<1>9. P(n)
  BY <1>7, <1>8
<1> QED
  BY <1>2, <1>9 DEF P, V

-----------------------------------------------------------------------------
(* Any value.                                                              *)
LengthName == <<"content-", "length">>
(* The names the parser knows.                                             *)
CodingName == <<"transfer-", "encoding">>
UpgradeName == <<"up", "grade">>

(* The length behind h, and all that r holds behind the value of h.        *)
LenRead(h, len, old) ==
    IF h[1] = LengthName THEN len = Number(h[2]) /\ len \in Nat /\ len < MaxLength ELSE len = old

ValueDone(q, r, h) ==
    /\ r.state = IF h[2] = <<>> THEN "value_discard_ws" ELSE "value"
    /\ r.value = Folded(h[2], <<"SP">>)
    /\ r.flags = q.flags \cup IF h[1] = UpgradeName /\ h[2] # <<>> THEN {"upgrade"} ELSE {}
    /\ r.hs = "chunked" <=> h[1] = CodingName
    /\ LenRead(h, r.len, q.len)

(* What the parser makes of a name.                                        *)
LEMMA NamesAre ==
    ASSUME NEW w
    PROVE  /\ HeaderState(w) \in {"content_length", "transfer_encoding", "upgrade", "general"}
           /\ HeaderState(w) = "content_length" <=> w = LengthName
           /\ HeaderState(w) = "transfer_encoding" <=> w = CodingName
           /\ HeaderState(w) = "upgrade" <=> w = UpgradeName
<1>1. LengthName # CodingName /\ LengthName # UpgradeName /\ CodingName # UpgradeName
  <2>1. LengthName[1] # CodingName[1] /\ LengthName[1] # UpgradeName[1] /\ CodingName[1] # UpgradeName[1]
    BY DEF LengthName, CodingName, UpgradeName
  <2> QED
    BY <2>1
<1>2. HeaderState(w) =
        CASE w = LengthName -> "content_length"
          [] w = CodingName -> "transfer_encoding"
          [] w = UpgradeName -> "upgrade"
          [] OTHER -> "general"
  BY DEF HeaderState, LengthName, CodingName, UpgradeName
<1> QED
  BY <1>1, <1>2

(* What a header is.                                                       *)
LEMMA HeaderIs ==
    ASSUME NEW h, IsHeader(h)
    PROVE  /\ h[1] \in Seq(Atoms \ Delimiters) /\ h[1] # <<>> /\ h[2] \in Seq(ValueAtoms)
           /\ h[2] # <<>> => h[2][1] \notin {"SP", "TAB", "fold"}
           /\ h[1] = LengthName => h[2] # <<>> /\ h[2] \in Seq(DOMAIN Digits)
           /\ h[1] = CodingName => h[2] = <<"chun", "ked">>
<1>1. /\ h[1] \in Seq(Atoms \ Delimiters) /\ h[2] \in Seq(ValueAtoms)
      /\ h[1] # <<>> /\ (h[2] # <<>> => h[2][1] \notin {"SP", "TAB", "fold"})
      /\ h[1] = CodingName => h[2] = <<"chun", "ked">>
  BY DEF IsHeader, ValueAtoms, CodingName
<1>2. ASSUME h[1] = LengthName
      PROVE  h[2] # <<>> /\ h[2] \in Seq(DOMAIN Digits)
  <2>1. h[2] # <<>> /\ Range(h[2]) \subseteq DOMAIN Digits
    BY <1>2 DEF IsHeader, LengthName
  <2> DEFINE v == h[2]
             n == Len(v)
             A == DOMAIN Digits
             B == ValueAtoms
  <2>2. v \in Seq(B) /\ Range(v) \subseteq A
    BY <1>1, <2>1
  <2> HIDE DEF A, B, v
  <2>3. n \in Nat /\ v \in [1 .. n -> B]
    BY <2>2, LenProperties
  <2>4. v \in [1 .. n -> A]
    BY <2>2, <2>3 DEF Range
  <2>5. v \in Seq(A)
    BY <2>3, <2>4, SeqDef
  <2> QED
    BY <2>1, <2>5 DEF v, A
<1> QED
  BY <1>1, <1>2

(* The value of any header is read, or refused where that is not excluded. *)
LEMMA ValueRead ==
    ASSUME NEW sure \in BOOLEAN, NEW q, NEW h, IsHeader(h), Going(q), q.state = "value_discard_ws",
           q.value = <<>>, q.hs = HeaderState(h[1]), Room(sure, q, Len(Folded(h[2], Raw))),
           sure => (h[1] = LengthName => Len(h[2]) = 1)
    PROVE  \/ Refused(sure, q, Folded(h[2], Raw))
           \/ \E r : /\ Moves(sure, q, Folded(h[2], Raw), r, Len(Folded(h[2], Raw)), OfValue)
                     /\ ValueDone(q, r, h)
<1> DEFINE v == h[2]
           by == <<"SP">>
           D == DOMAIN Digits
<1>1. /\ v \in Seq(ValueAtoms)
      /\ v # <<>> => v[1] \notin {"SP", "TAB", "fold"}
      /\ h[1] = LengthName => v # <<>> /\ v \in Seq(D)
      /\ h[1] = CodingName => v = <<"chun", "ked">>
  BY HeaderIs
<1>2. /\ q.hs \in {"content_length", "transfer_encoding", "upgrade", "general"}
      /\ q.hs = "content_length" <=> h[1] = LengthName
      /\ q.hs = "transfer_encoding" <=> h[1] = CodingName
      /\ q.hs = "upgrade" <=> h[1] = UpgradeName
  BY NamesAre
<1>3. Raw \in Seq(Wire) /\ by \in Seq(Wire)
  BY WireIs
<1> HIDE DEF v, by
<1>4. CASE v = <<>>
  <2> DEFINE e == <<>>
  <2>1. e \in Seq(Wire) /\ e \in Seq({}) /\ Len(e) = 0 /\ v = e
    BY <1>4
  <2>2. Folded(v, Raw) = e /\ Folded(v, by) = e
    <3> DEFINE B == {}
    <3>1. B \subseteq Wire /\ "fold" \notin B /\ v \in Seq(B)
      BY <2>1
    <3> HIDE DEF B, e
    <3>2. Folded(v, Raw) = v
      BY <1>3, <3>1, FoldedPlain
    <3>3. Folded(v, by) = v
      BY <1>3, <3>1, FoldedPlain
    <3> QED
      BY <2>1, <3>2, <3>3
  <2>3. Reads(sure, q, e, q)
    BY <2>1, ReadsNothing
  <2>4. q.nread = q.nread + 0
    BY DEF Going
  <2>5. Moves(sure, q, e, q, 0, OfValue)
    BY <2>3, <2>4 DEF Moves, Keeps
  <2>6. h[1] # LengthName /\ h[1] # CodingName
    <3>1. <<"chun", "ked">> # <<>>
      OBVIOUS
    <3> QED
      BY <1>1, <1>4, <3>1
  <2>7. ValueDone(q, q, h)
    <3> HIDE DEF e
    <3>1. h[2] = <<>> /\ q.value = Folded(h[2], <<"SP">>)
      BY <1>4, <2>1, <2>2 DEF v, by
    <3> QED
      BY <1>2, <2>6, <3>1 DEF ValueDone, LenRead
  <2> HIDE DEF e
  <2>8. Moves(sure, q, Folded(v, Raw), q, Len(Folded(v, Raw)), OfValue)
    BY <2>1, <2>2, <2>5
  <2> QED
    BY <2>7, <2>8 DEF v
<1>5. CASE v # <<>> /\ q.hs \in {"general", "upgrade"}
  <2>1. PICK r : /\ Moves(sure, q, Folded(v, Raw), r, Len(Folded(v, Raw)), OfValue)
                 /\ r.state = "value" /\ r.hs = "general" /\ r.value = Folded(v, <<"SP">>)
                 /\ r.flags = q.flags \cup Flagged(q.hs) /\ r.len = q.len
    <3>1. Room(sure, q, Len(Folded(v, Raw)))
      BY DEF v
    <3> QED
      BY <1>1, <1>5, <3>1, PlainRead
  <2>2. ValueDone(q, r, h)
    <3>1. h[2] # <<>> /\ r.value = Folded(h[2], <<"SP">>)
      BY <1>5, <2>1 DEF v
    <3>2. h[1] # LengthName /\ h[1] # CodingName /\ (h[1] = UpgradeName <=> q.hs = "upgrade")
      BY <1>2, <1>5
    <3> QED
      BY <2>1, <3>1, <3>2 DEF ValueDone, LenRead, Flagged
  <2> QED
    BY <2>1, <2>2 DEF v
<1>6. CASE v # <<>> /\ q.hs = "transfer_encoding"
  <2> DEFINE c == <<"chun", "ked">>
             B == {"chun", "ked"}
  <2>0. h[1] = CodingName /\ h[1] # LengthName /\ h[1] # UpgradeName
    BY <1>2, <1>6
  <2>1. v = c
    BY <1>1, <2>0
  <2>2. c \in Seq(B) /\ Len(c) = 2 /\ B \subseteq Wire /\ "fold" \notin B
    <3>1. B \subseteq Wire
      BY DEF Wire
    <3> QED
      BY <3>1
  <2> HIDE DEF c, B
  <2>3. Folded(c, Raw) = c
    BY <1>3, <2>2, FoldedPlain
  <2>4. Folded(c, by) = c
    BY <1>3, <2>2, FoldedPlain
  <2>5. Room(sure, q, 2)
    BY <2>1, <2>2, <2>3 DEF v
  <2>6. PICK r : /\ Moves(sure, q, <<"chun", "ked">>, r, 2, OfValue)
                 /\ r.state = "value" /\ r.hs = "chunked" /\ r.value = <<"chun", "ked">>
                 /\ r.flags = q.flags /\ r.len = q.len
    BY <1>6, <2>5, CodingRead
  <2>7. Moves(sure, q, c, r, 2, OfValue) /\ r.value = c
    BY <2>6 DEF c
  <2>8. Moves(sure, q, Folded(v, Raw), r, Len(Folded(v, Raw)), OfValue)
    BY <2>1, <2>2, <2>3, <2>7
  <2>9. ValueDone(q, r, h)
    <3>1. h[2] # <<>> /\ r.value = Folded(h[2], <<"SP">>)
      BY <1>6, <2>1, <2>4, <2>7 DEF v, by
    <3> QED
      BY <2>0, <2>6, <3>1 DEF ValueDone, LenRead
  <2> QED
    BY <2>8, <2>9 DEF v
<1>7. CASE v # <<>> /\ q.hs = "content_length"
  <2>0. h[1] = LengthName /\ h[1] # CodingName /\ h[1] # UpgradeName
    BY <1>2, <1>7
  <2>1. v \in Seq(D) /\ D \subseteq Wire /\ "fold" \notin D /\ (sure => Len(v) = 1)
    BY <1>1, <2>0, WireIs DEF v
  <2>2. Folded(v, Raw) = v
    BY <1>3, <2>1, FoldedPlain
  <2>3. Folded(v, by) = v
    BY <1>3, <2>1, FoldedPlain
  <2>4. Room(sure, q, Len(v))
    BY <2>2 DEF v
  <2>5. \/ Refused(sure, q, v)
        \/ \E r : Moves(sure, q, v, r, Len(v), OfValue) /\ LengthSeen(q, r, v)
    BY <1>7, <2>1, <2>4, LengthRead
  <2>6. ASSUME NEW r, LengthSeen(q, r, v)
        PROVE  ValueDone(q, r, h)
    <3>1. h[2] # <<>> /\ r.value = Folded(h[2], <<"SP">>)
      BY <1>7, <2>3, <2>6 DEF v, by, LengthSeen
    <3> QED
      BY <2>0, <2>6, <3>1 DEF ValueDone, LenRead, LengthSeen, v
  <2> QED
    BY <2>2, <2>5, <2>6 DEF v
<1> QED
  BY <1>2, <1>4, <1>5, <1>6, <1>7

-----------------------------------------------------------------------------
(* A line of the headers, from the start of it to the start of the next.   *)
Brings(h) ==
    (IF h[1] = CodingName THEN {"chunked"} ELSE {}) \cup
    (IF h[1] = UpgradeName /\ h[2] # <<>> THEN {"upgrade"} ELSE {})
(* What r holds behind the line of h.                                      *)
LineDone(q, r, h) ==
    /\ AtLine(r)
    /\ r.state = IF h[2] = <<>> THEN "value_discard_lws" ELSE "value_lws"
    /\ r.field = Flush(q).field \o h[1] /\ r.headers = Flush(q).headers
    /\ r.value = Folded(h[2], <<"SP">>)
    /\ Flags(r) = Flags(q) \cup Brings(h)
    /\ LenRead(h, r.len, q.len)

(* The line of a header, as its parts.                                     *)
LEMMA LineIs ==
    ASSUME NEW h, IsHeader(h)
    PROVE  /\ HeaderLine(h) = ((h[1] \o <<":", "SP">>) \o Folded(h[2], Raw)) \o CRLF
           /\ h[1] \in Seq(Wire \ Delimiters) /\ h[1] \in Seq(Wire) /\ <<":", "SP">> \in Seq(Wire)
           /\ Len(<<":", "SP">>) = 2
           /\ Folded(h[2], Raw) \in Seq(Wire) /\ CRLF \in Seq(Wire) /\ Len(CRLF) = 2
           /\ Folded(h[2], <<"SP">>) \in Seq(Wire)
           /\ Len(Folded(h[2], <<"SP">>)) = 0 <=> h[2] = <<>>
<1> DEFINE v == h[2]
           by == <<"SP">>
           B == Wire \cup {"fold"}
<1>1. HeaderLine(h) = ((h[1] \o <<":", "SP">>) \o Folded(h[2], Raw)) \o CRLF
  BY DEF HeaderLine, Raw
<1>2. h[1] \in Seq(Atoms \ Delimiters) /\ v \in Seq(ValueAtoms)
  BY HeaderIs
<1>3. Atoms \ Delimiters \subseteq Wire \ Delimiters /\ Atoms \ Delimiters \subseteq Wire
      /\ ":" \in Wire /\ "SP" \in Wire
  BY DEF Wire, Delimiters
<1>4. h[1] \in Seq(Wire \ Delimiters) /\ h[1] \in Seq(Wire)
  BY <1>2, <1>3, SeqWider
<1>5. <<":", "SP">> \in Seq(Wire) /\ Len(<<":", "SP">>) = 2
  BY <1>3
<1>6. v \in Seq(B) /\ by \in Seq(Wire) /\ Raw \in Seq(Wire)
  BY <1>2, WireIs, SeqWider
<1> HIDE DEF v, by
<1>7. Folded(v, Raw) \in Seq(Wire)
  <2>1. PICK n, raw : Folds(Wire, v, Raw, n, raw)
    BY <1>6, FoldsExists
  <2>2. n \in Nat /\ n <= n /\ raw[n] = Folded(v, Raw)
    BY <2>1 DEF Folds
  <2> QED
    BY <2>1, <2>2 DEF Folds
<1>8. Folded(v, by) \in Seq(Wire) /\ (Len(Folded(v, by)) = 0 <=> v = <<>>)
  <2>1. PICK n, cut : Folds(Wire, v, by, n, cut)
    BY <1>6, FoldsExists
  <2>2. n \in Nat /\ n = Len(v) /\ n <= n /\ cut[n] = Folded(v, by)
    BY <2>1 DEF Folds
  <2>3. cut[n] \in Seq(Wire)
    BY <2>1, <2>2 DEF Folds
  <2>4. Len(cut[0]) = 0
    BY <2>1 DEF Folds
  <2>5. v = <<>> <=> n = 0
    BY <1>6, <2>2, EmptySeq
  <2>6. ASSUME n # 0
        PROVE  Len(cut[n]) # 0
    <3> DEFINE j == n - 1
    <3>0. j \in Nat /\ j + 1 <= n
      BY <2>2, <2>6
    <3>1. j + 1 = n
      BY <2>2, <2>6
    <3> HIDE DEF j
    <3>2. /\ Len(cut[j]) + Len(Piecewise(v[j + 1], by)) <= Len(cut[n])
          /\ Len(cut[j + 1]) = Len(cut[j]) + Len(Piecewise(v[j + 1], by))
          /\ Piecewise(v[j + 1], by) \in Seq(Wire)
      <4>1. v \in Seq(Wire \cup {"fold"}) /\ by \in Seq(Wire)
        BY <1>6
      <4> QED
        BY <2>1, <3>0, <4>1, FoldsClimb
    <3>3. Len(Piecewise(v[j + 1], by)) = 1
      BY WireIs DEF Piecewise, by
    <3>4. Len(cut[j]) \in Nat
      <4>1. j <= n
        BY <2>2, <3>0
      <4>2. cut[j] \in Seq(Wire)
        BY <2>1, <3>0, <4>1 DEF Folds
      <4> QED
        BY <4>2, LenProperties
    <3> QED
      BY <3>1, <3>2, <3>3, <3>4
  <2> QED
    BY <2>2, <2>3, <2>4, <2>5, <2>6
<1>9. CRLF \in Seq(Wire) /\ Len(CRLF) = 2
  BY WireIs
<1> QED
  BY <1>1, <1>4, <1>5, <1>7, <1>8, <1>9 DEF v, by

(* The length of two sequences.                                            *)
LEMMA LengthIs ==
    ASSUME NEW A, NEW a \in Seq(A), NEW b \in Seq(A)
    PROVE  a \o b \in Seq(A) /\ Len(a \o b) = Len(a) + Len(b) /\ Len(a) \in Nat /\ Len(b) \in Nat
BY ConcatProperties, LenProperties

(* The line of a header is read: the pair before it is stored, and the     *)
(* header is what is held.                                                 *)
LEMMA HeaderRead ==
    ASSUME NEW sure \in BOOLEAN, NEW q, NEW h, IsHeader(h), AtLine(q),
           sure => (h[1] = LengthName => Len(h[2]) = 1), Room(sure, q, Len(HeaderLine(h)))
    PROVE  \/ Refused(sure, q, HeaderLine(h))
           \/ \E r : /\ Moves(sure, q, HeaderLine(h), r, Len(HeaderLine(h)), OfHeader)
                     /\ LineDone(q, r, h)
<1> DEFINE line == HeaderLine(h)
           name == h[1]
           co == <<":", "SP">>
           val == Folded(h[2], Raw)
           A == Wire
           V == OfHeader
           a == Len(name)
           c == Len(val)
           x == name \o co
           y == x \o val
<1>1. /\ line = y \o CRLF /\ name \in Seq(A) /\ co \in Seq(A) /\ Len(co) = 2
      /\ val \in Seq(A) /\ CRLF \in Seq(A) /\ Len(CRLF) = 2
      /\ name \in Seq(Wire \ Delimiters)
  BY LineIs
<1>2. name # <<>>
  BY HeaderIs
<1>3. Going(q) /\ q.field \in Seq(Wire)
  BY DEF AtLine
<1> HIDE DEF line, name, co, val, A
<1>4. a \in Nat /\ c \in Nat /\ x \in Seq(A) /\ Len(x) = a + 2 /\ y \in Seq(A) /\ Len(y) = Len(x) + c
      /\ Len(line) = Len(y) + 2
  <2>1. x \in Seq(A) /\ Len(x) = Len(name) + Len(co) /\ Len(name) \in Nat
    BY <1>1, LengthIs
  <2>2. y \in Seq(A) /\ Len(y) = Len(x) + Len(val) /\ Len(val) \in Nat
    BY <1>1, <2>1, LengthIs
  <2> HIDE DEF y
  <2>3. Len(line) = Len(y) + Len(CRLF)
    BY <1>1, <2>2, LengthIs
  <2> QED
    BY <1>1, <2>1, <2>2, <2>3
<1> HIDE DEF a, c, x, y
<1>5. Len(y) = a + 2 + c /\ Len(line) = a + 2 + c + 2
  BY <1>4
<1> DEFINE n == a + 2 + c + 2
<1>6. Room(sure, q, n) /\ n \in Nat
  BY <1>4, <1>5 DEF line
<1>7. PICK r1 : Moves(sure, q, name, r1, a, V) /\ InName(q, r1, name)
  <2>1. Room(sure, q, a)
    <3>1. a <= n
      BY <1>4
    <3> QED
      BY <1>3, <1>4, <1>6, <3>1, RoomLess
  <2>2. Room(sure, q, Len(name))
    BY <2>1 DEF a
  <2> QED
    BY <1>1, <1>2, <2>2, NameRead DEF V, a
<1>8. PICK r2 : /\ Moves(sure, r1, co, r2, 2, {"state", "nread", "hs"})
                /\ r2.state = "value_discard_ws" /\ r2.hs = HeaderState(name)
  <2>1. Room(sure, r1, n - a)
    <3>1. a <= n
      BY <1>4
    <3> QED
      BY <1>3, <1>4, <1>6, <1>7, <3>1, RoomNext
  <2>2. Room(sure, r1, 2)
    <3>1. 2 <= n - a /\ n - a \in Nat
      BY <1>4
    <3> QED
      BY <1>7, <2>1, <3>1, RoomLess DEF Moves
  <2> QED
    BY <1>7, <2>2, ColonRead DEF co, Moves
<1>9. Moves(sure, q, x, r2, a + 2, V)
  <2>1. Moves(sure, r1, co, r2, 2, V)
    BY <1>8, MovesWider DEF V, OfHeader
  <2> QED
    BY <1>1, <1>3, <1>4, <1>7, <2>1, MovesOn DEF x
<1>10. /\ r2.value = <<>> /\ r2.flags = Flags(q) /\ r2.len = q.len
       /\ r2.field = Flush(q).field \o name /\ r2.headers = Flush(q).headers
  BY <1>7, <1>8 DEF Moves, Keeps, Fields, InName
<1>11. Room(sure, r2, c + 2)
  <2>1. a + 2 <= n /\ n - (a + 2) = c + 2 /\ a + 2 \in Nat
    BY <1>4
  <2>2. Room(sure, r2, n - (a + 2))
    BY <1>3, <1>6, <1>9, <2>1, RoomNext
  <2> QED
    BY <2>1, <2>2
<1>12. \/ Refused(sure, r2, val)
       \/ \E r : Moves(sure, r2, val, r, c, OfValue) /\ ValueDone(r2, r, h)
  <2>1. Going(r2)
    BY <1>8 DEF Moves
  <2>2. c + 2 \in Nat /\ c <= c + 2
    BY <1>4
  <2>3. Room(sure, r2, c)
    BY <1>4, <1>11, <2>1, <2>2, RoomLess
  <2> QED
    BY <1>8, <1>10, <2>1, <2>3, ValueRead DEF val, c, name
<1>13. CASE Refused(sure, r2, val)
  <2>1. Reads(sure, q, x, r2)
    BY <1>9 DEF Moves
  <2>2. Refused(sure, q, y)
    BY <1>1, <1>4, <1>13, <2>1, RefusedLater DEF y
  <2>3. Refused(sure, q, line)
    BY <1>1, <1>4, <2>2, RefusedOn
  <2> QED
    BY <2>3 DEF line
<1>14. ASSUME NEW r3, Moves(sure, r2, val, r3, c, OfValue), ValueDone(r2, r3, h)
       PROVE  \E r : /\ Moves(sure, q, line, r, Len(line), V) /\ LineDone(q, r, h)
  <2>1. Moves(sure, r2, val, r3, c, V)
    BY <1>14, MovesWider DEF OfValue, V, OfHeader
  <2>2. Moves(sure, q, y, r3, (a + 2) + c, V)
    <3>1. a + 2 \in Nat
      BY <1>4
    <3> QED
      BY <1>1, <1>3, <1>4, <1>9, <2>1, <3>1, MovesOn DEF y
  <2>3. Room(sure, r3, 2)
    <3>1. c + 2 \in Nat /\ c <= c + 2 /\ (c + 2) - c = 2
      BY <1>4
    <3>2. Room(sure, r3, (c + 2) - c)
      BY <1>4, <1>9, <1>11, <2>1, <3>1, RoomNext DEF Moves
    <3> QED
      BY <3>1, <3>2
  <2>4. r3.state = IF h[2] = <<>> THEN "value_discard_ws" ELSE "value"
    BY <1>14 DEF ValueDone
  <2>5. PICK r : /\ Moves(sure, r3, CRLF, r, 2, {"state", "nread"})
                 /\ r.state = IF r3.state = "value" THEN "value_lws" ELSE "value_discard_lws"
    <3>1. Going(r3) /\ r3.state \in {"value", "value_discard_ws"}
      BY <2>1, <2>4 DEF Moves
    <3> QED
      BY <2>3, <3>1, ValueEnd
  <2>6. Moves(sure, q, line, r, Len(line), V)
    <3>1. Moves(sure, r3, CRLF, r, 2, V)
      BY <2>5, MovesWider DEF V, OfHeader
    <3>2. (a + 2) + c \in Nat /\ ((a + 2) + c) + 2 = Len(line)
      BY <1>4, <1>5
    <3>3. Moves(sure, q, y \o CRLF, r, ((a + 2) + c) + 2, V)
      BY <1>1, <1>3, <1>4, <2>2, <3>1, <3>2, MovesOn
    <3> QED
      BY <1>1, <3>2, <3>3
  <2>7. /\ r.field = r2.field /\ r.headers = r2.headers /\ r.value = r3.value /\ r.hs = r3.hs
        /\ r.flags = r3.flags /\ r.len = r3.len
    BY <1>14, <2>5 DEF Moves, Keeps, Fields, OfValue
  <2>8. r.state = IF h[2] = <<>> THEN "value_discard_lws" ELSE "value_lws"
    BY <2>4, <2>5
  <2>9. AtLine(r)
    <3> DEFINE f == Flush(q).field
    <3>1. f \in Seq(Wire)
      <4>1. <<>> \in Seq(Wire)
        BY EmptySeq
      <4> QED
        BY <1>3, <4>1, FlushIs DEF Going
    <3> HIDE DEF f
    <3>2. f \o name \in Seq(Wire)
      BY <1>1, <3>1, LengthIs DEF A
    <3>3. r.field \in Seq(Wire)
      BY <1>10, <2>7, <3>2 DEF f
    <3>4. r.state \in LineStates
      BY <2>8 DEF LineStates
    <3> QED
      BY <2>5, <3>3, <3>4 DEF AtLine, Moves
  <2>10. Flags(r) = Flags(q) \cup Brings(h)
    <3>1. h[1] = CodingName => h[2] # <<>>
      <4>1. <<"chun", "ked">> # <<>>
        OBVIOUS
      <4>2. h[1] = CodingName => h[2] = <<"chun", "ked">>
        BY HeaderIs
      <4> QED
        BY <4>1, <4>2
    <3>2. (r.state = "value_lws" /\ r.hs = "chunked") <=> h[1] = CodingName
      BY <1>14, <2>7, <2>8, <3>1 DEF ValueDone
    <3>3. r.flags = Flags(q) \cup IF h[1] = UpgradeName /\ h[2] # <<>> THEN {"upgrade"} ELSE {}
      BY <1>10, <1>14, <2>7 DEF ValueDone
    <3> DEFINE fl == Flags(q)
    <3> HIDE DEF fl
    <3>4. r.flags = fl \cup IF h[1] = UpgradeName /\ h[2] # <<>> THEN {"upgrade"} ELSE {}
      BY <3>3 DEF fl
    <3>5. Flags(r) = fl \cup Brings(h)
      BY <3>2, <3>4 DEF Flags, Brings
    <3> QED
      BY <3>5 DEF fl
  <2>11. LineDone(q, r, h)
    <3>1. r.field = Flush(q).field \o h[1] /\ r.headers = Flush(q).headers
      BY <1>10, <2>7 DEF name
    <3>2. r.value = Folded(h[2], <<"SP">>) /\ LenRead(h, r.len, q.len)
      BY <1>10, <1>14, <2>7 DEF ValueDone
    <3> QED
      BY <2>8, <2>9, <2>10, <3>1, <3>2 DEF LineDone
  <2> QED
    BY <2>6, <2>11
<1> QED
  BY <1>12, <1>13, <1>14 DEF line, V

-----------------------------------------------------------------------------
(* The headers that are to be delivered, among the lines L; and what the   *)
(* parser holds of them after j lines, a of which no later one can touch.  *)
Sent(h) == <<h[1], Folded(h[2], <<"SP">>)>>
(* A header with a value, behind one with a value.                         *)
Deliverable(L, k) == L[k][2] # <<>> /\ (k = 1 \/ L[k - 1][2] # <<>>)
Kept(L, pairs, n) == \A k \in 1 .. n : Deliverable(L, k) => Sent(L[k]) \in pairs
Between(L, q, j, a) ==
    /\ (j = 0 \/ L[j][2] # <<>>) <=> Flush(q).field = <<>>
    /\ Kept(L, Flush(q).headers, j) /\ Kept(L, q.headers, a)

(* The rest of a sequence.                                                 *)
LEMMA TailIs ==
    ASSUME NEW A, NEW w \in Seq(A), NEW n \in Nat, NEW u \in Nat, Len(w) = n, u <= n
    PROVE  /\ SubSeq(w, u + 1, n) \in Seq(A) /\ Len(SubSeq(w, u + 1, n)) = n - u
           /\ \A i \in 1 .. n - u : SubSeq(w, u + 1, n)[i] = w[u + i]
BY SMTT(30)

(* A name that another one is glued to ends in it.                         *)
LEMMA Glued ==
    ASSUME NEW A, NEW x \in Seq(A), NEW y \in Seq(A), x # <<>>
    PROVE  /\ Len(y) < Len(x \o y)
           /\ y = SubSeq(x \o y, Len(x \o y) - Len(y) + 1, Len(x \o y))
<1> DEFINE z == x \o y
           m == Len(x)
           n == Len(y)
           u == SubSeq(z, Len(z) - n + 1, Len(z))
<1>1. /\ z \in Seq(A) /\ m \in Nat /\ n \in Nat /\ Len(z) = m + n
      /\ \A i \in 1 .. n : z[m + i] = y[i]
  <2>1. /\ z \in Seq(A) /\ Len(z) = m + n
        /\ \A i \in 1 .. Len(x) + Len(y) : z[i] = IF i <= Len(x) THEN x[i] ELSE y[i - Len(x)]
    BY ConcatProperties
  <2>2. m \in Nat /\ n \in Nat
    BY LenProperties
  <2>3. ASSUME NEW i \in 1 .. n PROVE z[m + i] = y[i]
    <3>1. m + i \in 1 .. m + n /\ ~(m + i <= m) /\ (m + i) - m = i
      BY <2>2
    <3> QED
      BY <2>1, <3>1
  <2> QED
    BY <2>1, <2>2, <2>3
<1>2. m # 0
  BY EmptySeq
<1> HIDE DEF z, m
<1>3. u \in Seq(A) /\ Len(u) = n /\ \A i \in 1 .. n : u[i] = z[m + i]
  <2>1. SubSeq(z, m + 1, m + n) \in Seq(A) /\ Len(SubSeq(z, m + 1, m + n)) = n
        /\ \A i \in 1 .. n : SubSeq(z, m + 1, m + n)[i] = z[m + i]
    <3> DEFINE k == m + n
    <3>1. k \in Nat /\ Len(z) = k /\ m <= k /\ k - m = n
      BY <1>1
    <3> HIDE DEF k
    <3>2. SubSeq(z, m + 1, k) \in Seq(A) /\ Len(SubSeq(z, m + 1, k)) = k - m
          /\ \A i \in 1 .. k - m : SubSeq(z, m + 1, k)[i] = z[m + i]
      BY <1>1, <3>1, TailIs
    <3> QED
      BY <3>1, <3>2 DEF k
  <2>2. Len(z) - n + 1 = m + 1 /\ Len(z) = m + n
    BY <1>1
  <2> QED
    BY <2>1, <2>2
<1> HIDE DEF u
<1>4. \A i \in 1 .. n : u[i] = y[i]
  BY <1>1, <1>3
<1>5. u = y
  BY <1>3, <1>4, SeqEqual
<1>6. n < Len(z)
  BY <1>1, <1>2
<1> QED
  BY <1>5, <1>6 DEF u, z

(* A line more: what was kept is kept, since no later header takes its     *)
(* place.                                                                  *)
LEMMA BetweenStep ==
    ASSUME NEW L, NEW n \in Nat, DOMAIN L = 1 .. n, \A i \in 1 .. n : IsHeader(L[i]), NoneReplaced(L),
           NEW q, NEW r, NEW j \in Nat, j + 1 <= n, NEW a \in Nat, a <= j,
           AtLine(q), Between(L, q, j, a), LineDone(q, r, L[j + 1])
    PROVE  Between(L, r, j + 1, a)
<1> DEFINE h == L[j + 1]
           x == Flush(q).field
           y == h[1]
           pairs == Flush(q).headers
           val == Folded(h[2], <<"SP">>)
           f == Flush(r)
<1>0. j + 1 \in 1 .. n /\ j + 1 # 0
  OBVIOUS
<1>1. x \in Seq(Wire)
  <2>1. <<>> \in Seq(Wire)
    BY EmptySeq
  <2> QED
    BY <2>1, FlushIs DEF AtLine, Going
<1>2. y \in Seq(Wire) /\ y # <<>> /\ (val = <<>> <=> h[2] = <<>>)
  <2>1. IsHeader(h)
    BY <1>0
  <2>2. y # <<>>
    BY <2>1, HeaderIs
  <2> DEFINE by == <<"SP">>
  <2>3. y \in Seq(Wire) /\ Folded(h[2], by) \in Seq(Wire) /\ (Len(Folded(h[2], by)) = 0 <=> h[2] = <<>>)
    BY <2>1, LineIs
  <2> DEFINE g == Folded(h[2], by)
  <2>4. val = g
    OBVIOUS
  <2> HIDE DEF g, val, by, h
  <2>5. g = <<>> <=> Len(g) = 0
    BY <2>3, EmptySeq DEF g
  <2> QED
    BY <2>2, <2>3, <2>4, <2>5 DEF g
<1>3. r.field = x \o y /\ r.headers = pairs /\ r.value = val /\ DOMAIN r = Fields
  BY DEF LineDone, AtLine, Going
<1>4. (x \o y = <<>>) = FALSE
  <2>1. Len(x \o y) = Len(x) + Len(y) /\ Len(x) \in Nat /\ Len(y) \in Nat /\ x \o y \in Seq(Wire)
    BY <1>1, <1>2, LengthIs
  <2>2. Len(y) # 0
    BY <1>2, EmptySeq
  <2> HIDE DEF x, y
  <2> QED
    BY <2>1, <2>2, EmptySeq
<1>5. /\ f.field = (IF r.value = <<>> THEN r.field ELSE <<>>)
      /\ f.headers = (IF r.value = <<>> THEN r.headers
                      ELSE {p2 \in r.headers : p2[1] # r.field} \cup {<<r.field, r.value>>})
  BY <1>3, FlushIs
<1>6. /\ (j = 0 \/ L[j][2] # <<>>) <=> x = <<>>
      /\ Kept(L, pairs, j)
  BY DEF Between
<1>7. ASSUME NEW k \in 1 .. j + 1, Deliverable(L, k)
      PROVE  Sent(L[k]) \in f.headers
  <2>0. L[k][2] # <<>> /\ k \in 1 .. n
    BY <1>7 DEF Deliverable
  <2>1. CASE k = j + 1
    <3>1. h[2] # <<>> /\ x = <<>>
      <4>1. j + 1 = 1 => j = 0
        OBVIOUS
      <4>2. (j + 1) - 1 = j
        OBVIOUS
      <4>3. h[2] # <<>> /\ (j + 1 = 1 \/ L[j][2] # <<>>)
        BY <1>7, <2>1, <4>2 DEF Deliverable
      <4> QED
        BY <1>6, <4>1, <4>3
    <3>2. r.field = y
      BY <1>2, <1>3, <3>1, ConcatEmptySeq
    <3>3. <<r.field, r.value>> \in f.headers
      BY <1>2, <1>3, <1>5, <3>1
    <3>4. Sent(L[k]) = <<y, val>>
      BY <2>1 DEF Sent
    <3> QED
      BY <1>3, <3>2, <3>3, <3>4
  <2>2. CASE k # j + 1
    <3>1. k \in 1 .. j /\ k < j + 1
      BY <2>2
    <3>2. Sent(L[k]) \in pairs
      BY <1>6, <1>7, <3>1 DEF Kept
    <3>3. CASE h[2] = <<>>
      BY <1>2, <1>3, <1>5, <3>2, <3>3
    <3>4. CASE h[2] # <<>>
      <4> DEFINE name == L[k][1]
      <4>1. /\ name = y => L[k][2] = h[2]
            /\ L[j][2] = <<>> /\ Len(y) < Len(name) =>
                 y # SubSeq(name, Len(name) - Len(y) + 1, Len(name))
        <5>1. /\ name = y => L[k][2] = h[2]
              /\ L[(j + 1) - 1][2] = <<>> /\ Len(y) < Len(name) =>
                   y # SubSeq(name, Len(name) - Len(y) + 1, Len(name))
          BY <1>0, <2>0, <3>1, <3>4 DEF NoneReplaced
        <5>2. (j + 1) - 1 = j
          OBVIOUS
        <5> QED
          BY <5>1, <5>2
      <4>2. CASE x = <<>>
        <5>1. r.field = y
          BY <1>2, <1>3, <4>2, ConcatEmptySeq
        <5>2. Sent(L[k])[1] = name
          BY DEF Sent
        <5>3. CASE name = y
          <6>1. Sent(L[k]) = <<y, val>>
            BY <4>1, <5>3 DEF Sent
          <6> QED
            BY <1>2, <1>3, <1>5, <3>4, <5>1, <6>1
        <5>4. CASE name # y
          BY <1>2, <1>3, <1>5, <3>2, <3>4, <5>1, <5>2, <5>4
        <5> QED
          BY <5>3, <5>4
      <4>3. CASE x # <<>>
        <5>1. L[j][2] = <<>>
          BY <1>6, <4>3
        <5>2. name # x \o y
          <6>1. /\ Len(y) < Len(x \o y)
                /\ y = SubSeq(x \o y, Len(x \o y) - Len(y) + 1, Len(x \o y))
            BY <1>1, <1>2, <4>3, Glued
          <6> HIDE DEF x, y, name
          <6> QED
            BY <4>1, <5>1, <6>1
        <5>3. Sent(L[k])[1] = name
          BY DEF Sent
        <5> QED
          BY <1>2, <1>3, <1>5, <3>2, <3>4, <5>2, <5>3
      <4> QED
        BY <4>2, <4>3
    <3> QED
      BY <3>3, <3>4
  <2> QED
    BY <2>1, <2>2
<1>8. Kept(L, f.headers, j + 1)
  BY <1>7 DEF Kept
<1>9. Kept(L, r.headers, a)
  <2>1. ASSUME NEW k \in 1 .. a PROVE k \in 1 .. j
    OBVIOUS
  <2> QED
    BY <1>3, <1>6, <2>1 DEF Kept
<1>10. (j + 1 = 0 \/ h[2] # <<>>) <=> f.field = <<>>
  BY <1>0, <1>2, <1>3, <1>4, <1>5
<1> QED
  BY <1>8, <1>9, <1>10 DEF Between

-----------------------------------------------------------------------------
(* The lines hs are those of L behind the first a.                         *)
Segment(L, n, a, hs, m) ==
    /\ n \in Nat /\ DOMAIN L = 1 .. n /\ NoneReplaced(L)
    /\ \A i \in 1 .. n : IsHeader(L[i])
    /\ a \in Nat /\ m \in Nat /\ a + m <= n
    /\ m = Len(hs) /\ DOMAIN hs = 1 .. m /\ \A i \in 1 .. m : hs[i] = L[a + i]
(* No length of more than one digit; the flags that i lines bring; the     *)
(* length behind them.                                                     *)
Short(hs, m) == \A i \in 1 .. m : hs[i][1] = LengthName => Len(hs[i][2]) = 1

Brought(hs, i) == UNION {Brings(hs[k]) : k \in 1 .. i}
LenSeen(hs, i, len, old) ==
    \/ (\A k \in 1 .. i : hs[k][1] # LengthName) /\ len = old
    \/ \E k \in 1 .. i : /\ hs[k][1] = LengthName /\ len = Number(hs[k][2])
                         /\ len \in Nat /\ len < MaxLength

(* What r holds when i of the lines are read.                              *)
LinesDone(L, a, hs, q, r, i) ==
    /\ AtLine(r) /\ Between(L, r, a + i, a)
    /\ Flags(r) = Flags(q) \cup Brought(hs, i) /\ LenSeen(hs, i, r.len, q.len)

(* The next line of the segment.                                           *)
LEMMA SegmentIs ==
    ASSUME NEW L, NEW n, NEW a, NEW hs, NEW m, Segment(L, n, a, hs, m), NEW j \in Nat, j + 1 <= m
    PROVE  /\ hs[j + 1] = L[a + j + 1] /\ IsHeader(hs[j + 1])
           /\ a + j \in Nat /\ a + j + 1 <= n /\ a <= a + j /\ j + 1 \in 1 .. m
<1>1. j + 1 \in 1 .. m /\ a + (j + 1) \in 1 .. n /\ a + j \in Nat /\ a + j + 1 <= n /\ a <= a + j
      /\ a + (j + 1) = a + j + 1
  BY DEF Segment
<1>2. hs[j + 1] = L[a + (j + 1)] /\ IsHeader(L[a + (j + 1)])
  BY <1>1 DEF Segment
<1> QED
  BY <1>1, <1>2

(* The flags and the length behind one line more.                          *)
LEMMA BroughtMore ==
    ASSUME NEW hs, NEW j \in Nat, NEW q, NEW r, NEW s,
           Flags(r) = Flags(q) \cup Brought(hs, j), Flags(s) = Flags(r) \cup Brings(hs[j + 1])
    PROVE  Flags(s) = Flags(q) \cup Brought(hs, j + 1)
<1>1. 1 .. j + 1 = (1 .. j) \cup {j + 1}
  OBVIOUS
<1>2. Brought(hs, j + 1) = Brought(hs, j) \cup Brings(hs[j + 1])
  BY <1>1 DEF Brought
<1> QED
  BY <1>2

LEMMA LenSeenMore ==
    ASSUME NEW hs, NEW j \in Nat, NEW old, NEW len, NEW new,
           LenSeen(hs, j, len, old), LenRead(hs[j + 1], new, len)
    PROVE  LenSeen(hs, j + 1, new, old)
<1>1. /\ j + 1 \in 1 .. j + 1 /\ \A k \in 1 .. j : k \in 1 .. j + 1
      /\ \A k \in 1 .. j + 1 : k # j + 1 => k \in 1 .. j
  OBVIOUS
<1>2. CASE hs[j + 1][1] = LengthName
  BY <1>1, <1>2 DEF LenSeen, LenRead
<1>3. CASE hs[j + 1][1] # LengthName
  <2>1. new = len
    BY <1>3 DEF LenRead
  <2>2. CASE (\A k \in 1 .. j : hs[k][1] # LengthName) /\ len = old
    <3>1. \A k \in 1 .. j + 1 : hs[k][1] # LengthName
      BY <1>1, <1>3, <2>2
    <3> QED
      BY <2>1, <2>2, <3>1 DEF LenSeen
  <2>3. CASE \E k \in 1 .. j : /\ hs[k][1] = LengthName /\ len = Number(hs[k][2])
                               /\ len \in Nat /\ len < MaxLength
    BY <1>1, <2>1, <2>3 DEF LenSeen
  <2> QED
    BY <2>2, <2>3 DEF LenSeen
<1> QED
  BY <1>2, <1>3

(* One more line of a segment.                                             *)
LEMMA LineMore ==
    ASSUME NEW sure \in BOOLEAN, NEW L, NEW n, NEW a, NEW hs, NEW m, Segment(L, n, a, hs, m),
           NEW j \in Nat, j + 1 <= m, sure => Short(hs, m), NEW q, NEW r, NEW u \in Seq(Wire),
           Going(q), Moves(sure, q, u, r, Len(u), OfHeader), LinesDone(L, a, hs, q, r, j),
           HeaderLine(hs[j + 1]) \in Seq(Wire), Room(sure, q, Len(u) + Len(HeaderLine(hs[j + 1])))
    PROVE  \/ Refused(sure, q, u \o HeaderLine(hs[j + 1]))
           \/ \E s : /\ Moves(sure, q, u \o HeaderLine(hs[j + 1]), s,
                              Len(u) + Len(HeaderLine(hs[j + 1])), OfHeader)
                     /\ LinesDone(L, a, hs, q, s, j + 1)
<1> DEFINE h == hs[j + 1]
           line == HeaderLine(h)
           b == Len(u)
           c == Len(line)
<1>1. /\ h = L[a + j + 1] /\ IsHeader(h)
      /\ a + j \in Nat /\ a + j + 1 <= n /\ a <= a + j /\ j + 1 \in 1 .. m
  BY SegmentIs
<1>2. sure => (h[1] = LengthName => Len(h[2]) = 1)
  BY <1>1 DEF Short
<1>3. AtLine(r) /\ Between(L, r, a + j, a)
  BY DEF LinesDone
<1>4. line \in Seq(Wire) /\ b \in Nat /\ c \in Nat
  BY LenProperties
<1>5. Room(sure, q, b + c)
  OBVIOUS
<1>6. Moves(sure, q, u, r, b, OfHeader)
  OBVIOUS
<1> HIDE DEF b, c, h, line
<1>7. Room(sure, r, c)
  <2>1. b <= b + c /\ b + c \in Nat /\ (b + c) - b = c
    BY <1>4
  <2>2. Room(sure, r, (b + c) - b)
    BY <1>4, <1>5, <1>6, <2>1, RoomNext
  <2> QED
    BY <2>1, <2>2
<1>8. \/ Refused(sure, r, line)
      \/ \E s : Moves(sure, r, line, s, c, OfHeader) /\ LineDone(r, s, h)
  <2>1. Room(sure, r, Len(HeaderLine(h)))
    BY <1>7 DEF c, line
  <2> QED
    BY <1>1, <1>2, <1>3, <2>1, HeaderRead DEF line, c
<1>9. CASE Refused(sure, r, line)
  <2>1. Reads(sure, q, u, r)
    BY <1>6 DEF Moves
  <2>2. Refused(sure, q, u \o line)
    BY <1>4, <1>9, <2>1, RefusedLater
  <2> QED
    BY <2>2 DEF line, h
<1>10. ASSUME NEW s, Moves(sure, r, line, s, c, OfHeader), LineDone(r, s, h)
       PROVE  Moves(sure, q, u \o line, s, b + c, OfHeader) /\ LinesDone(L, a, hs, q, s, j + 1)
  <2>1. Moves(sure, q, u \o line, s, b + c, OfHeader)
    BY <1>4, <1>6, <1>10, MovesOn
  <2>2. Between(L, s, a + j + 1, a)
    <3> DEFINE i == a + j
    <3>1. i \in Nat /\ i + 1 <= n /\ a <= i /\ a \in Nat /\ n \in Nat /\ DOMAIN L = 1 .. n
          /\ NoneReplaced(L) /\ (\A k \in 1 .. n : IsHeader(L[k]))
      BY <1>1 DEF Segment
    <3>2. Between(L, r, i, a) /\ LineDone(r, s, L[i + 1])
      BY <1>1, <1>3, <1>10
    <3> HIDE DEF i
    <3>3. Between(L, s, i + 1, a)
      BY <1>3, <3>1, <3>2, BetweenStep
    <3> QED
      BY <3>3 DEF i
  <2>3. Flags(s) = Flags(q) \cup Brought(hs, j + 1)
    <3>1. Flags(r) = Flags(q) \cup Brought(hs, j) /\ Flags(s) = Flags(r) \cup Brings(hs[j + 1])
      BY <1>10 DEF LinesDone, LineDone, h
    <3> QED
      BY <3>1, BroughtMore
  <2>4. LenSeen(hs, j + 1, s.len, q.len)
    <3>1. LenSeen(hs, j, r.len, q.len) /\ LenRead(hs[j + 1], s.len, r.len)
      BY <1>10 DEF LinesDone, LineDone, h
    <3> QED
      BY <3>1, LenSeenMore
  <2>5. a + (j + 1) = a + j + 1
    BY DEF Segment
  <2> QED
    BY <1>10, <2>1, <2>2, <2>3, <2>4, <2>5 DEF LinesDone, LineDone
<1> QED
  BY <1>8, <1>9, <1>10 DEF b, c, line, h

(* flat[j] is what the first j lines of hs are on the wire.                *)
LinesFlat(hs, m, flat) ==
    /\ flat[m] = Lines(hs)
    /\ flat[0] \in Seq(Wire) /\ Len(flat[0]) = 0 /\ flat[0] = <<>>
    /\ \A j \in Nat : j <= m => flat[j] \in Seq(Wire) /\ Len(flat[j]) <= Len(flat[m])
    /\ \A j \in Nat : j + 1 <= m => /\ HeaderLine(hs[j + 1]) \in Seq(Wire)
                                    /\ flat[j + 1] = flat[j] \o HeaderLine(hs[j + 1])

(* The lines of headers, one after the other, exist.                       *)
LEMMA LinesFlatExist ==
    ASSUME NEW hs, NEW m \in Nat, m = Len(hs), DOMAIN hs = 1 .. m, \A i \in 1 .. m : IsHeader(hs[i])
    PROVE  \E flat : LinesFlat(hs, m, flat)
<1> DEFINE S == Seq(Wire)
           g == [i \in DOMAIN hs |-> HeaderLine(hs[i])]
<1>1. \A i \in 1 .. m : HeaderLine(hs[i]) \in S
  <2> SUFFICES ASSUME NEW i \in 1 .. m PROVE HeaderLine(hs[i]) \in S
    OBVIOUS
  <2> DEFINE h == hs[i]
             x == h[1] \o <<":", "SP">>
             y == Folded(h[2], Raw)
  <2>1. /\ HeaderLine(h) = (x \o y) \o CRLF
        /\ h[1] \in Seq(Wire) /\ <<":", "SP">> \in Seq(Wire) /\ y \in Seq(Wire) /\ CRLF \in Seq(Wire)
    BY LineIs
  <2> DEFINE co == <<":", "SP">>
  <2>2. h[1] \o co \in Seq(Wire)
    <3> HIDE DEF co
    <3> QED
      BY <2>1, LengthIs DEF co
  <2>3. x \o y \in Seq(Wire)
    BY <2>1, <2>2, LengthIs
  <2> HIDE DEF x, y
  <2> DEFINE z == x \o y
  <2> HIDE DEF z
  <2>4. z \o CRLF \in Seq(Wire)
    BY <2>1, <2>3, LengthIs DEF z
  <2> QED
    BY <2>1, <2>4 DEF z
<1>2. g = [i \in 1 .. m |-> g[i]] /\ Lines(hs) = FlattenSeq(g)
      /\ \A i \in 1 .. m : g[i] = HeaderLine(hs[i]) /\ g[i] \in S
  BY <1>1 DEF Lines
<1> HIDE DEF g
<1>3. g \in Seq(S) /\ Len(g) = m
  <2>1. g \in [1 .. m -> S]
    BY <1>2
  <2>2. g \in Seq(S) /\ DOMAIN g = 1 .. m
    BY <2>1, SeqDef
  <2> HIDE DEF S
  <2>3. Len(g) = m
    BY <2>2, LenProperties
  <2> QED
    BY <2>2, <2>3 DEF S
<1>4. PICK k, flat : Flattens(Wire, g, k, flat)
  <2>1. g \in Seq(Seq(Wire))
    BY <1>3
  <2> QED
    BY <2>1, FlattensExists
<1>5. k = m /\ flat[m] = Lines(hs) /\ flat[0] \in Seq(Wire) /\ Len(flat[0]) = 0 /\ flat[0] = <<>>
      /\ \A j \in Nat : j <= m => flat[j] \in Seq(Wire)
  BY <1>2, <1>3, <1>4 DEF Flattens
<1>6. ASSUME NEW j \in Nat, j + 1 <= m
      PROVE  /\ HeaderLine(hs[j + 1]) \in Seq(Wire)
             /\ flat[j + 1] = flat[j] \o HeaderLine(hs[j + 1])
  <2>1. j + 1 \in 1 .. m
    BY <1>6
  <2>2. flat[j + 1] = flat[j] \o g[j + 1]
    BY <1>4, <1>5, <1>6 DEF Flattens
  <2> QED
    BY <1>2, <2>1, <2>2
<1> DEFINE size == [j \in Nat |-> Len(flat[j])]
<1>7. ASSUME NEW j \in Nat, j <= m PROVE Len(flat[j]) <= Len(flat[m])
  <2>1. \A i \in Nat : i <= m => size[i] \in Nat
    BY <1>5, LenProperties
  <2>2. ASSUME NEW i \in Nat, i + 1 <= m PROVE size[i] <= size[i + 1]
    <3>1. i <= m
      BY <2>2
    <3> DEFINE x == flat[i]
               y == HeaderLine(hs[i + 1])
    <3>2. x \in Seq(Wire) /\ y \in Seq(Wire) /\ flat[i + 1] = x \o y
      BY <1>5, <1>6, <2>2, <3>1
    <3>3. size[i] = Len(x) /\ size[i + 1] = Len(flat[i + 1])
      OBVIOUS
    <3> HIDE DEF x, y, size
    <3>4. Len(x \o y) = Len(x) + Len(y) /\ Len(x) \in Nat /\ Len(y) \in Nat
      BY <3>2, LengthIs
    <3> QED
      BY <3>2, <3>3, <3>4
  <2>3. size[j] = Len(flat[j]) /\ size[m] = Len(flat[m])
    OBVIOUS
  <2> HIDE DEF size
  <2>4. size[j] <= size[m]
    BY <1>7, <2>1, <2>2, Climbs
  <2> QED
    BY <2>3, <2>4
<1>8. LinesFlat(hs, m, flat)
  BY <1>5, <1>6, <1>7 DEF LinesFlat
<1> QED
  BY <1>8

(* The lines of a segment are read, or refused where that is not excluded. *)
LEMMA LinesRead ==
    ASSUME NEW sure \in BOOLEAN, NEW L, NEW n, NEW a, NEW hs, NEW m, Segment(L, n, a, hs, m),
           sure => Short(hs, m), NEW q, AtLine(q), Between(L, q, a, a), Room(sure, q, Len(Lines(hs)))
    PROVE  /\ Lines(hs) \in Seq(Wire)
           /\ \/ Refused(sure, q, Lines(hs))
              \/ \E r : /\ Moves(sure, q, Lines(hs), r, Len(Lines(hs)), OfHeader)
                        /\ LinesDone(L, a, hs, q, r, m)
<1>1. m \in Nat /\ m = Len(hs) /\ DOMAIN hs = 1 .. m /\ a \in Nat /\ a + 0 = a
  BY DEF Segment
<1>2. \A i \in 1 .. m : IsHeader(hs[i])
  <2>1. ASSUME NEW i \in 1 .. m PROVE IsHeader(hs[i])
    <3>1. a + i \in 1 .. n
      BY DEF Segment
    <3> QED
      BY <3>1 DEF Segment
  <2> QED
    BY <2>1
<1>3. PICK flat : LinesFlat(hs, m, flat)
  BY <1>1, <1>2, LinesFlatExist
<1>4. Going(q)
  BY DEF AtLine
<1> DEFINE V == OfHeader
           P(j) == \/ Refused(sure, q, flat[j])
                   \/ \E r : Moves(sure, q, flat[j], r, Len(flat[j]), V) /\ LinesDone(L, a, hs, q, r, j)
           T == {j \in Nat : j <= m => P(j)}
<1> HIDE DEF V
<1>5. 0 \in T
  <2> DEFINE e == flat[0]
  <2>1. e \in Seq(Wire) /\ Len(e) = 0 /\ e = <<>>
    BY <1>3 DEF LinesFlat
  <2> HIDE DEF e
  <2>2. Reads(sure, q, e, q)
    BY <2>1, ReadsNothing
  <2>3. q.nread = q.nread + 0
    BY <1>4 DEF Going
  <2>4. Moves(sure, q, e, q, 0, V)
    BY <1>4, <2>2, <2>3 DEF Moves, Keeps
  <2>5. Brought(hs, 0) = {} /\ LenSeen(hs, 0, q.len, q.len)
    <3>1. 1 .. 0 = {}
      OBVIOUS
    <3> QED
      BY <3>1 DEF Brought, LenSeen
  <2>6. LinesDone(L, a, hs, q, q, 0)
    BY <1>1, <2>5 DEF LinesDone
  <2>7. P(0)
    BY <2>1, <2>4, <2>6 DEF e
  <2> QED
    BY <2>7
<1>6. ASSUME NEW j \in T PROVE j + 1 \in T
  <2> SUFFICES ASSUME j + 1 <= m PROVE P(j + 1)
    OBVIOUS
  <2> DEFINE u == flat[j]
             line == HeaderLine(hs[j + 1])
  <2>1. j \in Nat /\ j <= m /\ j + 1 <= m /\ j + 1 \in Nat
    BY <1>1
  <2>2. P(j)
    BY <2>1
  <2>3. u \in Seq(Wire) /\ line \in Seq(Wire) /\ flat[j + 1] = u \o line
        /\ Len(flat[j + 1]) <= Len(Lines(hs)) /\ flat[j + 1] \in Seq(Wire) /\ Lines(hs) \in Seq(Wire)
    <3>1. u \in Seq(Wire) /\ line \in Seq(Wire) /\ flat[j + 1] = u \o line
      BY <1>3, <2>1 DEF LinesFlat
    <3>2. Len(flat[j + 1]) <= Len(flat[m]) /\ flat[j + 1] \in Seq(Wire) /\ flat[m] \in Seq(Wire)
      <4>1. m <= m
        BY <1>1
      <4> QED
        BY <1>1, <1>3, <2>1, <4>1 DEF LinesFlat
    <3>3. flat[m] = Lines(hs)
      BY <1>3 DEF LinesFlat
    <3> HIDE DEF u, line
    <3> QED
      BY <3>1, <3>2, <3>3
  <2> HIDE DEF u, line
  <2>4. Len(flat[j + 1]) = Len(u) + Len(line)
    BY <2>3, LengthIs
  <2>5. Room(sure, q, Len(u) + Len(line))
    <3> DEFINE i == Len(flat[j + 1])
               k == Len(Lines(hs))
    <3>1. i \in Nat /\ k \in Nat /\ i <= k
      BY <2>3, LenProperties
    <3>2. Room(sure, q, k)
      OBVIOUS
    <3>3. i = Len(u) + Len(line)
      BY <2>4
    <3> HIDE DEF i, k
    <3>4. Room(sure, q, i)
      BY <1>4, <3>1, <3>2, RoomLess
    <3> QED
      BY <3>3, <3>4
  <2>6. CASE Refused(sure, q, u)
    <3>1. Refused(sure, q, u \o line)
      BY <2>3, <2>6, RefusedOn
    <3> QED
      BY <2>3, <3>1
  <2>7. ASSUME NEW r, Moves(sure, q, u, r, Len(u), V), LinesDone(L, a, hs, q, r, j)
        PROVE  P(j + 1)
    <3>1. \/ Refused(sure, q, u \o line)
          \/ \E s : Moves(sure, q, u \o line, s, Len(u) + Len(line), V) /\ LinesDone(L, a, hs, q, s, j + 1)
      BY <1>4, <2>1, <2>3, <2>5, <2>7, LineMore DEF V, line
    <3> QED
      BY <2>3, <2>4, <3>1
  <2> QED
    BY <2>2, <2>6, <2>7 DEF u
<1>7. T = Nat
  <2>1. T \in SUBSET Nat
    OBVIOUS
  <2> HIDE DEF T
  <2> QED
    BY <1>5, <1>6, <2>1, Counting
<1> HIDE DEF P
<1>8. m \in T /\ m <= m
  BY <1>1, <1>7
<1>9. P(m)
  BY <1>8
<1>10. flat[m] = Lines(hs) /\ flat[m] \in Seq(Wire)
  BY <1>1, <1>3, <1>8 DEF LinesFlat
<1> QED
  BY <1>9, <1>10 DEF P, V

-----------------------------------------------------------------------------
(* A message that is not taken: refused, or failed behind its headers,     *)
(* which the next read reports; and one that ends as f.                    *)
Dead(run) == run.verdict = "false" \/ (run.verdict = "indeterminate" /\ run.p.errno = "bad")
Lost(sure, q, data) == ~sure /\ Dead(ReadOn(Starting(q), data))
Ends(sure, q, data, f) ==
    \/ Lost(sure, q, data)
    \/ \E w \in Seq(Wire), ch \in Wire :
         /\ data = w \o <<ch>> /\ ReadOn(Starting(q), w).verdict = "indeterminate"
         /\ ReadOn(Starting(q), data) = [p |-> f, verdict |-> "true"]

(* What is lost stays so.                                                  *)
LEMMA DeadStays ==
    ASSUME NEW A, NEW run, NEW b \in Seq(A), Dead(run)
    PROVE  Dead(ReadOn(run, b))
<1>1. PICK n, pre : Beginnings(A, b, n, pre)
  BY BeginningsExist
<1>2. n \in Nat /\ n <= n /\ pre[n] = b
  BY <1>1 DEF Beginnings
<1> DEFINE T == {j \in Nat : j <= n => Dead(ReadOn(run, pre[j]))}
<1>3. 0 \in T
  <2>1. ReadOn(run, pre[0]) = run
    BY <1>1, ReadOnIs DEF Beginnings
  <2> QED
    BY <2>1
<1>4. ASSUME NEW j \in T PROVE j + 1 \in T
  <2> SUFFICES ASSUME j + 1 <= n PROVE Dead(ReadOn(run, pre[j + 1]))
    OBVIOUS
  <2> DEFINE u == pre[j]
             ch == b[j + 1]
             x == <<ch>>
             old == ReadOn(run, u)
             new == ReadOn(run, u \o x)
  <2>1. j \in Nat /\ j <= n /\ j + 1 <= n
    BY <1>2
  <2>2. Dead(old)
    BY <2>1
  <2>3. u \in Seq(A) /\ ch \in A /\ pre[j + 1] = Append(u, ch)
    BY <1>1, <2>1 DEF Beginnings
  <2> HIDE DEF u, ch, old, new
  <2>4. pre[j + 1] = u \o x /\ x \in Seq(A)
    BY <2>3, AppendIs
  <2>5. new = ReadAtom(old, ch)
    <3>1. ReadOn(old, <<ch>>) = ReadAtom(old, ch)
      BY ReadOnOne
    <3> HIDE DEF x
    <3>2. new = ReadOn(old, x)
      BY <2>3, <2>4, ReadOnIs DEF new, old
    <3> QED
      BY <3>1, <3>2 DEF x
  <2>6. CASE old.verdict = "false"
    <3>1. new = old
      BY <2>5, <2>6, ParseKnown
    <3> QED
      BY <2>2, <2>4, <3>1 DEF new
  <2>7. CASE old.verdict = "indeterminate" /\ old.p.errno = "bad"
    <3>1. new = [p |-> old.p, verdict |-> "false"]
      BY <2>5, <2>7, ParseBad
    <3>2. Dead(new)
      BY <3>1 DEF Dead
    <3> QED
      BY <2>4, <3>2 DEF new
  <2> QED
    BY <2>2, <2>6, <2>7 DEF Dead
<1>5. T = Nat
  <2>1. T \in SUBSET Nat
    OBVIOUS
  <2> HIDE DEF T
  <2> QED
    BY <1>3, <1>4, <2>1, Counting
<1>6. n \in T
  BY <1>2, <1>5
<1> QED
  BY <1>2, <1>6

(* Lost is lost.                                                           *)
LEMMA LostOn ==
    ASSUME NEW A, NEW a \in Seq(A), NEW b \in Seq(A), NEW sure \in BOOLEAN, NEW q, Lost(sure, q, a)
    PROVE  Lost(sure, q, a \o b)
<1> DEFINE run == ReadOn(Starting(q), a)
<1>1. ReadOn(Starting(q), a \o b) = ReadOn(run, b)
  BY ReadOnIs
<1>2. Dead(run) /\ ~sure
  BY DEF Lost
<1> HIDE DEF run
<1>3. Dead(ReadOn(run, b))
  BY <1>2, DeadStays
<1> QED
  BY <1>1, <1>2, <1>3 DEF Lost

(* What is refused is lost.                                                *)
LEMMA RefusedLost ==
    ASSUME NEW sure \in BOOLEAN, NEW q, NEW data, Refused(sure, q, data)
    PROVE  Lost(sure, q, data)
BY DEF Refused, Lost, Dead

(* What reading a section says, by cases.                                  *)
LEMMA ReadsCases ==
    ASSUME NEW sure \in BOOLEAN, NEW q, NEW data, NEW r, Reads(sure, q, data, r)
    PROVE  ReadOn(Starting(q), data) = Starting(r) \/ Refused(sure, q, data)
BY DEF Reads, Refused

(* What is lost behind a section that is read.                             *)
LEMMA LostLater ==
    ASSUME NEW A, NEW a \in Seq(A), NEW b \in Seq(A), NEW sure \in BOOLEAN, NEW q, NEW r,
           Reads(sure, q, a, r), Lost(sure, r, b)
    PROVE  Lost(sure, q, a \o b)
<1>1. CASE ReadOn(Starting(q), a) = Starting(r)
  <2>1. ReadOn(Starting(q), a \o b) = ReadOn(Starting(r), b)
    BY <1>1, ReadOnIs
  <2> QED
    BY <2>1 DEF Lost
<1>2. CASE Refused(sure, q, a)
  BY <1>2, RefusedLost, LostOn
<1> QED
  BY <1>1, <1>2, ReadsCases

(* A message that ends with one atom.                                      *)
LEMMA EndsAtom ==
    ASSUME NEW sure \in BOOLEAN, NEW q, NEW ch \in Wire, NEW f,
           \/ ReadOn(Starting(q), <<ch>>) = [p |-> f, verdict |-> "true"]
           \/ Lost(sure, q, <<ch>>)
    PROVE  Ends(sure, q, <<ch>>, f)
<1> DEFINE e == <<>>
           x == <<ch>>
<1>1. e \in Seq(Wire) /\ x \in Seq(Wire) /\ e = <<>>
  OBVIOUS
<1> HIDE DEF e, x
<1>2. e \o x = x
  BY <1>1, ConcatEmptySeq
<1>3. ReadOn(Starting(q), e) = Starting(q)
  BY <1>1, ReadOnIs
<1>4. ReadOn(Starting(q), e).verdict = "indeterminate"
  BY <1>3 DEF Starting
<1> QED
  BY <1>1, <1>2, <1>4 DEF Ends, x

(* A message that ends behind a section that is read.                      *)
LEMMA EndsLater ==
    ASSUME NEW a \in Seq(Wire), NEW b \in Seq(Wire), NEW sure \in BOOLEAN, NEW q, NEW r, NEW f,
           Reads(sure, q, a, r), Ends(sure, r, b, f)
    PROVE  Ends(sure, q, a \o b, f)
<1>1. CASE Lost(sure, r, b)
  BY <1>1, LostLater DEF Ends
<1>2. CASE Refused(sure, q, a)
  BY <1>2, RefusedLost, LostOn DEF Ends
<1>3. ASSUME ReadOn(Starting(q), a) = Starting(r), NEW w \in Seq(Wire), NEW ch \in Wire,
             b = w \o <<ch>>, ReadOn(Starting(r), w).verdict = "indeterminate",
             ReadOn(Starting(r), b) = [p |-> f, verdict |-> "true"]
      PROVE  Ends(sure, q, a \o b, f)
  <2>0. ReadOn(Starting(q), a) = Starting(r)
    BY <1>3
  <2> DEFINE x == <<ch>>
  <2>1. x \in Seq(Wire) /\ b = w \o x
    BY <1>3
  <2> HIDE DEF x
  <2>2. a \o b = (a \o w) \o x /\ a \o w \in Seq(Wire)
    <3>0. a \in Seq(Wire) /\ w \in Seq(Wire) /\ x \in Seq(Wire)
      BY <2>1
    <3>1. (a \o w) \o x = a \o (w \o x)
      BY <3>0, ConcatAssociative
    <3>2. a \o w \in Seq(Wire)
      BY LengthIs
    <3> QED
      BY <2>1, <3>1, <3>2
  <2>3. ReadOn(Starting(q), a \o w) = ReadOn(Starting(r), w)
    BY <2>0, ReadOnIs
  <2>4. ReadOn(Starting(q), a \o b) = ReadOn(Starting(r), b)
    BY <2>0, ReadOnIs
  <2> QED
    BY <1>3, <2>2, <2>3, <2>4 DEF Ends, x
<1>4. ReadOn(Starting(q), a) = Starting(r) \/ Refused(sure, q, a)
  BY ReadsCases
<1> QED
  BY <1>1, <1>2, <1>3, <1>4 DEF Ends

-----------------------------------------------------------------------------
(* The empty line behind the headers.                                      *)
LEMMA LastReturn ==
    ASSUME NEW sure \in BOOLEAN, NEW q, AtLine(q), Room(sure, q, 1)
    PROVE  \E t : /\ Moves(sure, q, <<"CR">>, t, 1, {"state", "nread", "flags"})
                  /\ t.state = "headers_almost_done" /\ t.flags = Flags(q)
<1> DEFINE d == Counted(q)
           cr == "CR"
           s == Step(d, cr)
           V == {"state", "nread", "flags"}
<1>0. Going(q) /\ ParsingHeader(q.state) /\ "nread" \in V
  BY DEF AtLine, LineStates, ParsingHeader
<1>1. Going(d) /\ Keeps(q, d, {"nread"}) /\ d.nread = q.nread + 1
  BY <1>0, CountedIs
<1> HIDE DEF d
<1>2. d.state = q.state /\ d.flags = q.flags /\ d.hs = q.hs
  BY <1>1 DEF Keeps, Fields
<1>3. /\ Going(s) /\ s.nread = d.nread /\ Keeps(d, s, V)
      /\ s.state = "headers_almost_done" /\ s.flags = Flags(q)
  <2>1. CASE q.state = "field_start"
    <3>1. s = Go(d, "headers_almost_done")
      BY <1>2, <2>1 DEF Step, UrlUnfinished, UrlFinished, FieldStart, Delimiters
    <3>2. Flags(q) = q.flags
      BY <2>1 DEF Flags
    <3> QED
      BY <1>1, <1>2, <3>1, <3>2 DEF Go, Going, Keeps, Fields
  <2>2. CASE q.state = "value_discard_lws"
    <3>1. s = Go(d, "headers_almost_done")
      BY <1>2, <2>2 DEF Step, UrlUnfinished, UrlFinished, DiscardLws, FieldStart, Delimiters
    <3>2. Flags(q) = q.flags
      BY <2>2 DEF Flags
    <3> QED
      BY <1>1, <1>2, <3>1, <3>2 DEF Go, Going, Keeps, Fields
  <2>3. CASE q.state = "value_lws"
    <3> DEFINE e == [d EXCEPT !.flags = IF d.hs = "chunked" THEN @ \union {"chunked"} ELSE @]
    <3>0. s = FieldStart(e, cr)
      BY <1>2, <2>3 DEF Step, UrlUnfinished, UrlFinished, ValueLws
    <3>1. s = Go(e, "headers_almost_done")
      BY <3>0 DEF FieldStart, Delimiters
    <3>2. Going(e) /\ e.nread = d.nread /\ Keeps(d, e, {"flags"}) /\ e.flags = Flags(q)
      BY <1>1, <1>2, <2>3 DEF Going, Keeps, Fields, Flags
    <3> HIDE DEF e
    <3> QED
      BY <1>1, <1>2, <3>1, <3>2 DEF Go, Going, Keeps, Fields
  <2> QED
    BY <2>1, <2>2, <2>3 DEF AtLine, LineStates
<1> HIDE DEF s, V
<1>4. s.state # "headers_done"
  BY <1>3
<1>5. Moves(sure, q, <<cr>>, s, 1, V)
  BY <1>0, <1>3, <1>4, HeaderAtom DEF s, d
<1> QED
  BY <1>3, <1>5 DEF V

(* What the end of the headers makes of t.                                 *)
NoBody(t) ==
    \/ "upgrade" \in t.flags \/ t.method = <<"C", "ONNECT">>
    \/ "chunked" \notin t.flags /\ t.len \in {0, MaxLength}
(* What f holds when t has read the headers.                               *)
HeadDone(t, f) ==
    /\ DOMAIN f = Fields /\ f.method = t.method /\ f.url = t.url /\ f.version = t.version
    /\ f.body = t.body /\ f.headers = Flush(t).headers /\ f.field = Flush(t).field
    /\ f.value = <<>> /\ f.flags = t.flags /\ f.len = t.len /\ f.nread = 0
    /\ NoBody(t) => f.complete = TRUE
    /\ ~NoBody(t) => /\ f.complete = FALSE /\ f.errno = "ok"
                     /\ f.state = IF "chunked" \in t.flags THEN "chunk_size_start" ELSE "body_identity"

(* The line feed is fed twice: to the end of the headers, and behind it.   *)
LEMMA LastFeed ==
    ASSUME NEW sure \in BOOLEAN, NEW t, Going(t), t.state = "headers_almost_done",
           "trailing" \notin t.flags, Room(sure, t, 2)
    PROVE  \/ Lost(sure, t, <<"LF">>)
           \/ \E f : HeadDone(t, f) /\ ReadOn(Starting(t), <<"LF">>) = Told(f)
<1> DEFINE c == Counted(t)
           ch == "LF"
           run == ReadOn(Starting(t), <<ch>>)
<1>1. Going(c) /\ Keeps(t, c, {"nread"}) /\ c.nread = t.nread + 1
  BY CountedIs DEF ParsingHeader
<1>2. run = ReadAtom([p |-> t, verdict |-> "indeterminate"], ch)
  BY ReadOnOne DEF Starting
<1>3. PICK n \in Nat, room \in Nat : n = t.nread /\ room = MaxHeader
  BY LimitsAssumption DEF Going
<1>4. sure => ~(n + 1 > room) /\ ~(n + 2 > room)
  <2>1. sure => n + 2 <= room
    BY <1>3 DEF Room
  <2>2. n + 2 <= room => ~(n + 1 > room) /\ ~(n + 2 > room)
    OBVIOUS
  <2> QED
    BY <2>1, <2>2
<1>5. CASE n + 1 > room
  <2>1. After(t, ch) = Fail(c)
    BY <1>1, <1>3, <1>5 DEF After
  <2>2. DOMAIN Fail(c) = Fields /\ Fail(c).errno = "bad" /\ t.errno = "ok"
    BY <1>1 DEF Fail, Fields, Going
  <2>3. run = [p |-> Fail(c), verdict |-> "false"]
    BY <1>2, <2>1, <2>2, ParseAtom
  <2>4. run.verdict = "false" /\ ~sure
    BY <1>4, <1>5, <2>3
  <2> HIDE DEF run
  <2> QED
    BY <2>4 DEF Lost, Dead, run
<1>6. CASE ~(n + 1 > room)
  <2> DEFINE s == After(t, ch)
             u == Unpaused(s)
             e == Counted(u)
             k == After(u, ch)
  <2>1. c.state = "headers_almost_done" /\ c.flags = t.flags /\ c.value = t.value /\ c.headers = t.headers
        /\ c.field = t.field /\ c.nread = n + 1 /\ DOMAIN c = Fields
    BY <1>1, <1>3 DEF Keeps, Fields, Going
  <2>2. s = HeadersAlmostDone(c, ch)
    <3>1. s = Step(c, ch)
      BY <1>1, <1>3, <1>6 DEF After
    <3> HIDE DEF c
    <3> QED
      BY <2>1, <3>1 DEF Step, UrlUnfinished, UrlFinished
  <2> HIDE DEF c
  <2>3. s = [Flush(c) EXCEPT !.state = "headers_done", !.errno = "paused"]
    BY <2>1, <2>2 DEF HeadersAlmostDone
  <2> DEFINE g == Flush(c)
  <2>4. /\ DOMAIN g = Fields /\ g.value = <<>> /\ Keeps(c, g, {"headers", "field", "value"})
        /\ g.field = Flush(t).field /\ g.headers = Flush(t).headers
    <3>1. /\ DOMAIN g = Fields /\ g.value = <<>> /\ Keeps(c, g, {"headers", "field", "value"})
          /\ g.field = (IF c.value = <<>> THEN c.field ELSE <<>>)
          /\ g.headers = (IF c.value = <<>> THEN c.headers
                          ELSE {h \in c.headers : h[1] # c.field} \cup {<<c.field, c.value>>})
      BY <2>1, FlushIs
    <3>2. /\ Flush(t).field = (IF t.value = <<>> THEN t.field ELSE <<>>)
          /\ Flush(t).headers = (IF t.value = <<>> THEN t.headers
                          ELSE {h \in t.headers : h[1] # t.field} \cup {<<t.field, t.value>>})
      BY FlushIs DEF Going
    <3> HIDE DEF g
    <3> QED
      BY <2>1, <3>1, <3>2
  <2> HIDE DEF g
  <2>5. /\ DOMAIN s = Fields /\ s.errno = "paused" /\ s.state = "headers_done"
        /\ Keeps(g, s, {"state", "errno"}) /\ s.complete = FALSE
    <3>1. g.complete = FALSE
      BY <1>1, <2>4 DEF Keeps, Fields, Going
    <3> QED
      BY <2>3, <2>4, <3>1 DEF Keeps, Fields, g
  <2>6. run = Told(Feed([q |-> u, used |-> 0], ch).q)
    BY <1>2, <2>5, ParseAtom DEF Going
  <2>7. DOMAIN u = Fields /\ u.errno = "ok" /\ Keeps(s, u, {"errno"})
    <3> HIDE DEF s
    <3> QED
      BY <2>5 DEF Unpaused, Keeps, Fields
  <2> HIDE DEF s, u
  <2>8. Feed([q |-> u, used |-> 0], ch).q = k
    <3> DEFINE b == [q |-> u, used |-> 0]
    <3>1. b.q = u
      OBVIOUS
    <3> HIDE DEF b
    <3>2. Feed(b, ch) = [q |-> After(b.q, ch),
                         used |-> IF Stays(After(b.q, ch)) THEN b.used ELSE b.used + 1]
      BY <2>7, <3>1, FeedIs
    <3> QED
      BY <3>1, <3>2 DEF b
  <2>9. Keeps(t, u, {"nread", "headers", "field", "value", "state", "errno"})
        /\ u.state = "headers_done" /\ u.value = <<>> /\ u.nread = n + 1
        /\ u.field = Flush(t).field /\ u.headers = Flush(t).headers
    BY <1>1, <2>1, <2>4, <2>5, <2>7 DEF Keeps, Fields
  <2>10. e.state = "headers_done" /\ e.nread = n + 2 /\ DOMAIN e = Fields /\ Keeps(u, e, {"nread"})
    <3>1. e = [u EXCEPT !.nread = @ + 1]
      BY <2>9 DEF Counted, ParsingHeader
    <3>2. e.nread = (n + 1) + 1 /\ (n + 1) + 1 = n + 2
      BY <2>7, <2>9, <3>1 DEF Fields
    <3> QED
      BY <2>7, <2>9, <3>1, <3>2 DEF Keeps, Fields
  <2> HIDE DEF e, k
  <2>11. CASE n + 2 > room
    <3>1. k = Fail(e)
      BY <1>3, <2>10, <2>11 DEF After, e, k
    <3>2. k.errno = "bad" /\ k.complete = FALSE
      <4>1. e.complete = t.complete
        BY <2>9, <2>10 DEF Keeps, Fields
      <4> QED
        BY <2>10, <3>1, <4>1 DEF Fail, Fields, Going
    <3>3. run = [p |-> k, verdict |-> "indeterminate"]
      BY <2>6, <2>8, <3>2, ToldLive
    <3>4. run.verdict = "indeterminate" /\ run.p.errno = "bad" /\ ~sure
      BY <1>4, <2>11, <3>2, <3>3
    <3> HIDE DEF run
    <3> QED
      BY <3>4 DEF Lost, Dead, run
  <2>12. CASE ~(n + 2 > room)
    <3>1. k = HeadersDone(e, ch)
      <4>1. k = Step(e, ch)
        BY <1>3, <2>10, <2>12 DEF After, e, k
      <4> QED
        BY <2>10, <4>1 DEF Step, UrlUnfinished, UrlFinished
    <3> DEFINE z == [e EXCEPT !.nread = 0]
    <3>2. DOMAIN z = Fields /\ Keeps(e, z, {"nread"}) /\ z.nread = 0
      BY <2>10 DEF Keeps, Fields
    <3>3. k = (IF "upgrade" \in z.flags \/ z.method = <<"C", "ONNECT">> THEN MessageComplete(z)
               ELSE IF "chunked" \in z.flags THEN Go(z, "chunk_size_start")
               ELSE IF z.len \in {0, MaxLength} THEN MessageComplete(z)
               ELSE Go(z, "body_identity"))
      BY <3>1 DEF HeadersDone
    <3> HIDE DEF z
    <3>4. /\ z.method = t.method /\ z.url = t.url /\ z.version = t.version /\ z.body = t.body
          /\ z.headers = Flush(t).headers /\ z.field = Flush(t).field /\ z.value = <<>>
          /\ z.flags = t.flags /\ z.len = t.len /\ z.complete = FALSE /\ z.errno = "ok"
      BY <2>7, <2>9, <2>10, <3>2 DEF Keeps, Fields, Going
    <3>5. CASE NoBody(t)
      <4>1. k = MessageComplete(z)
        BY <3>3, <3>4, <3>5 DEF NoBody
      <4> QED
        <5>1. HeadDone(t, k)
          BY <3>2, <3>4, <3>5, <4>1 DEF HeadDone, MessageComplete, Fields
        <5> QED
          BY <2>6, <2>8, <5>1
    <3>6. CASE ~NoBody(t)
      <4>1. k = Go(z, IF "chunked" \in t.flags THEN "chunk_size_start" ELSE "body_identity")
        BY <3>3, <3>4, <3>6 DEF NoBody
      <4> QED
        <5>1. HeadDone(t, k)
          BY <3>2, <3>4, <3>6, <4>1 DEF HeadDone, Go, Fields
        <5> QED
          BY <2>6, <2>8, <5>1
    <3> QED
      BY <3>5, <3>6
  <2> QED
    BY <2>11, <2>12
<1> QED
  BY <1>5, <1>6

(* The atom that ends a message.                                           *)
LEMMA FinishAtom ==
    ASSUME NEW sure \in BOOLEAN, NEW q, NEW ch \in Wire, Going(q), NEW s, s = Step(Counted(q), ch),
           DOMAIN s = Fields, s.errno = "paused", s.complete = TRUE, s.state = "start_req",
           sure => Counted(q).nread <= MaxHeader
    PROVE  \E f : Keeps(s, f, {"errno"}) /\ Ends(sure, q, <<ch>>, f)
<1> DEFINE c == Counted(q)
           run == ReadOn(Starting(q), <<ch>>)
           f == Unpaused(s)
<1>0. DOMAIN c = Fields /\ q.errno = "ok"
  BY CountedIs DEF Going
<1>1. run = ReadAtom([p |-> q, verdict |-> "indeterminate"], ch)
  BY ReadOnOne DEF Starting
<1>2. DOMAIN f = Fields /\ Keeps(s, f, {"errno"}) /\ f.complete = TRUE
  BY DEF Unpaused, Keeps, Fields
<1>3. CASE c.nread > MaxHeader
  <2>1. After(q, ch) = Fail(c)
    BY <1>3 DEF After
  <2>2. DOMAIN Fail(c) = Fields /\ Fail(c).errno = "bad"
    BY <1>0 DEF Fail, Fields
  <2>3. run = [p |-> Fail(c), verdict |-> "false"]
    BY <1>0, <1>1, <2>1, <2>2, ParseAtom
  <2>4. ~sure
    <3>1. PICK n \in Nat : n = c.nread
      BY CountedIs DEF Going
    <3>2. PICK m \in Nat : m = MaxHeader
      BY LimitsAssumption
    <3>3. n > m /\ (sure => n <= m)
      BY <1>3, <3>1, <3>2
    <3>4. n > m => ~(n <= m)
      OBVIOUS
    <3> QED
      BY <3>3, <3>4
  <2>5. Lost(sure, q, <<ch>>)
    BY <2>3, <2>4 DEF Lost, Dead
  <2> QED
    BY <1>2, <2>5, EndsAtom
<1>4. CASE ~(c.nread > MaxHeader)
  <2>1. After(q, ch) = s
    BY <1>4 DEF After
  <2>2. run = Told(f)
    BY <1>0, <1>1, <2>1, ParseAtom
  <2>3. Told(f) = [p |-> f, verdict |-> "true"]
    BY <1>2 DEF Told
  <2>4. Ends(sure, q, <<ch>>, f)
    BY <2>2, <2>3, EndsAtom
  <2> QED
    BY <1>2, <2>4
<1> QED
  BY <1>3, <1>4

(* What the end of the headers makes of q, at the start of a line.         *)
HeadOver(q, f) ==
    /\ DOMAIN f = Fields /\ f.method = q.method /\ f.url = q.url /\ f.version = q.version
    /\ f.body = q.body /\ f.headers = Flush(q).headers /\ f.field = Flush(q).field
    /\ f.value = <<>> /\ f.flags = Flags(q) /\ f.len = q.len /\ f.nread = 0
    /\ ~NoBody(f) => /\ Going(f)
                     /\ f.state = IF "chunked" \in f.flags THEN "chunk_size_start" ELSE "body_identity"

(* The end of a line, as its parts.                                        *)
LEMMA CrlfIs ==
    /\ "CR" \in Wire /\ "LF" \in Wire /\ <<"CR">> \in Seq(Wire) /\ <<"LF">> \in Seq(Wire)
    /\ CRLF = <<"CR">> \o <<"LF">>
<1>1. "CR" \in Wire /\ "LF" \in Wire
  BY DEF Wire, Delimiters
<1> QED
  BY <1>1, PairIs DEF CRLF

(* The empty line behind the headers is read.                              *)
LEMMA HeadersEnd ==
    ASSUME NEW sure \in BOOLEAN, NEW q, AtLine(q), "trailing" \notin Flags(q), Room(sure, q, 3)
    PROVE  \/ Lost(sure, q, CRLF)
           \/ \E f : /\ HeadOver(q, f)
                     /\ NoBody(f) => Ends(sure, q, CRLF, f)
                     /\ ~NoBody(f) => Reads(sure, q, CRLF, f)
<1> DEFINE x == <<"CR">>
           y == <<"LF">>
<1>0. x \in Seq(Wire) /\ y \in Seq(Wire) /\ CRLF = x \o y /\ "LF" \in Wire
  BY CrlfIs
<1>1. Going(q)
  BY DEF AtLine
<1>2. PICK t : /\ Moves(sure, q, x, t, 1, {"state", "nread", "flags"})
               /\ t.state = "headers_almost_done" /\ t.flags = Flags(q)
  <2>1. Room(sure, q, 1)
    BY <1>1, RoomLess
  <2> QED
    BY <2>1, LastReturn
<1>3. Room(sure, t, 2)
  <2>1. Room(sure, t, 3 - 1)
    BY <1>1, <1>2, RoomNext
  <2> QED
    BY <2>1
<1>4. \/ Lost(sure, t, <<"LF">>)
      \/ \E f : HeadDone(t, f) /\ ReadOn(Starting(t), <<"LF">>) = Told(f)
  BY <1>2, <1>3, LastFeed DEF Moves
<1>5. Reads(sure, q, x, t)
  BY <1>2 DEF Moves
<1>6. CASE Lost(sure, t, <<"LF">>)
  BY <1>0, <1>5, <1>6, LostLater
<1>7. ASSUME NEW f, HeadDone(t, f), ReadOn(Starting(t), y) = Told(f)
      PROVE  /\ HeadOver(q, f)
             /\ NoBody(f) => Ends(sure, q, CRLF, f)
             /\ ~NoBody(f) => Reads(sure, q, CRLF, f)
  <2>1. /\ t.method = q.method /\ t.url = q.url /\ t.version = q.version /\ t.body = q.body
        /\ t.len = q.len /\ t.headers = q.headers /\ t.field = q.field /\ t.value = q.value
    BY <1>2 DEF Moves, Keeps, Fields
  <2>2. Flush(t).headers = Flush(q).headers /\ Flush(t).field = Flush(q).field
    <3>1. /\ Flush(q).field = (IF q.value = <<>> THEN q.field ELSE <<>>)
          /\ Flush(q).headers = (IF q.value = <<>> THEN q.headers
                          ELSE {h \in q.headers : h[1] # q.field} \cup {<<q.field, q.value>>})
      BY <1>1, FlushIs DEF Going
    <3>2. /\ Flush(t).field = (IF t.value = <<>> THEN t.field ELSE <<>>)
          /\ Flush(t).headers = (IF t.value = <<>> THEN t.headers
                          ELSE {h \in t.headers : h[1] # t.field} \cup {<<t.field, t.value>>})
      BY <1>2, FlushIs DEF Going, Moves
    <3> QED
      BY <2>1, <3>1, <3>2
  <2>3. NoBody(f) <=> NoBody(t)
    BY <1>7 DEF HeadDone, NoBody
  <2>4. HeadOver(q, f)
    BY <1>2, <1>7, <2>1, <2>2, <2>3 DEF HeadOver, HeadDone, Going
  <2>5. ASSUME NoBody(f) PROVE Ends(sure, q, CRLF, f)
    <3>1. ReadOn(Starting(t), y) = [p |-> f, verdict |-> "true"]
      BY <1>7, <2>3, <2>5 DEF HeadDone, Told
    <3>2. Ends(sure, t, y, f)
      BY <1>0, <3>1, EndsAtom
    <3> HIDE DEF x, y
    <3> QED
      BY <1>0, <1>5, <3>2, EndsLater
  <2>6. ASSUME ~NoBody(f) PROVE Reads(sure, q, CRLF, f)
    <3>1. Told(f) = Starting(f)
      BY <1>7, <2>3, <2>6 DEF HeadDone, Told, Starting
    <3>2. Reads(sure, t, y, f)
      BY <1>7, <3>1 DEF Reads
    <3> HIDE DEF x, y
    <3> QED
      BY <1>0, <1>5, <3>2, ReadsOn
  <2> QED
    BY <2>4, <2>5, <2>6
<1> QED
  BY <1>4, <1>6, <1>7

(* The end of the trailers is that of the message.                         *)
SameRequest(q, f) ==
    f.method = q.method /\ f.url = q.url /\ f.headers = q.headers /\ f.body = q.body

(* The empty line behind the trailers is read, and ends the message.       *)
LEMMA TrailersEnd ==
    ASSUME NEW sure \in BOOLEAN, NEW q, AtLine(q), "trailing" \in Flags(q), Room(sure, q, 2)
    PROVE  \E f : SameRequest(q, f) /\ Ends(sure, q, CRLF, f)
<1> DEFINE x == <<"CR">>
           y == <<"LF">>
           lf == "LF"
<1>0. x \in Seq(Wire) /\ y \in Seq(Wire) /\ CRLF = x \o y /\ lf \in Wire
  BY CrlfIs
<1>1. Going(q)
  BY DEF AtLine
<1>2. PICK t : /\ Moves(sure, q, x, t, 1, {"state", "nread", "flags"})
               /\ t.state = "headers_almost_done" /\ t.flags = Flags(q)
  <2>1. Room(sure, q, 1)
    BY <1>1, RoomLess
  <2> QED
    BY <2>1, LastReturn
<1>3. Room(sure, t, 1)
  <2>1. Room(sure, t, 2 - 1)
    BY <1>1, <1>2, RoomNext
  <2> QED
    BY <2>1
<1> DEFINE c == Counted(t)
           s == MessageComplete(c)
<1>4. Going(c) /\ Keeps(t, c, {"nread"}) /\ c.nread = t.nread + 1
  BY <1>2, CountedIs DEF ParsingHeader, Moves
<1> HIDE DEF c
<1>5. c.state = "headers_almost_done" /\ "trailing" \in c.flags
  BY <1>2, <1>4 DEF Keeps, Fields
<1>6. s = Step(c, lf)
  BY <1>5 DEF Step, UrlUnfinished, UrlFinished, HeadersAlmostDone
<1>7. /\ DOMAIN s = Fields /\ s.errno = "paused" /\ s.complete = TRUE /\ s.state = "start_req"
      /\ Keeps(c, s, {"complete", "errno", "state"})
  BY <1>4 DEF MessageComplete, Going, Fields, Keeps
<1> HIDE DEF s
<1>8. sure => c.nread <= MaxHeader
  BY <1>3, <1>4 DEF Room
<1>9. PICK f : Keeps(s, f, {"errno"}) /\ Ends(sure, t, <<lf>>, f)
  <2>1. Going(t)
    BY <1>2 DEF Moves
  <2> HIDE DEF lf
  <2> QED
    BY <1>0, <1>6, <1>7, <1>8, <2>1, FinishAtom DEF c
<1>10. SameRequest(q, f)
  BY <1>2, <1>4, <1>7, <1>9 DEF SameRequest, Moves, Keeps, Fields
<1>11. Reads(sure, q, x, t) /\ Ends(sure, t, y, f)
  BY <1>2, <1>9 DEF Moves
<1> HIDE DEF x, y
<1>12. Ends(sure, q, CRLF, f)
  BY <1>0, <1>11, EndsLater
<1> QED
  BY <1>10, <1>12

-----------------------------------------------------------------------------
(* A body whose length is known: left atoms are missing behind u.          *)
InBodyOf(q, r, u, left) ==
    /\ Going(r) /\ r.state = "body_identity" /\ r.body = u /\ r.len = left /\ r.nread = 0
    /\ r.method = q.method /\ r.url = q.url /\ r.headers = q.headers

(* An atom of the body.                                                    *)
LEMMA BodyStep ==
    ASSUME NEW q, NEW r, NEW u \in Seq(Wire), NEW left \in Nat, left > 0, InBodyOf(q, r, u, left),
           NEW ch \in Wire
    PROVE  /\ Counted(r).nread = 0
           /\ LET s == Step(Counted(r), ch)
              IN  /\ left > 1 => InBodyOf(q, s, u \o <<ch>>, left - 1)
                  /\ left = 1 => /\ DOMAIN s = Fields /\ s.errno = "paused" /\ s.complete = TRUE
                                 /\ s.state = "start_req" /\ s.body = u \o <<ch>>
                                 /\ s.method = q.method /\ s.url = q.url /\ s.headers = q.headers
<1> DEFINE d == Counted(r)
           s == Step(d, ch)
           e == [d EXCEPT !.len = @ - 1, !.body = Append(@, ch)]
<1>1. Going(d) /\ Keeps(r, d, {"nread"}) /\ d.nread = r.nread
  BY CountedIs DEF InBodyOf, ParsingHeader
<1> HIDE DEF d
<1>2. d.state = "body_identity" /\ d.body = u /\ d.len = left /\ d.nread = 0
      /\ d.method = q.method /\ d.url = q.url /\ d.headers = q.headers
  BY <1>1 DEF Keeps, Fields, InBodyOf
<1>3. s = IF e.len = 0 THEN MessageComplete(e) ELSE e
  BY <1>2 DEF Step, UrlUnfinished, UrlFinished, BodyIdentity
<1>4. /\ Going(e) /\ e.state = "body_identity" /\ e.body = Append(u, ch) /\ e.len = left - 1 /\ e.nread = 0
      /\ e.method = q.method /\ e.url = q.url /\ e.headers = q.headers
  BY <1>1, <1>2 DEF Going, Fields
<1>5. Append(u, ch) = u \o <<ch>>
  BY AppendIs
<1> HIDE DEF e, s
<1>6. ASSUME left > 1 PROVE InBodyOf(q, s, u \o <<ch>>, left - 1)
  <2>1. e.len # 0
    BY <1>4, <1>6
  <2> QED
    BY <1>3, <1>4, <1>5, <2>1 DEF InBodyOf
<1>7. ASSUME left = 1
      PROVE  /\ DOMAIN s = Fields /\ s.errno = "paused" /\ s.complete = TRUE
             /\ s.state = "start_req" /\ s.body = u \o <<ch>>
             /\ s.method = q.method /\ s.url = q.url /\ s.headers = q.headers
  <2>1. e.len = 0
    BY <1>4, <1>7
  <2>2. s = MessageComplete(e)
    BY <1>3, <2>1
  <2> QED
    BY <1>4, <1>5, <2>2 DEF MessageComplete, Going, Fields
<1> QED
  BY <1>2, <1>6, <1>7 DEF s, d

(* The start of a body; and what data is when k atoms are due.             *)
Nothing(e) == e \in Seq(Wire) /\ e = <<>>
BodyDone(sure, q, data, k) ==
    /\ Len(data) < k => \E r : Reads(sure, q, data, r)
    /\ Len(data) = k =>
         \E f : /\ Ends(sure, q, data, f) /\ f.body = data
                /\ f.method = q.method /\ f.url = q.url /\ f.headers = q.headers

(* A body of k atoms ends the message with its last one.                   *)
LEMMA BodyRead ==
    ASSUME NEW sure \in BOOLEAN, NEW q, NEW e, Nothing(e), NEW k \in Nat, k > 0,
           InBodyOf(q, q, e, k), NEW data \in Seq(Wire), Len(data) <= k
    PROVE  BodyDone(sure, q, data, k)
<1>0. e \in Seq(Wire) /\ e = <<>>
  BY DEF Nothing
<1>1. PICK n, pre : Beginnings(Wire, data, n, pre)
  BY BeginningsExist
<1>2. n \in Nat /\ n = Len(data) /\ pre[n] = data /\ n <= k /\ n <= n
  BY <1>1 DEF Beginnings
<1> DEFINE P(j, r) == Reads(sure, q, pre[j], r) /\ InBodyOf(q, r, pre[j], k - j)
           T == {j \in Nat : j <= n /\ j < k => \E r : P(j, r)}
<1>3. 0 \in T
  <2>1. pre[0] \in Seq(Wire) /\ pre[0] = <<>>
    BY <1>1 DEF Beginnings
  <2>2. Reads(sure, q, pre[0], q)
    BY <2>1, ReadsNothing
  <2>3. k - 0 = k
    OBVIOUS
  <2>4. P(0, q)
    BY <1>0, <2>1, <2>2, <2>3
  <2> QED
    BY <2>4
<1>4. ASSUME NEW j \in Nat, j + 1 <= n
      PROVE  /\ pre[j] \in Seq(Wire) /\ data[j + 1] \in Wire
             /\ pre[j + 1] = pre[j] \o <<data[j + 1]>> /\ <<data[j + 1]>> \in Seq(Wire)
  <2>1. j <= n
    BY <1>2, <1>4
  <2>2. pre[j] \in Seq(Wire) /\ data[j + 1] \in Wire /\ pre[j + 1] = Append(pre[j], data[j + 1])
    BY <1>1, <1>4, <2>1 DEF Beginnings
  <2> QED
    BY <2>2, AppendIs
<1>5. ASSUME NEW j \in T PROVE j + 1 \in T
  <2> SUFFICES ASSUME j + 1 <= n, j + 1 < k PROVE \E s : P(j + 1, s)
    OBVIOUS
  <2>1. j \in Nat /\ j <= n /\ j < k /\ j + 1 <= n /\ k - j \in Nat /\ k - j > 1 /\ k - j > 0
        /\ (k - j) - 1 = k - (j + 1)
    BY <1>2
  <2>2. PICK r : P(j, r)
    BY <2>1
  <2> DEFINE u == pre[j]
             ch == data[j + 1]
             left == k - j
             s == Step(Counted(r), ch)
  <2>3. u \in Seq(Wire) /\ ch \in Wire /\ pre[j + 1] = u \o <<ch>> /\ <<ch>> \in Seq(Wire)
    BY <1>4, <2>1
  <2>4. left \in Nat /\ left > 1 /\ left > 0 /\ left - 1 = k - (j + 1)
    BY <2>1
  <2>5. Reads(sure, q, u, r) /\ InBodyOf(q, r, u, left)
    BY <2>2
  <2> HIDE DEF u, ch, left
  <2>6. Counted(r).nread = 0 /\ InBodyOf(q, s, u \o <<ch>>, left - 1)
    BY <2>3, <2>4, <2>5, BodyStep
  <2> HIDE DEF s
  <2>7. Reads(sure, r, <<ch>>, s)
    <3>1. Counted(r).nread <= MaxHeader
      BY <2>6, LimitsAssumption
    <3>2. DOMAIN s = Fields /\ s.errno = "ok" /\ s.complete = FALSE /\ s.state # "headers_done"
      BY <2>6 DEF InBodyOf, Going
    <3>3. Going(r)
      BY <2>5 DEF InBodyOf
    <3> QED
      BY <3>1, <3>2, <3>3, OneAtom DEF s
  <2> DEFINE x == <<ch>>
  <2> HIDE DEF x
  <2>8. Reads(sure, q, u \o x, s)
    BY <2>3, <2>5, <2>7, ReadsOn DEF x
  <2>9. Reads(sure, q, pre[j + 1], s) /\ InBodyOf(q, s, pre[j + 1], k - (j + 1))
    BY <2>3, <2>4, <2>6, <2>8 DEF x
  <2> QED
    BY <2>9
<1>6. T = Nat
  <2>1. T \in SUBSET Nat
    OBVIOUS
  <2> HIDE DEF T
  <2> QED
    BY <1>3, <1>5, <2>1, Counting
<1> HIDE DEF P
<1>7. ASSUME n < k PROVE \E r : Reads(sure, q, data, r)
  <2>1. n \in T
    BY <1>2, <1>6
  <2>2. PICK r : P(n, r)
    BY <1>2, <1>7, <2>1
  <2> QED
    BY <1>2, <2>2 DEF P
<1>8. ASSUME n = k
      PROVE  \E f : /\ Ends(sure, q, data, f) /\ f.body = data
                    /\ f.method = q.method /\ f.url = q.url /\ f.headers = q.headers
  <2> DEFINE j == n - 1
  <2>1. j \in Nat /\ j <= n /\ j < k /\ j + 1 <= n /\ k - j = 1
    BY <1>2, <1>8
  <2>0. j + 1 = n
    BY <1>2
  <2> HIDE DEF j
  <2>2. j \in T
    BY <1>6, <2>1
  <2>3. PICK r : P(j, r)
    BY <2>1, <2>2
  <2> DEFINE u == pre[j]
             ch == data[j + 1]
             x == <<ch>>
             left == 1
             s == Step(Counted(r), ch)
  <2>4. u \in Seq(Wire) /\ ch \in Wire /\ pre[j + 1] = u \o x /\ x \in Seq(Wire)
    BY <1>4, <2>1
  <2>5. Reads(sure, q, u, r) /\ InBodyOf(q, r, u, left)
    BY <2>1, <2>3 DEF P
  <2>6. left \in Nat /\ left > 0 /\ left = 1
    OBVIOUS
  <2>7. data = u \o x
    BY <1>2, <2>0, <2>4
  <2> HIDE DEF u, ch, left
  <2>8. /\ Counted(r).nread = 0
        /\ DOMAIN s = Fields /\ s.errno = "paused" /\ s.complete = TRUE
        /\ s.state = "start_req" /\ s.body = u \o x
        /\ s.method = q.method /\ s.url = q.url /\ s.headers = q.headers
    <3>1. /\ Counted(r).nread = 0
          /\ LET z == Step(Counted(r), ch)
             IN  /\ left > 1 => InBodyOf(q, z, u \o <<ch>>, left - 1)
                 /\ left = 1 => /\ DOMAIN z = Fields /\ z.errno = "paused" /\ z.complete = TRUE
                                /\ z.state = "start_req" /\ z.body = u \o <<ch>>
                                /\ z.method = q.method /\ z.url = q.url /\ z.headers = q.headers
      BY <2>4, <2>5, <2>6, BodyStep
    <3> QED
      BY <2>6, <3>1
  <2> HIDE DEF s
  <2>9. PICK f : Keeps(s, f, {"errno"}) /\ Ends(sure, r, <<ch>>, f)
    <3>1. Counted(r).nread <= MaxHeader
      BY <2>8, LimitsAssumption
    <3>2. Going(r)
      BY <2>5 DEF InBodyOf
    <3> QED
      BY <2>4, <2>8, <3>1, <3>2, FinishAtom DEF s
  <2>10. f.body = data /\ f.method = q.method /\ f.url = q.url /\ f.headers = q.headers
    BY <2>7, <2>8, <2>9 DEF Keeps, Fields
  <2> HIDE DEF x
  <2>11. Ends(sure, q, u \o x, f)
    BY <2>4, <2>5, <2>9, EndsLater DEF x
  <2> QED
    BY <2>7, <2>10, <2>11
<1> QED
  BY <1>2, <1>7, <1>8 DEF BodyDone

-----------------------------------------------------------------------------
(* A body in chunks: u was read of it.                                     *)
ChunkFields == {"state", "len", "body", "nread"}
(* What q holds among the chunks, and the atoms that may be next there.    *)
ChunkAt(q0, q, st, u, len, n) ==
    /\ Going(q) /\ q.state = st /\ q.body = u /\ q.len = len /\ q.nread = n
    /\ Keeps(q0, q, ChunkFields)
ChunkGoes(st, u, len, n, ch, st2, u2, len2, n2) ==
    \/ /\ st = "chunk_size_start" /\ ch \in DOMAIN Digits
       /\ st2 = "chunk_size" /\ u2 = u /\ len2 = Digits[ch] /\ n2 = n + 1
    \/ /\ st = "chunk_size" /\ ch = "CR"
       /\ st2 = "chunk_size_almost_done" /\ u2 = u /\ len2 = len /\ n2 = n + 1
    \/ /\ st = "chunk_size_almost_done" /\ ch = "LF" /\ len # 0
       /\ st2 = "chunk_data" /\ u2 = u /\ len2 = len /\ n2 = 0
    \/ /\ st = "chunk_data" /\ len \in {1, 2} /\ u2 = Append(u, ch) /\ len2 = len - 1 /\ n2 = n
       /\ st2 = IF len = 1 THEN "chunk_data_almost_done" ELSE "chunk_data"
    \/ /\ st = "chunk_data_almost_done" /\ ch = "CR"
       /\ st2 = "chunk_data_done" /\ u2 = u /\ len2 = len /\ n2 = n
    \/ /\ st = "chunk_data_done" /\ ch = "LF"
       /\ st2 = "chunk_size_start" /\ u2 = u /\ len2 = len /\ n2 = 0

(* Such an atom is read.                                                   *)
LEMMA ChunkAtom ==
    ASSUME NEW sure \in BOOLEAN, NEW q0, NEW q, NEW st, NEW u, NEW len, NEW n \in Nat,
           ChunkAt(q0, q, st, u, len, n), sure => n + 1 <= MaxHeader, NEW ch,
           NEW st2, NEW u2, NEW len2, NEW n2 \in Nat,
           ChunkGoes(st, u, len, n, ch, st2, u2, len2, n2)
    PROVE  \E r : Reads(sure, q, <<ch>>, r) /\ ChunkAt(q0, r, st2, u2, len2, n2)
<1> DEFINE d == Counted(q)
           s == Step(d, ch)
<1>0. Going(q) /\ q.state = st
  BY DEF ChunkAt
<1>1. /\ Going(d) /\ Keeps(q, d, {"nread"})
      /\ d.nread = IF ParsingHeader(q.state) THEN q.nread + 1 ELSE q.nread
  BY <1>0, CountedIs
<1> HIDE DEF d
<1>2. d.state = st /\ d.body = u /\ d.len = len /\ Keeps(q0, d, ChunkFields)
  BY <1>1 DEF Keeps, Fields, ChunkAt, ChunkFields
<1>3. d.nread \in {n, n + 1}
  BY <1>1 DEF ChunkAt
<1>4. sure => d.nread <= MaxHeader
  <2>1. PICK room \in Nat : room = MaxHeader
    BY LimitsAssumption
  <2>2. n + 1 <= room => n <= room
    OBVIOUS
  <2>3. CASE d.nread = n
    BY <2>1, <2>2, <2>3
  <2>4. CASE d.nread = n + 1
    BY <2>4
  <2> QED
    BY <1>3, <2>3, <2>4
<1>5. ChunkAt(q0, s, st2, u2, len2, n2) /\ s.state # "headers_done"
  <2>1. CASE /\ st = "chunk_size_start" /\ ch \in DOMAIN Digits
             /\ st2 = "chunk_size" /\ u2 = u /\ len2 = Digits[ch] /\ n2 = n + 1
    <3>1. s = [d EXCEPT !.len = Digits[ch], !.state = "chunk_size"]
      BY <1>2, <2>1 DEF Step, UrlUnfinished, UrlFinished, ChunkSize
    <3>2. d.nread = n + 1
      BY <1>0, <1>1, <2>1 DEF ParsingHeader, ChunkAt
    <3> HIDE DEF s
    <3> QED
      BY <1>1, <1>2, <2>1, <3>1, <3>2 DEF ChunkAt, Going, Keeps, Fields, ChunkFields
  <2>2. CASE /\ st = "chunk_size" /\ ch = "CR"
             /\ st2 = "chunk_size_almost_done" /\ u2 = u /\ len2 = len /\ n2 = n + 1
    <3>1. s = Go(d, "chunk_size_almost_done")
      BY <1>2, <2>2 DEF Step, UrlUnfinished, UrlFinished, ChunkSize, Digits
    <3>2. d.nread = n + 1
      BY <1>0, <1>1, <2>2 DEF ParsingHeader, ChunkAt
    <3> HIDE DEF s
    <3> QED
      BY <1>1, <1>2, <2>2, <3>1, <3>2 DEF ChunkAt, Going, Keeps, Fields, ChunkFields, Go
  <2>3. CASE /\ st = "chunk_size_almost_done" /\ ch = "LF" /\ len # 0
             /\ st2 = "chunk_data" /\ u2 = u /\ len2 = len /\ n2 = 0
    <3>1. s = [d EXCEPT !.nread = 0, !.state = "chunk_data"]
      BY <1>2, <2>3 DEF Step, UrlUnfinished, UrlFinished, ChunkSize
    <3> HIDE DEF s
    <3> QED
      BY <1>1, <1>2, <2>3, <3>1 DEF ChunkAt, Going, Keeps, Fields, ChunkFields
  <2>4. CASE /\ st = "chunk_data" /\ len \in {1, 2} /\ u2 = Append(u, ch) /\ len2 = len - 1 /\ n2 = n
             /\ st2 = IF len = 1 THEN "chunk_data_almost_done" ELSE "chunk_data"
    <3>0. s = ChunkData(d, ch)
      BY <1>2, <2>4 DEF Step, UrlUnfinished, UrlFinished
    <3>1. s = [d EXCEPT !.len = @ - 1, !.body = Append(@, ch),
                        !.state = IF d.len = 1 THEN "chunk_data_almost_done" ELSE @]
      BY <1>2, <2>4, <3>0 DEF ChunkData
    <3>2. d.nread = n
      BY <1>0, <1>1, <2>4 DEF ParsingHeader, ChunkAt
    <3> HIDE DEF s
    <3> QED
      BY <1>1, <1>2, <2>4, <3>1, <3>2 DEF ChunkAt, Going, Keeps, Fields, ChunkFields
  <2>5. CASE /\ st = "chunk_data_almost_done" /\ ch = "CR"
             /\ st2 = "chunk_data_done" /\ u2 = u /\ len2 = len /\ n2 = n
    <3>1. s = Go(d, "chunk_data_done")
      BY <1>2, <2>5 DEF Step, UrlUnfinished, UrlFinished, ChunkData, Expect
    <3>2. d.nread = n
      BY <1>0, <1>1, <2>5 DEF ParsingHeader, ChunkAt
    <3> HIDE DEF s
    <3> QED
      BY <1>1, <1>2, <2>5, <3>1, <3>2 DEF ChunkAt, Going, Keeps, Fields, ChunkFields, Go
  <2>6. CASE /\ st = "chunk_data_done" /\ ch = "LF"
             /\ st2 = "chunk_size_start" /\ u2 = u /\ len2 = len /\ n2 = 0
    <3>1. s = [d EXCEPT !.nread = 0, !.state = "chunk_size_start"]
      BY <1>2, <2>6 DEF Step, UrlUnfinished, UrlFinished, ChunkData
    <3> HIDE DEF s
    <3> QED
      BY <1>1, <1>2, <2>6, <3>1 DEF ChunkAt, Going, Keeps, Fields, ChunkFields
  <2> QED
    BY <2>1, <2>2, <2>3, <2>4, <2>5, <2>6 DEF ChunkGoes
<1> HIDE DEF s
<1>6. DOMAIN s = Fields /\ s.errno = "ok" /\ s.complete = FALSE
  BY <1>5 DEF ChunkAt, Going
<1>7. Reads(sure, q, <<ch>>, s)
  BY <1>0, <1>4, <1>5, <1>6, OneAtom DEF s, d
<1> QED
  BY <1>5, <1>7

(* The size of a chunk and the end of its line, but for the line feed.     *)
LEMMA SizeRead ==
    ASSUME NEW sure \in BOOLEAN, NEW q0, NEW q, NEW u, NEW len,
           ChunkAt(q0, q, "chunk_size_start", u, len, 0), sure => 3 <= MaxHeader,
           NEW ch \in DOMAIN Digits
    PROVE  \E r : /\ Reads(sure, q, <<ch, "CR">>, r)
                  /\ ChunkAt(q0, r, "chunk_size_almost_done", u, Digits[ch], 2)
<1> DEFINE s0 == "chunk_size_start"
           s1 == "chunk_size"
           s2 == "chunk_size_almost_done"
           cr == "CR"
           k == Digits[ch]
           A == {ch, cr}
<1>1. 0 \in Nat /\ 1 \in Nat /\ 2 \in Nat /\ 0 + 1 = 1 /\ 1 + 1 = 2
  OBVIOUS
<1>2. sure => 0 + 1 <= MaxHeader /\ 1 + 1 <= MaxHeader
  <2>1. PICK room \in Nat : room = MaxHeader
    BY LimitsAssumption
  <2> QED
    BY <2>1
<1>3. ChunkGoes(s0, u, len, 0, ch, s1, u, k, 1) /\ ChunkGoes(s1, u, k, 1, cr, s2, u, k, 2)
  BY <1>1 DEF ChunkGoes
<1>4. ChunkAt(q0, q, s0, u, len, 0)
  OBVIOUS
<1>5. <<ch>> \in Seq(A) /\ <<cr>> \in Seq(A) /\ <<ch>> \o <<cr>> = <<ch, cr>>
  BY PairIs
<1> HIDE DEF s0, s1, s2, cr, k, A
<1>6. PICK t : Reads(sure, q, <<ch>>, t) /\ ChunkAt(q0, t, s1, u, k, 1)
  BY <1>1, <1>2, <1>3, <1>4, ChunkAtom
<1>7. PICK r : Reads(sure, t, <<cr>>, r) /\ ChunkAt(q0, r, s2, u, k, 2)
  BY <1>1, <1>2, <1>3, <1>6, ChunkAtom
<1>8. Reads(sure, q, <<ch>> \o <<cr>>, r)
  BY <1>5, <1>6, <1>7, ReadsOn
<1> QED
  BY <1>5, <1>7, <1>8 DEF cr, s2, k

(* What a sequence of one or two atoms is.                                 *)
LEMMA ShortIs ==
    ASSUME NEW A, NEW t \in Seq(A)
    PROVE  /\ Len(t) = 1 => t[1] \in A /\ t = <<t[1]>>
           /\ Len(t) = 2 => t[1] \in A /\ t[2] \in A /\ t = <<t[1]>> \o <<t[2]>>
<1>1. ASSUME Len(t) = 1 PROVE t[1] \in A /\ t = <<t[1]>>
  <2>1. 1 \in 1 .. Len(t)
    BY <1>1
  <2>2. t[1] \in A
    BY <2>1, ElementOfSeq
  <2> DEFINE w == <<t[1]>>
  <2>3. w \in Seq(A) /\ Len(w) = 1 /\ w[1] = t[1]
    BY <2>2
  <2>4. \A i \in 1 .. Len(t) : t[i] = w[i]
    <3>1. \A i \in 1 .. 1 : i = 1
      OBVIOUS
    <3> HIDE DEF w
    <3> QED
      BY <1>1, <2>3, <3>1
  <2> HIDE DEF w
  <2>5. t = w
    BY <1>1, <2>3, <2>4, SeqEqual
  <2> QED
    BY <2>2, <2>5 DEF w
<1>2. ASSUME Len(t) = 2 PROVE t[1] \in A /\ t[2] \in A /\ t = <<t[1]>> \o <<t[2]>>
  <2>1. 1 \in 1 .. Len(t) /\ 2 \in 1 .. Len(t)
    BY <1>2
  <2>2. t[1] \in A /\ t[2] \in A
    BY <2>1, ElementOfSeq
  <2> DEFINE w == <<t[1], t[2]>>
  <2>3. w \in Seq(A) /\ Len(w) = 2 /\ w[1] = t[1] /\ w[2] = t[2]
    BY <2>2
  <2>4. \A i \in 1 .. Len(t) : t[i] = w[i]
    <3>1. \A i \in 1 .. 2 : i = 1 \/ i = 2
      OBVIOUS
    <3> HIDE DEF w
    <3> QED
      BY <1>2, <2>3, <3>1
  <2> HIDE DEF w
  <2>5. t = w
    BY <1>2, <2>3, <2>4, SeqEqual
  <2>6. w = <<t[1]>> \o <<t[2]>>
    BY PairIs DEF w
  <2> QED
    BY <2>2, <2>5, <2>6
<1> QED
  BY <1>1, <1>2

(* One or two atoms of a chunk.                                            *)
LEMMA DataRead ==
    ASSUME NEW sure \in BOOLEAN, NEW q0, NEW q, NEW u \in Seq(Wire), NEW data \in Seq(Wire),
           Len(data) \in {1, 2}, ChunkAt(q0, q, "chunk_data", u, Len(data), 0), sure => 3 <= MaxHeader
    PROVE  \E r : /\ Reads(sure, q, data, r)
                  /\ ChunkAt(q0, r, "chunk_data_almost_done", u \o data, 0, 0)
<1> DEFINE s1 == "chunk_data"
           s2 == "chunk_data_almost_done"
           a == data[1]
           b == data[2]
<1>1. 0 \in Nat /\ (sure => 0 + 1 <= MaxHeader)
  <2>1. PICK room \in Nat : room = MaxHeader
    BY LimitsAssumption
  <2> QED
    BY <2>1
<1>2. CASE Len(data) = 1
  <2>1. a \in Wire /\ data = <<a>>
    BY <1>2, ShortIs
  <2>2. ChunkAt(q0, q, s1, u, 1, 0)
    BY <1>2
  <2>3. ChunkGoes(s1, u, 1, 0, a, s2, Append(u, a), 0, 0)
    BY DEF ChunkGoes
  <2>4. Append(u, a) = u \o <<a>>
    BY <2>1, AppendIs
  <2> HIDE DEF a, s1, s2
  <2>5. \E r : Reads(sure, q, <<a>>, r) /\ ChunkAt(q0, r, s2, Append(u, a), 0, 0)
    BY <1>1, <2>2, <2>3, ChunkAtom
  <2> QED
    BY <2>1, <2>4, <2>5 DEF s2
<1>3. CASE Len(data) = 2
  <2>1. a \in Wire /\ b \in Wire /\ data = <<a>> \o <<b>>
    BY <1>3, ShortIs
  <2>2. ChunkAt(q0, q, s1, u, 2, 0)
    BY <1>3
  <2> DEFINE v == Append(u, a)
             x == <<a>>
             y == <<b>>
  <2>3. ChunkGoes(s1, u, 2, 0, a, s1, v, 1, 0)
    BY DEF ChunkGoes
  <2>4. v = u \o x /\ x \in Seq(Wire)
    BY <2>1, AppendIs
  <2>5. v \in Seq(Wire)
    BY <2>1
  <2> HIDE DEF a, b, s1, s2, v
  <2>6. PICK t : Reads(sure, q, <<a>>, t) /\ ChunkAt(q0, t, s1, v, 1, 0)
    BY <1>1, <2>2, <2>3, ChunkAtom
  <2>7. ChunkGoes(s1, v, 1, 0, b, s2, Append(v, b), 0, 0)
    BY DEF ChunkGoes, s1, s2
  <2>8. PICK r : Reads(sure, t, <<b>>, r) /\ ChunkAt(q0, r, s2, Append(v, b), 0, 0)
    BY <1>1, <2>6, <2>7, ChunkAtom
  <2>9. Append(v, b) = v \o y /\ y \in Seq(Wire)
    BY <2>1, <2>5, AppendIs
  <2>10. Reads(sure, q, x, t) /\ Reads(sure, t, y, r)
    BY <2>6, <2>8
  <2> HIDE DEF x, y
  <2>11. Append(v, b) = u \o (x \o y)
    <3>1. (u \o x) \o y = u \o (x \o y)
      BY <2>4, <2>9, ConcatAssociative
    <3> QED
      BY <2>4, <2>9, <3>1
  <2>12. data = x \o y
    BY <2>1 DEF x, y
  <2>13. Reads(sure, q, x \o y, r)
    BY <2>4, <2>9, <2>10, ReadsOn
  <2>14. Reads(sure, q, data, r) /\ ChunkAt(q0, r, s2, u \o data, 0, 0)
    BY <2>8, <2>11, <2>12, <2>13
  <2> QED
    BY <2>14 DEF s2
<1> QED
  BY <1>2, <1>3

(* A chunk as a whole.                                                     *)
ChunkAtStart(q0, q, u) == ChunkAt(q0, q, "chunk_size_start", u, q.len, 0)

(* A chunk, as its parts.                                                  *)
LEMMA ChunkIs ==
    ASSUME NEW data \in Seq(Wire), Len(data) \in {1, 2}
    PROVE  LET ch == IF Len(data) = 1 THEN "1" ELSE "2"
           IN  /\ Chunk(data) = ((<<ch, "CR">> \o <<"LF">>) \o data) \o CRLF
               /\ ch \in DOMAIN Digits /\ Digits[ch] = Len(data)
               /\ <<ch, "CR">> \in Seq(Wire)
<1> DEFINE ch == IF Len(data) = 1 THEN "1" ELSE "2"
           w == <<"0", "1", "2">>
<1>1. w[Len(data) + 1] = ch
  <2>1. w[2] = "1" /\ w[3] = "2"
    OBVIOUS
  <2>2. 1 + 1 = 2 /\ 2 + 1 = 3
    OBVIOUS
  <2> HIDE DEF w
  <2>3. CASE Len(data) = 1
    BY <2>1, <2>2, <2>3
  <2>4. CASE Len(data) = 2
    BY <2>1, <2>2, <2>4
  <2> QED
    BY <2>3, <2>4
<1>2. ch \in DOMAIN Digits /\ Digits[ch] = Len(data)
  BY DEF Digits
<1>3. ch \in Wire /\ "CR" \in Wire
  BY DEF Wire, Delimiters
<1>4. <<ch, "CR">> \in Seq(Wire)
  BY <1>3
<1> HIDE DEF ch
<1>5. <<ch, "CR">> \o <<"LF">> = <<ch, "CR", "LF">>
  BY TripleIs
<1>6. Chunk(data) = (<<ch, "CR", "LF">> \o data) \o CRLF
  BY <1>1 DEF Chunk
<1> QED
  BY <1>2, <1>4, <1>5, <1>6 DEF ch

(* A chunk is read: its data is behind what was there.                     *)
LEMMA ChunkRead ==
    ASSUME NEW sure \in BOOLEAN, NEW q0, NEW q, NEW u \in Seq(Wire), NEW data \in Seq(Wire),
           Len(data) \in {1, 2}, ChunkAtStart(q0, q, u), sure => 3 <= MaxHeader
    PROVE  /\ Chunk(data) \in Seq(Wire)
           /\ \E r : Reads(sure, q, Chunk(data), r) /\ ChunkAtStart(q0, r, u \o data)
<1> DEFINE ch == IF Len(data) = 1 THEN "1" ELSE "2"
           k == Len(data)
           s0 == "chunk_size_start"
           s1 == "chunk_size_almost_done"
           s2 == "chunk_data"
           s3 == "chunk_data_almost_done"
           s4 == "chunk_data_done"
           cr == "CR"
           lf == "LF"
           x == <<ch, cr>>
           y == <<lf>>
           z == <<cr>>
           ud == u \o data
<1>0. 0 \in Nat /\ 2 \in Nat /\ (sure => 2 + 1 <= MaxHeader) /\ (sure => 0 + 1 <= MaxHeader)
  <2>1. PICK room \in Nat : room = MaxHeader
    BY LimitsAssumption
  <2> QED
    BY <2>1
<1>1. /\ Chunk(data) = ((x \o y) \o data) \o CRLF
      /\ ch \in DOMAIN Digits /\ Digits[ch] = k /\ x \in Seq(Wire)
  BY ChunkIs
<1>2. y \in Seq(Wire) /\ z \in Seq(Wire) /\ CRLF = z \o y
  BY CrlfIs
<1> HIDE DEF ch, x, y, z, ud
<1>3. k # 0
  BY 1 # 0, 2 # 0
<1> USE DEF x, y, z, ud
<1>4. PICK r1 : Reads(sure, q, x, r1) /\ ChunkAt(q0, r1, s1, u, k, 2)
  <2>1. ChunkAt(q0, q, "chunk_size_start", u, q.len, 0)
    BY DEF ChunkAtStart
  <2>2. PICK r1 : /\ Reads(sure, q, <<ch, "CR">>, r1)
                  /\ ChunkAt(q0, r1, "chunk_size_almost_done", u, Digits[ch], 2)
    BY <1>1, <2>1, SizeRead
  <2> QED
    BY <1>1, <2>2
<1>5. /\ ChunkGoes(s1, u, k, 2, lf, s2, u, k, 0)
      /\ ChunkGoes(s3, ud, 0, 0, cr, s4, ud, 0, 0)
      /\ ChunkGoes(s4, ud, 0, 0, lf, s0, ud, 0, 0)
  BY <1>3 DEF ChunkGoes
<1> HIDE DEF s0, s1, s2, s3, s4, cr, lf, k, ud
<1>6. PICK r2 : Reads(sure, r1, <<lf>>, r2) /\ ChunkAt(q0, r2, s2, u, k, 0)
  BY <1>0, <1>4, <1>5, ChunkAtom
<1>7. PICK r3 : Reads(sure, r2, data, r3) /\ ChunkAt(q0, r3, s3, ud, 0, 0)
  <2>1. ChunkAt(q0, r2, "chunk_data", u, Len(data), 0)
    BY <1>6 DEF s2, k
  <2>2. PICK r3 : /\ Reads(sure, r2, data, r3)
                  /\ ChunkAt(q0, r3, "chunk_data_almost_done", u \o data, 0, 0)
    BY <2>1, DataRead
  <2> QED
    BY <2>2 DEF s3, ud
<1>8. PICK r4 : Reads(sure, r3, <<cr>>, r4) /\ ChunkAt(q0, r4, s4, ud, 0, 0)
  BY <1>0, <1>5, <1>7, ChunkAtom
<1>9. PICK r : Reads(sure, r4, <<lf>>, r) /\ ChunkAt(q0, r, s0, ud, 0, 0)
  BY <1>0, <1>5, <1>8, ChunkAtom
<1>10. ChunkAtStart(q0, r, u \o data)
  BY <1>9 DEF ChunkAtStart, ChunkAt, s0, ud
<1>11. Reads(sure, r1, y, r2) /\ Reads(sure, r3, z, r4) /\ Reads(sure, r4, y, r)
  BY <1>6, <1>8, <1>9
<1> HIDE DEF x, y, z
<1>12. Reads(sure, q, x \o y, r2) /\ x \o y \in Seq(Wire)
  BY <1>1, <1>2, <1>4, <1>11, ReadsOn, LengthIs
<1> DEFINE xy == x \o y
<1> HIDE DEF xy
<1>13. Reads(sure, q, xy \o data, r3) /\ xy \o data \in Seq(Wire)
  <2>1. Reads(sure, q, xy, r2) /\ xy \in Seq(Wire) /\ Reads(sure, r2, data, r3)
    BY <1>7, <1>12 DEF xy
  <2> QED
    BY <2>1, ReadsOn, LengthIs
<1> DEFINE xyd == xy \o data
<1> HIDE DEF xyd
<1>14. Reads(sure, r3, CRLF, r) /\ CRLF \in Seq(Wire)
  BY <1>2, <1>11, ReadsOn, LengthIs
<1>15. Reads(sure, q, xyd \o CRLF, r) /\ xyd \o CRLF \in Seq(Wire)
  <2>1. Reads(sure, q, xyd, r3) /\ xyd \in Seq(Wire)
    BY <1>13 DEF xyd
  <2> QED
    BY <1>14, <2>1, ReadsOn, LengthIs
<1>16. Chunk(data) = xyd \o CRLF
  BY <1>1 DEF xyd, xy
<1> QED
  BY <1>10, <1>15, <1>16

-----------------------------------------------------------------------------
(* The last chunk, behind which the trailers start.                        *)
Trailing(q0, r, u) ==
    /\ Going(r) /\ r.state = "field_start" /\ r.nread = 0 /\ r.body = u /\ "trailing" \in r.flags
    /\ Keeps(q0, r, {"state", "len", "body", "nread", "flags"})

(* The chunk of size zero is read.                                         *)
LEMMA LastChunk ==
    ASSUME NEW sure \in BOOLEAN, NEW q0, NEW q, NEW u, ChunkAtStart(q0, q, u), sure => 3 <= MaxHeader
    PROVE  \E r : Reads(sure, q, <<"0", "CR", "LF">>, r) /\ Trailing(q0, r, u)
<1> DEFINE zero == "0"
           cr == "CR"
           lf == "LF"
           x == <<zero, cr>>
           y == <<lf>>
<1>1. zero \in DOMAIN Digits /\ Digits[zero] = 0
  BY DEF Digits
<1>2. x \in Seq(Wire) /\ y \in Seq(Wire) /\ x \o y = <<"0", "CR", "LF">>
  <2>1. zero \in Wire /\ cr \in Wire /\ lf \in Wire
    BY DEF Wire, Delimiters
  <2>2. x \in Seq(Wire) /\ y \in Seq(Wire)
    BY <2>1
  <2> QED
    BY <2>2, TripleIs
<1>3. PICK t : Reads(sure, q, x, t) /\ ChunkAt(q0, t, "chunk_size_almost_done", u, 0, 2)
  <2>1. ChunkAt(q0, q, "chunk_size_start", u, q.len, 0)
    BY DEF ChunkAtStart
  <2> HIDE DEF zero
  <2>2. PICK t : /\ Reads(sure, q, <<zero, "CR">>, t)
                 /\ ChunkAt(q0, t, "chunk_size_almost_done", u, Digits[zero], 2)
    BY <1>1, <2>1, SizeRead
  <2> QED
    BY <1>1, <2>2
<1> DEFINE d == Counted(t)
           s == Step(d, lf)
<1>4. Going(t) /\ t.state = "chunk_size_almost_done" /\ t.nread = 2 /\ t.body = u /\ t.len = 0
      /\ Keeps(q0, t, ChunkFields)
  BY <1>3 DEF ChunkAt
<1>5. /\ Going(d) /\ Keeps(t, d, {"nread"}) /\ d.nread = 2 + 1
  BY <1>4, CountedIs DEF ParsingHeader
<1> HIDE DEF d
<1>6. d.state = "chunk_size_almost_done" /\ d.body = u /\ d.len = 0 /\ Keeps(q0, d, ChunkFields)
  BY <1>4, <1>5 DEF Keeps, Fields, ChunkFields
<1>7. s = [d EXCEPT !.nread = 0, !.flags = @ \union {"trailing"}, !.state = "field_start"]
  BY <1>6 DEF Step, UrlUnfinished, UrlFinished, ChunkSize
<1> HIDE DEF s
<1>8. Trailing(q0, s, u)
  BY <1>5, <1>6, <1>7 DEF Trailing, Going, Keeps, Fields, ChunkFields
<1>9. sure => d.nread <= MaxHeader
  <2>1. 2 + 1 = 3
    OBVIOUS
  <2> QED
    BY <1>5, <2>1
<1>10. DOMAIN s = Fields /\ s.errno = "ok" /\ s.complete = FALSE /\ s.state # "headers_done"
  BY <1>8 DEF Trailing, Going
<1>11. Reads(sure, t, y, s)
  <2> HIDE DEF lf
  <2> QED
    BY <1>4, <1>9, <1>10, OneAtom DEF s, d
<1> HIDE DEF x, y
<1>12. Reads(sure, q, x \o y, s)
  BY <1>2, <1>3, <1>11, ReadsOn
<1> QED
  BY <1>2, <1>8, <1>12

(* The chunks that are modelled: one digit gives their size.               *)
Small(chunks) ==
    chunks \in Seq(Seq(Wire)) /\ \A i \in DOMAIN chunks : Len(chunks[i]) \in {1, 2}
Chunks(chunks) == FlattenSeq([i \in DOMAIN chunks |-> Chunk(chunks[i])])

(* Chunks are read, and their data is put together.                        *)
LEMMA ChunksRead ==
    ASSUME NEW sure \in BOOLEAN, NEW chunks, Small(chunks),
           NEW q, NEW e, Nothing(e), ChunkAtStart(q, q, e), sure => 3 <= MaxHeader
    PROVE  /\ Chunks(chunks) \in Seq(Wire) /\ FlattenSeq(chunks) \in Seq(Wire)
           /\ \E r : Reads(sure, q, Chunks(chunks), r) /\ ChunkAtStart(q, r, FlattenSeq(chunks))
<1> DEFINE S == Seq(Wire)
           ss == [i \in DOMAIN chunks |-> Chunk(chunks[i])]
<1>16. e \in Seq(Wire) /\ e = <<>>
  BY DEF Nothing
<1>0. chunks \in Seq(S) /\ \A i \in DOMAIN chunks : Len(chunks[i]) \in {1, 2}
  BY DEF Small
<1>1. PICK n, bod : Flattens(Wire, chunks, n, bod)
  BY <1>0, FlattensExists
<1>2. n \in Nat /\ n = Len(chunks) /\ DOMAIN chunks = 1 .. n
  BY <1>1, <1>0, LenProperties DEF Flattens
<1>3. \A i \in DOMAIN chunks : chunks[i] \in S /\ Len(chunks[i]) \in {1, 2}
  BY <1>0, <1>2, ElementOfSeq
<1>4. \A i \in DOMAIN chunks : ss[i] = Chunk(chunks[i]) /\ ss[i] \in S
  <2> SUFFICES ASSUME NEW i \in DOMAIN chunks PROVE Chunk(chunks[i]) \in S
    OBVIOUS
  <2> DEFINE data == chunks[i]
  <2>1. data \in Seq(Wire) /\ Len(data) \in {1, 2}
    BY <1>3
  <2> HIDE DEF data
  <2>2. Chunk(data) \in Seq(Wire)
    BY <1>16, <2>1, ChunkRead
  <2> QED
    BY <2>2 DEF data
<1>5. ss = [i \in DOMAIN chunks |-> ss[i]]
  OBVIOUS
<1>13. Chunks(chunks) = FlattenSeq(ss)
  BY DEF Chunks
<1> HIDE DEF ss
<1>6. ss \in Seq(S) /\ Len(ss) = Len(chunks)
  <2>1. chunks \in Seq(S) /\ \A i \in DOMAIN chunks : ss[i] \in S
    BY <1>0, <1>4
  <2> HIDE DEF S
  <2> QED
    BY <1>5, <2>1, MappedIs
<1>7. PICK k, flat : Flattens(Wire, ss, k, flat)
  BY <1>6, FlattensExists
<1>8. k = n
  BY <1>2, <1>6, <1>7 DEF Flattens
<1> DEFINE P(j, r) == Reads(sure, q, flat[j], r) /\ ChunkAtStart(q, r, bod[j])
           T == {j \in Nat : j <= n => \E r : P(j, r)}
<1>9. 0 \in T
  <2>1. flat[0] \in Seq(Wire) /\ flat[0] = <<>> /\ bod[0] = <<>>
    BY <1>1, <1>7 DEF Flattens
  <2>2. Reads(sure, q, flat[0], q)
    BY <2>1, ReadsNothing
  <2>3. P(0, q)
    BY <1>16, <2>1, <2>2
  <2> QED
    BY <2>3
<1>10. ASSUME NEW j \in T PROVE j + 1 \in T
  <2> SUFFICES ASSUME j + 1 <= n PROVE \E r : P(j + 1, r)
    OBVIOUS
  <2> DEFINE u == flat[j]
             w == bod[j]
             data == chunks[j + 1]
             c == Chunk(data)
  <2>1. j \in Nat /\ j <= n /\ j + 1 \in DOMAIN chunks
    BY <1>2
  <2>2. PICK r : Reads(sure, q, u, r) /\ ChunkAtStart(q, r, w)
    BY <2>1
  <2>3. /\ u \in Seq(Wire) /\ flat[j + 1] = u \o c
    <3>1. u \in Seq(Wire) /\ flat[j + 1] = u \o ss[j + 1]
      BY <1>7, <1>8, <2>1 DEF Flattens
    <3> QED
      BY <1>4, <2>1, <3>1
  <2>4. w \in Seq(Wire) /\ bod[j + 1] = w \o data
    BY <1>1, <2>1 DEF Flattens
  <2>5. data \in Seq(Wire) /\ Len(data) \in {1, 2}
    BY <1>3, <2>1
  <2> HIDE DEF u, w, data
  <2>6. c \in Seq(Wire) /\ \E s : Reads(sure, r, c, s) /\ ChunkAtStart(q, s, w \o data)
    BY <2>2, <2>4, <2>5, ChunkRead
  <2>7. PICK s : Reads(sure, r, c, s) /\ ChunkAtStart(q, s, w \o data)
    BY <2>6
  <2> HIDE DEF c
  <2>8. Reads(sure, q, u \o c, s)
    BY <2>2, <2>3, <2>6, <2>7, ReadsOn
  <2>9. P(j + 1, s)
    BY <2>3, <2>4, <2>7, <2>8
  <2> QED
    BY <2>9
<1>11. T = Nat
  <2>1. T \in SUBSET Nat
    OBVIOUS
  <2> HIDE DEF T
  <2> QED
    BY <1>9, <1>10, <2>1, Counting
<1>12. n \in T /\ n <= n
  BY <1>2, <1>11
<1>15. PICK r : P(n, r)
  BY <1>12
<1>14. /\ flat[n] = Chunks(chunks) /\ flat[n] \in Seq(Wire)
       /\ bod[n] = FlattenSeq(chunks) /\ bod[n] \in Seq(Wire)
  BY <1>1, <1>2, <1>7, <1>8, <1>12, <1>13 DEF Flattens
<1> QED
  BY <1>14, <1>15

(* What is held of the headers is kept when the headers are not touched.   *)
LEMMA BetweenKept ==
    ASSUME NEW L, NEW q, NEW r, NEW j, NEW a, DOMAIN q = Fields, DOMAIN r = Fields,
           r.headers = q.headers, r.field = q.field, r.value = q.value, Between(L, q, j, a)
    PROVE  Between(L, r, j, a)
<1>1. Flush(r).field = Flush(q).field /\ Flush(r).headers = Flush(q).headers
  <2>1. /\ Flush(q).field = (IF q.value = <<>> THEN q.field ELSE <<>>)
        /\ Flush(q).headers = (IF q.value = <<>> THEN q.headers
                               ELSE {h \in q.headers : h[1] # q.field} \cup {<<q.field, q.value>>})
    BY FlushIs
  <2>2. /\ Flush(r).field = (IF r.value = <<>> THEN r.field ELSE <<>>)
        /\ Flush(r).headers = (IF r.value = <<>> THEN r.headers
                               ELSE {h \in r.headers : h[1] # r.field} \cup {<<r.field, r.value>>})
    BY FlushIs
  <2> QED
    BY <2>1, <2>2
<1> QED
  BY <1>1 DEF Between

(* The trailers and the end of the message.                                *)
TrailersOf(L, n, a, hs, k) ==
    /\ Segment(L, n, a, hs, k) /\ a + k = n
    /\ \A i \in 1 .. k : HeaderState(hs[i][1]) = "general"
(* The request is that of q, with the first a lines.                       *)
Requested(L, a, q, f) ==
    f.method = q.method /\ f.url = q.url /\ Kept(L, f.headers, a)

(* The trailers are read, and leave the headers of the request in place.   *)
LEMMA TrailersRead ==
    ASSUME NEW sure \in BOOLEAN, NEW L, NEW n, NEW a, NEW hs, NEW k, TrailersOf(L, n, a, hs, k),
           NEW q, AtLine(q), q.nread = 0, "trailing" \in q.flags, Between(L, q, a, a),
           sure => Len(Lines(hs)) + 2 <= MaxHeader
    PROVE  /\ Lines(hs) \in Seq(Wire)
           /\ \E f : /\ Ends(sure, q, Lines(hs) \o CRLF, f) /\ Requested(L, a, q, f)
                     /\ f.body = q.body
<1> DEFINE t == Lines(hs)
           c == Len(t)
<1>1. Segment(L, n, a, hs, k) /\ Going(q) /\ k \in Nat /\ a \in Nat
  BY DEF TrailersOf, AtLine, Segment
<1>2. Short(hs, k)
  <2> SUFFICES ASSUME NEW i \in 1 .. k PROVE hs[i][1] # LengthName
    BY DEF Short
  <2>1. HeaderState(hs[i][1]) = "general"
    BY DEF TrailersOf
  <2> DEFINE name == hs[i][1]
  <2>2. HeaderState(name) = "general"
    BY <2>1
  <2> HIDE DEF name
  <2>3. name # LengthName
    BY <2>2, NamesAre
  <2> QED
    BY <2>3 DEF name
<1>3. t \in Seq(Wire)
  <2>1. PICK flat : LinesFlat(hs, k, flat)
    BY <1>1, LinesFlatExist DEF Segment
  <2>2. k <= k
    BY <1>1
  <2> QED
    BY <1>1, <2>1, <2>2 DEF LinesFlat
<1>4. c \in Nat /\ CRLF \in Seq(Wire)
  <2>1. CRLF \in Seq(Wire)
    BY CrlfIs, LengthIs
  <2> QED
    BY <1>3, <2>1, LenProperties
<1>5. Room(sure, q, c + 2)
  BY <1>4 DEF Room
<1>6. Room(sure, q, c)
  <2>1. c + 2 \in Nat /\ c <= c + 2
    BY <1>4
  <2> HIDE DEF c
  <2> QED
    BY <1>1, <1>4, <1>5, <2>1, RoomLess
<1>7. \/ Refused(sure, q, t)
      \/ \E r : Moves(sure, q, t, r, c, OfHeader) /\ LinesDone(L, a, hs, q, r, k)
  BY <1>1, <1>2, <1>6, LinesRead
<1>8. CASE Refused(sure, q, t)
  <2>1. Refused(sure, q, t \o CRLF)
    BY <1>3, <1>4, <1>8, RefusedOn
  <2>2. Ends(sure, q, t \o CRLF, q)
    BY <2>1, RefusedLost DEF Ends
  <2>3. Requested(L, a, q, q)
    BY DEF Requested, Between
  <2> QED
    BY <1>3, <2>2, <2>3
<1>9. ASSUME NEW r, Moves(sure, q, t, r, c, OfHeader), LinesDone(L, a, hs, q, r, k)
      PROVE  \E f : /\ Ends(sure, q, t \o CRLF, f) /\ Requested(L, a, q, f) /\ f.body = q.body
  <2>1. AtLine(r) /\ "trailing" \in Flags(r) /\ Kept(L, r.headers, a)
    BY <1>9 DEF LinesDone, Between, Flags
  <2>2. Room(sure, r, 2)
    <3>1. c + 2 \in Nat /\ c <= c + 2 /\ (c + 2) - c = 2
      BY <1>4
    <3> HIDE DEF c
    <3>2. Room(sure, r, (c + 2) - c)
      BY <1>1, <1>4, <1>5, <1>9, <3>1, RoomNext
    <3> QED
      BY <3>1, <3>2
  <2>3. PICK f : SameRequest(r, f) /\ Ends(sure, r, CRLF, f)
    BY <2>1, <2>2, TrailersEnd
  <2>4. Reads(sure, q, t, r) /\ Keeps(q, r, OfHeader)
    BY <1>9 DEF Moves
  <2> HIDE DEF t
  <2>5. Ends(sure, q, t \o CRLF, f)
    BY <1>3, <1>4, <2>3, <2>4, EndsLater
  <2>6. Requested(L, a, q, f) /\ f.body = q.body
    BY <2>1, <2>3, <2>4 DEF Requested, SameRequest, Keeps, Fields, OfHeader
  <2> QED
    BY <2>5, <2>6
<1> QED
  BY <1>3, <1>7, <1>8, <1>9

(* A body in chunks with its trailers.                                     *)
ChunkedOf(hs, chunks) == Chunks(chunks) \o <<"0", "CR", "LF">> \o Lines(hs) \o CRLF
(* The message ends with the data of all chunks.                           *)
ChunkedDone(sure, q, L, a, hs, chunks) ==
    \E f : /\ Ends(sure, q, ChunkedOf(hs, chunks), f)
           /\ Requested(L, a, q, f) /\ f.body = FlattenSeq(chunks)

(* A body in chunks is read, with the trailers behind it.                  *)
LEMMA ChunkedRead ==
    ASSUME NEW sure \in BOOLEAN, NEW L, NEW n, NEW a, NEW hs, NEW k, TrailersOf(L, n, a, hs, k),
           NEW chunks, Small(chunks),
           NEW q, NEW e, Nothing(e), ChunkAtStart(q, q, e),
           q.field \in Seq(Wire), Between(L, q, a, a),
           sure => 3 <= MaxHeader, sure => Len(Lines(hs)) + 2 <= MaxHeader
    PROVE  ChunkedDone(sure, q, L, a, hs, chunks)
<1> DEFINE x == Chunks(chunks)
           u == FlattenSeq(chunks)
           y == <<"0", "CR", "LF">>
           z == Lines(hs)
<1>1. x \in Seq(Wire) /\ \E r : Reads(sure, q, x, r) /\ ChunkAtStart(q, r, u)
  BY ChunksRead
<1>2. PICK r : Reads(sure, q, x, r) /\ ChunkAtStart(q, r, u)
  BY <1>1
<1>3. PICK s : Reads(sure, r, y, s) /\ Trailing(q, s, u)
  BY <1>2, LastChunk
<1>4. AtLine(s) /\ s.nread = 0 /\ "trailing" \in s.flags /\ s.body = u
      /\ s.method = q.method /\ s.url = q.url
  BY <1>3 DEF Trailing, AtLine, LineStates, Keeps, Fields
<1>5. Between(L, s, a, a)
  <2>1. DOMAIN q = Fields /\ DOMAIN s = Fields /\ s.headers = q.headers /\ s.field = q.field
        /\ s.value = q.value
    BY <1>3 DEF Trailing, Going, Keeps, Fields, ChunkAtStart, ChunkAt
  <2> QED
    BY <2>1, BetweenKept
<1>6. z \in Seq(Wire) /\ \E f : Ends(sure, s, z \o CRLF, f) /\ Requested(L, a, s, f) /\ f.body = s.body
  BY <1>4, <1>5, TrailersRead
<1>7. PICK f : Ends(sure, s, z \o CRLF, f) /\ Requested(L, a, s, f) /\ f.body = s.body
  BY <1>6
<1>8. y \in Seq(Wire) /\ CRLF \in Seq(Wire)
  <2>1. "0" \in Wire /\ "CR" \in Wire /\ "LF" \in Wire
    BY DEF Wire, Delimiters
  <2>2. y \in Seq(Wire)
    BY <2>1
  <2> HIDE DEF y
  <2> QED
    BY <2>2, CrlfIs, LengthIs
<1> HIDE DEF x, y, z
<1>9. Reads(sure, q, x \o y, s) /\ x \o y \in Seq(Wire) /\ z \o CRLF \in Seq(Wire)
  BY <1>1, <1>2, <1>3, <1>6, <1>8, ReadsOn, LengthIs
<1> DEFINE xy == x \o y
<1>10. Ends(sure, q, xy \o (z \o CRLF), f) /\ xy \o (z \o CRLF) \in Seq(Wire)
  <2> DEFINE zc == z \o CRLF
  <2>1. Reads(sure, q, xy, s) /\ xy \in Seq(Wire) /\ zc \in Seq(Wire) /\ Ends(sure, s, zc, f)
    BY <1>7, <1>9
  <2> HIDE DEF xy, zc
  <2>2. Ends(sure, q, xy \o zc, f) /\ xy \o zc \in Seq(Wire)
    BY <2>1, EndsLater, LengthIs
  <2> QED
    BY <2>2 DEF zc
<1> HIDE DEF xy
<1>11. (xy \o z) \o CRLF = xy \o (z \o CRLF)
  <2>1. xy \in Seq(Wire) /\ z \in Seq(Wire) /\ CRLF \in Seq(Wire)
    BY <1>6, <1>8, <1>9 DEF xy
  <2> QED
    BY <2>1, ConcatAssociative
<1>12. Requested(L, a, q, f) /\ f.body = u
  BY <1>4, <1>7 DEF Requested
<1> QED
  BY <1>10, <1>11, <1>12 DEF x, y, z, xy, ChunkedOf, ChunkedDone

-----------------------------------------------------------------------------
(* The head of a message, from its empty lines to the end of its headers.  *)
LineOf(m) == ((m.lead \o (m.method \o <<"SP">>)) \o m.url) \o (VersionOf(m) \o CRLF)

(* What a well-formed message is, as sequences over the wire.              *)
LEMMA WellFormedIs ==
    ASSUME NEW m, WellFormed(m)
    PROVE  /\ m.lead \in Seq({"CR", "LF"}) /\ m.lead \in Seq(Wire)
           /\ m.method \in Methods /\ m.method \in Seq(Wire) /\ Len(m.method) = 2
           /\ m.url \in Seq(Wire) /\ IsUrl(m.method, m.url)
           /\ m.version \in Seq(Atoms) /\ (m.version # <<>> => IsVersion(m.version))
           /\ VersionOf(m) \in Seq(Wire)
           /\ <<"SP">> \in Seq(Wire) /\ CRLF \in Seq(Wire)
<1>1. /\ m.lead \in Seq({"CR", "LF"}) /\ m.method \in Methods /\ m.url \in Seq(Atoms)
      /\ IsUrl(m.method, m.url) /\ m.version \in Seq(Atoms)
      /\ (m.version # <<>> => IsVersion(m.version))
  BY DEF WellFormed
<1>2. {"CR", "LF"} \subseteq Wire /\ Atoms \subseteq Wire
  BY DEF Wire, Delimiters
<1>3. m.lead \in Seq(Wire)
  <2> DEFINE A == {"CR", "LF"}
  <2>1. m.lead \in Seq(A) /\ A \subseteq Wire
    BY <1>1, <1>2
  <2> HIDE DEF A
  <2> QED
    BY <2>1, SeqWider
<1>4. m.url \in Seq(Wire) /\ m.version \in Seq(Wire)
  BY <1>1, <1>2, SeqWider
<1>5. m.method \in Seq(Wire) /\ Len(m.method) = 2
  <2>1. "G" \in Wire /\ "ET" \in Wire /\ "P" \in Wire /\ "OST" \in Wire /\ "UT" \in Wire
        /\ "C" \in Wire /\ "ONNECT" \in Wire
    BY DEF Wire
  <2>2. \A a \in Wire, b \in Wire : <<a, b>> \in Seq(Wire) /\ Len(<<a, b>>) = 2
    OBVIOUS
  <2> HIDE DEF Wire
  <2> QED
    BY <1>1, <2>1, <2>2 DEF Methods
<1>6. <<"SP">> \in Seq(Wire) /\ CRLF \in Seq(Wire)
  <2>1. "SP" \in Wire
    BY DEF Wire, Delimiters
  <2>2. <<"SP">> \in Seq(Wire)
    BY <2>1
  <2>3. CRLF \in Seq(Wire)
    BY CrlfIs, LengthIs
  <2> QED
    BY <2>2, <2>3
<1>7. VersionOf(m) \in Seq(Wire)
  <2>1. CASE m.version = <<>>
    <3>1. VersionOf(m) = m.version
      BY <2>1 DEF VersionOf
    <3> QED
      BY <1>4, <3>1
  <2>2. CASE m.version # <<>>
    <3> DEFINE lead == <<"SP", "HT", "TP/">>
    <3>1. "SP" \in Wire /\ "HT" \in Wire /\ "TP/" \in Wire
      BY DEF Wire, Delimiters
    <3>2. lead \in Seq(Wire)
      BY <3>1
    <3>3. VersionOf(m) = lead \o m.version
      BY <2>2 DEF VersionOf
    <3> HIDE DEF lead
    <3>4. lead \o m.version \in Seq(Wire)
      BY <1>4, <3>2, LengthIs
    <3> QED
      BY <3>3, <3>4
  <2> QED
    BY <2>1, <2>2
<1> QED
  BY <1>1, <1>3, <1>4, <1>5, <1>6, <1>7

(* A message read as far as its request line.                              *)
Requesting(m, r, n) ==
    /\ Going(r) /\ r.state = "field_start" /\ r.nread = n
    /\ r.method = m.method /\ r.url = m.url /\ Blank(r)

(* The lead, the method, the url and the version are read.                 *)
LEMMA RequestLineRead ==
    ASSUME NEW sure \in BOOLEAN, NEW c \in BOOLEAN, c = FALSE, NEW m, WellFormed(m),
           sure => Len(LineOf(m)) <= MaxHeader
    PROVE  /\ LineOf(m) \in Seq(Wire)
           /\ \E r : Reads(sure, Lead(c, 0), LineOf(m), r) /\ Requesting(m, r, Len(LineOf(m)))
<1> DEFINE lead == m.lead
           sp == <<"SP">>
           ms == m.method \o sp
           url == m.url
           ver == VersionOf(m)
           vc == ver \o CRLF
           x == lead \o ms
           y == x \o url
           z == y \o vc
<1>1. /\ lead \in Seq({"CR", "LF"}) /\ lead \in Seq(Wire)
      /\ m.method \in Methods /\ m.method \in Seq(Wire) /\ Len(m.method) = 2
      /\ url \in Seq(Wire) /\ IsUrl(m.method, url)
      /\ m.version \in Seq(Atoms) /\ (m.version # <<>> => IsVersion(m.version))
      /\ ver \in Seq(Wire)
      /\ sp \in Seq(Wire) /\ CRLF \in Seq(Wire)
  BY WellFormedIs
<1>2. ms \in Seq(Wire) /\ Len(ms) = 3
  <2>1. Len(sp) = 1
    OBVIOUS
  <2> HIDE DEF sp
  <2>2. ms \in Seq(Wire) /\ Len(ms) = Len(m.method) + Len(sp)
    BY <1>1, LengthIs
  <2> QED
    BY <1>1, <2>1, <2>2
<1> HIDE DEF ver, ms, lead, url
<1>3. vc \in Seq(Wire)
  BY <1>1, LengthIs
<1> HIDE DEF vc
<1>4. x \in Seq(Wire) /\ Len(x) = Len(lead) + Len(ms) /\ Len(lead) \in Nat
  BY <1>1, <1>2, LengthIs
<1> HIDE DEF x
<1>5. y \in Seq(Wire) /\ Len(y) = Len(x) + Len(url) /\ Len(url) \in Nat
  <2>1. x \in Seq(Wire) /\ url \in Seq(Wire)
    BY <1>1, <1>4
  <2> QED
    BY <2>1, LengthIs
<1> HIDE DEF y
<1>6. z \in Seq(Wire) /\ Len(z) = Len(y) + Len(vc) /\ Len(vc) \in Nat
  BY <1>3, <1>5, LengthIs
<1> HIDE DEF z
<1>7. z = LineOf(m)
  BY DEF z, y, x, vc, ver, ms, LineOf, lead, url
<1> DEFINE a == Len(lead)
           u == Len(url)
           v == Len(vc)
<1>8. a \in Nat /\ u \in Nat /\ v \in Nat /\ Len(z) = a + 3 + u + v
  BY <1>2, <1>4, <1>5, <1>6
<1>9. sure => a + 3 + u + v <= MaxHeader
  BY <1>7, <1>8
<1> HIDE DEF a, u, v
<1>10. /\ sure => a <= MaxHeader
       /\ sure => a + 3 <= MaxHeader
       /\ sure => a + 3 + u <= MaxHeader
       /\ sure => a + 3 + u + v <= MaxHeader
  <2>1. PICK room \in Nat : room = MaxHeader
    BY LimitsAssumption
  <2> QED
    BY <1>8, <1>9, <2>1
<1>11. Reads(sure, Lead(c, 0), lead, Lead(c, a))
  BY <1>1, <1>10, LeadRead DEF a
<1>12. PICK q1 : /\ Reads(sure, Lead(c, a), ms, q1)
                 /\ Going(q1) /\ q1.state = "spaces_before_url" /\ q1.nread = a + 3
                 /\ q1.method = m.method /\ q1.url = <<>> /\ q1.version = <<0, 0>> /\ Blank(q1)
  <2> DEFINE me == m.method
  <2>1. a \in Nat /\ me \in Methods /\ (sure => a + 3 <= MaxHeader)
    BY <1>1, <1>8, <1>10
  <2> HIDE DEF me
  <2>2. \E r : Reads(sure, Lead(c, a), me \o <<"SP">>, r) /\ MethodDone(me, r, a)
    BY <2>1, MethodRead
  <2> QED
    BY <2>2 DEF ms, sp, me, MethodDone
<1>13. Room(sure, q1, u)
  BY <1>10, <1>12 DEF Room
<1>14. PICK q2 : /\ Reads(sure, q1, url, q2) /\ Going(q2) /\ q2.state \in UrlFinished
                 /\ q2.nread = q1.nread + u /\ q2.url = url
                 /\ Keeps(q1, q2, {"state", "nread", "url"})
  <2>1. IsUrl(q1.method, url) /\ Room(sure, q1, Len(url))
    BY <1>1, <1>12, <1>13 DEF u
  <2> QED
    BY <1>1, <1>12, <2>1, UrlRead DEF u
<1>15. q2.method = m.method /\ q2.version = <<0, 0>> /\ Blank(q2) /\ q2.nread = a + 3 + u
  BY <1>12, <1>14 DEF Keeps, Fields, Blank
<1>16. Room(sure, q2, v)
  BY <1>10, <1>15 DEF Room
<1>17. PICK r : /\ Moves(sure, q2, vc, r, v, {"state", "nread", "version"})
                /\ r.state = "field_start"
  <2>1. Room(sure, q2, Len(VersionOf(m) \o CRLF))
    BY <1>16 DEF v, vc, ver
  <2> QED
    BY <1>1, <1>14, <1>15, <2>1, LineRead DEF v, vc, ver
<1>18. Requesting(m, r, a + 3 + u + v)
  <2>1. Going(r) /\ r.nread = a + 3 + u + v /\ Keeps(q2, r, {"state", "nread", "version"})
    BY <1>15, <1>17 DEF Moves
  <2> QED
    BY <1>14, <1>15, <1>17, <2>1 DEF Requesting, Keeps, Fields, Blank, url
<1>19. Reads(sure, q2, vc, r)
  BY <1>17 DEF Moves
<1>20. Reads(sure, Lead(c, 0), x, q1)
  BY <1>1, <1>2, <1>11, <1>12, ReadsOn DEF x
<1>21. Reads(sure, Lead(c, 0), y, q2)
  BY <1>1, <1>4, <1>14, <1>20, ReadsOn DEF y
<1>22. Reads(sure, Lead(c, 0), z, r)
  BY <1>3, <1>5, <1>19, <1>21, ReadsOn DEF z
<1> QED
  BY <1>6, <1>7, <1>8, <1>18, <1>22

(* The head is the request line, the headers and an empty line.            *)
LEMMA HeadIs ==
    ASSUME NEW m, WellFormed(m), Lines(m.headers) \in Seq(Wire)
    PROVE  HeadOf(m) = (LineOf(m) \o Lines(m.headers)) \o CRLF
<1> DEFINE a == m.lead
           b == m.method
           s == <<"SP">>
           u == m.url
           v == VersionOf(m)
           l == Lines(m.headers)
<1>1. a \in Seq(Wire) /\ b \in Seq(Wire) /\ s \in Seq(Wire) /\ u \in Seq(Wire) /\ v \in Seq(Wire)
      /\ CRLF \in Seq(Wire)
  BY WellFormedIs
<1>2. HeadOf(m) = ((((((a \o b) \o s) \o u) \o v) \o CRLF) \o l) \o CRLF
  BY DEF HeadOf, VersionOf
<1>3. LineOf(m) = ((a \o (b \o s)) \o u) \o (v \o CRLF)
  BY DEF LineOf
<1> HIDE DEF a, b, s, u, v, l
<1>4. (a \o b) \o s = a \o (b \o s)
  <2>1. a \in Seq(Wire) /\ b \in Seq(Wire) /\ s \in Seq(Wire)
    BY <1>1
  <2> QED
    BY <2>1, ConcatAssociative
<1> DEFINE x == ((a \o b) \o s) \o u
           ab == a \o b
           abs == ab \o s
<1>5. ab \in Seq(Wire)
  BY <1>1, LengthIs
<1> HIDE DEF ab
<1>6. abs \in Seq(Wire)
  BY <1>1, <1>5, LengthIs
<1> HIDE DEF abs
<1>7. abs \o u \in Seq(Wire)
  BY <1>1, <1>6, LengthIs
<1>8. x \in Seq(Wire)
  BY <1>7 DEF abs, ab
<1> HIDE DEF x
<1>9. (x \o v) \o CRLF = x \o (v \o CRLF)
  <2>1. x \in Seq(Wire) /\ v \in Seq(Wire) /\ CRLF \in Seq(Wire)
    BY <1>1, <1>8
  <2> QED
    BY <2>1, ConcatAssociative
<1>10. LineOf(m) = x \o (v \o CRLF)
  BY <1>3, <1>4 DEF x
<1>11. HeadOf(m) = (((x \o v) \o CRLF) \o l) \o CRLF
  BY <1>2 DEF x
<1> QED
  BY <1>9, <1>10, <1>11 DEF l

(* The parser behind the head of m, whose k headers are the first lines of *)
(* L.                                                                      *)
AfterHead(m, L, k, f) ==
    /\ DOMAIN f = Fields /\ f.method = m.method /\ f.url = m.url /\ f.body = <<>> /\ f.nread = 0
    /\ f.flags = Brought(m.headers, k) /\ LenSeen(m.headers, k, f.len, MaxLength)
    /\ Between(L, f, k, k) /\ f.field \in Seq(Wire)
    /\ ~NoBody(f) => /\ Going(f)
                     /\ f.state = IF "chunked" \in f.flags THEN "chunk_size_start" ELSE "body_identity"

(* The flags that headers bring, by their names.                           *)
LEMMA FlagsBrought ==
    ASSUME NEW hs, NEW k
    PROVE  /\ "trailing" \notin Brought(hs, k)
           /\ "chunked" \in Brought(hs, k) <=> \E i \in 1 .. k : hs[i][1] = CodingName
           /\ "upgrade" \in Brought(hs, k) <=>
                \E i \in 1 .. k : hs[i][1] = UpgradeName /\ hs[i][2] # <<>>
<1>1. /\ \A h : "trailing" \notin Brings(h)
      /\ \A h : "chunked" \in Brings(h) <=> h[1] = CodingName
      /\ \A h : "upgrade" \in Brings(h) <=> h[1] = UpgradeName /\ h[2] # <<>>
  BY DEF Brings
<1> QED
  BY <1>1 DEF Brought

(* The head of a message is read, or the message is lost where that is not *)
(* excluded.                                                               *)
LEMMA HeadRead ==
    ASSUME NEW sure \in BOOLEAN, NEW c \in BOOLEAN, c = FALSE, NEW m, WellFormed(m),
           NEW L, NEW n, NEW k, Segment(L, n, 0, m.headers, k), sure => WithinLimits(m)
    PROVE  /\ HeadOf(m) \in Seq(Wire) /\ (sure => 3 <= MaxHeader)
           /\ \/ Lost(sure, Lead(c, 0), HeadOf(m))
              \/ \E f : /\ AfterHead(m, L, k, f)
                        /\ NoBody(f) => Ends(sure, Lead(c, 0), HeadOf(m), f)
                        /\ ~NoBody(f) => Reads(sure, Lead(c, 0), HeadOf(m), f)
<1> DEFINE hs == m.headers
           x == LineOf(m)
           y == Lines(hs)
           head == HeadOf(m)
           s0 == Lead(c, 0)
           a == Len(x)
           b == Len(y)
<1>1. y \in Seq(Wire)
  <2>1. k \in Nat /\ k = Len(hs) /\ DOMAIN hs = 1 .. k /\ \A i \in 1 .. k : IsHeader(hs[i])
    <3>1. k \in Nat /\ k = Len(hs) /\ DOMAIN hs = 1 .. k
      BY DEF Segment
    <3>2. ASSUME NEW i \in 1 .. k PROVE IsHeader(hs[i])
      BY <3>1 DEF WellFormed
    <3> QED
      BY <3>1, <3>2
  <2> HIDE DEF hs
  <2>2. PICK flat : LinesFlat(hs, k, flat)
    BY <2>1, LinesFlatExist
  <2>3. k <= k
    BY <2>1
  <2> QED
    BY <2>1, <2>2, <2>3 DEF LinesFlat
<1>2. x \in Seq(Wire)
  <2> DEFINE no == FALSE
  <2>1. no \in BOOLEAN /\ ~no
    OBVIOUS
  <2> HIDE DEF no
  <2>2. no => Len(LineOf(m)) <= MaxHeader
    BY <2>1
  <2> QED
    BY <2>1, <2>2, RequestLineRead
<1>3. CRLF \in Seq(Wire) /\ Len(CRLF) = 2
  BY WellFormedIs DEF CRLF
<1>4. head = (x \o y) \o CRLF
  BY <1>1, HeadIs
<1> HIDE DEF x, y, head, s0
<1>5. a \in Nat /\ b \in Nat /\ x \o y \in Seq(Wire) /\ Len(x \o y) = a + b
  BY <1>1, <1>2, LengthIs
<1> DEFINE xy == x \o y
<1> HIDE DEF xy
<1>6. xy \o CRLF \in Seq(Wire) /\ Len(xy \o CRLF) = Len(xy) + Len(CRLF)
  <2>1. xy \in Seq(Wire)
    BY <1>5 DEF xy
  <2> QED
    BY <1>3, <2>1, LengthIs
<1>7. head \in Seq(Wire) /\ Len(head) = a + b + 2
  <2>1. head = xy \o CRLF /\ Len(xy) = a + b
    BY <1>4, <1>5 DEF xy
  <2> QED
    BY <1>3, <1>6, <2>1
<1>8. sure => a + b + 2 + 1 <= MaxHeader
  BY <1>7 DEF WithinLimits, head
<1>9. 3 <= a
  <2>1. LineOf(m) = ((m.lead \o (m.method \o <<"SP">>)) \o m.url) \o (VersionOf(m) \o CRLF)
    BY DEF LineOf
  <2> DEFINE sp == <<"SP">>
             me == m.method
             ms == me \o sp
             le == m.lead
             ur == m.url
             vc == VersionOf(m) \o CRLF
             ve == VersionOf(m)
  <2>2. /\ le \in Seq(Wire) /\ me \in Seq(Wire) /\ Len(me) = 2 /\ ur \in Seq(Wire)
        /\ ve \in Seq(Wire) /\ sp \in Seq(Wire)
    BY WellFormedIs
  <2>3. Len(sp) = 1
    OBVIOUS
  <2> HIDE DEF sp, me, le, ur, ve
  <2>4. ms \in Seq(Wire) /\ Len(ms) = 3
    <3>1. ms \in Seq(Wire) /\ Len(ms) = Len(me) + Len(sp)
      BY <2>2, LengthIs
    <3> QED
      BY <2>2, <2>3, <3>1
  <2>5. vc \in Seq(Wire)
    BY <1>3, <2>2, LengthIs DEF ve
  <2> HIDE DEF ms, vc
  <2> DEFINE lm == le \o ms
  <2>6. lm \in Seq(Wire) /\ Len(lm) = Len(le) + Len(ms) /\ Len(le) \in Nat
    BY <2>2, <2>4, LengthIs
  <2> HIDE DEF lm
  <2> DEFINE lu == lm \o ur
  <2>7. lu \in Seq(Wire) /\ Len(lu) = Len(lm) + Len(ur) /\ Len(ur) \in Nat
    BY <2>2, <2>6, LengthIs
  <2> HIDE DEF lu
  <2> DEFINE lv == lu \o vc
  <2>8. lv \in Seq(Wire) /\ Len(lv) = Len(lu) + Len(vc) /\ Len(vc) \in Nat
    BY <2>5, <2>7, LengthIs
  <2>9. x = lv
    BY <2>1 DEF x, lv, lu, lm, ms, sp, me, le, ur, vc
  <2> HIDE DEF lv
  <2>10. Len(lv) = Len(le) + 3 + Len(ur) + Len(vc)
    BY <2>4, <2>6, <2>7, <2>8
  <2> DEFINE i1 == Len(le)
             i2 == Len(ur)
             i3 == Len(vc)
  <2>11. i1 \in Nat /\ i2 \in Nat /\ i3 \in Nat /\ a = i1 + 3 + i2 + i3
    BY <2>6, <2>7, <2>8, <2>9, <2>10
  <2> HIDE DEF i1, i2, i3, a
  <2> QED
    BY <2>11
<1> HIDE DEF a, b
<1>10. /\ sure => a <= MaxHeader
       /\ sure => 3 <= MaxHeader
       /\ sure => a + b <= MaxHeader
       /\ sure => (a + b) + 3 <= MaxHeader
  <2>1. PICK room \in Nat : room = MaxHeader
    BY LimitsAssumption
  <2> QED
    BY <1>5, <1>8, <1>9, <2>1
<1>11. PICK q0 : Reads(sure, s0, x, q0) /\ Requesting(m, q0, a)
  <2>1. sure => Len(LineOf(m)) <= MaxHeader
    BY <1>10 DEF a, x
  <2> QED
    BY <2>1, RequestLineRead DEF a, x, s0
<1>12. AtLine(q0) /\ q0.nread = a /\ Flags(q0) = {} /\ q0.len = MaxLength /\ q0.field = <<>>
       /\ q0.headers = {} /\ q0.value = <<>> /\ q0.body = <<>>
       /\ q0.method = m.method /\ q0.url = m.url /\ Going(q0)
  <2>1. <<>> \in Seq(Wire)
    BY EmptySeq
  <2> QED
    BY <1>11, <2>1 DEF Requesting, AtLine, LineStates, Flags, Blank
<1>13. Between(L, q0, 0, 0)
  <2>1. Flush(q0).field = <<>>
    BY <1>12, FlushIs DEF Going
  <2>2. 1 .. 0 = {}
    OBVIOUS
  <2> QED
    BY <2>1, <2>2 DEF Between, Kept
<1>14. sure => Short(hs, k)
  <2>1. DOMAIN hs = 1 .. k
    BY DEF Segment
  <2> QED
    BY <2>1 DEF WithinLimits, Short, LengthName
<1>15. Room(sure, q0, b) /\ Room(sure, q0, b + 3)
  <2>1. PICK room \in Nat : room = MaxHeader
    BY LimitsAssumption
  <2> QED
    BY <1>5, <1>10, <1>12, <2>1 DEF Room
<1>16. \/ Refused(sure, q0, y)
       \/ \E r : Moves(sure, q0, y, r, b, OfHeader) /\ LinesDone(L, 0, hs, q0, r, k)
  <2> DEFINE o == 0
  <2>1. Segment(L, n, o, hs, k) /\ Between(L, q0, o, o) /\ Room(sure, q0, Len(Lines(hs)))
    BY <1>13, <1>15 DEF b, y
  <2> HIDE DEF o, hs
  <2>2. \/ Refused(sure, q0, Lines(hs))
        \/ \E r : /\ Moves(sure, q0, Lines(hs), r, Len(Lines(hs)), OfHeader)
                  /\ LinesDone(L, o, hs, q0, r, k)
    BY <1>12, <1>14, <2>1, LinesRead
  <2> QED
    BY <2>2 DEF b, y, o
<1>17. CASE Refused(sure, q0, y)
  <2>1. Lost(sure, s0, xy)
    <3>1. Lost(sure, q0, y)
      BY <1>17, RefusedLost
    <3> QED
      BY <1>1, <1>2, <1>11, <3>1, LostLater DEF xy
  <2>2. Lost(sure, s0, xy \o CRLF)
    <3>1. xy \in Seq(Wire)
      BY <1>5 DEF xy
    <3> QED
      BY <1>3, <2>1, <3>1, LostOn
  <2> QED
    BY <1>4, <1>7, <1>10, <2>2 DEF xy, head, s0
<1>18. ASSUME NEW q, Moves(sure, q0, y, q, b, OfHeader), LinesDone(L, 0, hs, q0, q, k)
       PROVE  \/ Lost(sure, s0, head)
              \/ \E f : /\ AfterHead(m, L, k, f)
                        /\ NoBody(f) => Ends(sure, s0, head, f)
                        /\ ~NoBody(f) => Reads(sure, s0, head, f)
  <2>1. /\ AtLine(q) /\ Going(q) /\ Flags(q) = Brought(hs, k) /\ LenSeen(hs, k, q.len, MaxLength)
        /\ q.method = m.method /\ q.url = m.url /\ q.body = <<>>
    <3>1. Keeps(q0, q, OfHeader) /\ Going(q)
      BY <1>18 DEF Moves
    <3> QED
      BY <1>12, <1>18, <3>1 DEF LinesDone, Keeps, Fields, OfHeader
  <2>2. Between(L, q, k, 0)
    <3>1. 0 + k = k
      BY DEF Segment
    <3> QED
      BY <1>18, <3>1 DEF LinesDone
  <2>3. Room(sure, q, 3)
    <3>1. b + 3 \in Nat /\ b <= b + 3 /\ (b + 3) - b = 3
      BY <1>5
    <3>2. Room(sure, q, (b + 3) - b)
      BY <1>5, <1>12, <1>15, <1>18, <3>1, RoomNext
    <3> QED
      BY <3>1, <3>2
  <2>4. "trailing" \notin Flags(q)
    BY <2>1, FlagsBrought
  <2>5. Reads(sure, s0, xy, q)
    <3>1. Reads(sure, q0, y, q)
      BY <1>18 DEF Moves
    <3> QED
      BY <1>1, <1>2, <1>11, <3>1, ReadsOn DEF xy
  <2>6. xy \in Seq(Wire) /\ head = xy \o CRLF
    BY <1>4, <1>5 DEF xy
  <2>7. \/ Lost(sure, q, CRLF)
        \/ \E f : /\ HeadOver(q, f)
                  /\ NoBody(f) => Ends(sure, q, CRLF, f)
                  /\ ~NoBody(f) => Reads(sure, q, CRLF, f)
    BY <2>1, <2>3, <2>4, HeadersEnd
  <2>8. CASE Lost(sure, q, CRLF)
    <3>1. Lost(sure, s0, xy \o CRLF)
      <4>1. xy \in Seq(Wire)
        BY <2>6
      <4> QED
        BY <1>3, <2>5, <2>8, <4>1, LostLater
    <3> QED
      BY <2>6, <3>1
  <2>9. ASSUME NEW f, HeadOver(q, f),
               NoBody(f) => Ends(sure, q, CRLF, f), ~NoBody(f) => Reads(sure, q, CRLF, f)
        PROVE  /\ AfterHead(m, L, k, f)
               /\ NoBody(f) => Ends(sure, s0, head, f)
               /\ ~NoBody(f) => Reads(sure, s0, head, f)
    <3>1. /\ Flush(q).field = (IF q.value = <<>> THEN q.field ELSE <<>>)
      BY <2>1, FlushIs DEF Going
    <3>2. f.field \in Seq(Wire)
      <4>1. <<>> \in Seq(Wire)
        BY EmptySeq
      <4> QED
        BY <2>1, <2>9, <3>1, <4>1 DEF HeadOver, AtLine
    <3>3. Between(L, f, k, k)
      <4>1. Flush(f) = f
        BY <2>9 DEF HeadOver, Flush
      <4>2. f.field = Flush(q).field /\ f.headers = Flush(q).headers
        BY <2>9 DEF HeadOver
      <4> QED
        BY <2>2, <4>1, <4>2 DEF Between
    <3>4. AfterHead(m, L, k, f)
      BY <2>1, <2>9, <3>2, <3>3 DEF AfterHead, HeadOver
    <3>5. xy \in Seq(Wire)
      BY <2>6
    <3>6. ASSUME NoBody(f) PROVE Ends(sure, s0, head, f)
      <4>1. Ends(sure, q, CRLF, f)
        BY <2>9, <3>6
      <4>2. Ends(sure, s0, xy \o CRLF, f)
        BY <1>3, <2>5, <3>5, <4>1, EndsLater
      <4> QED
        BY <2>6, <4>2
    <3>7. ASSUME ~NoBody(f) PROVE Reads(sure, s0, head, f)
      <4>1. Reads(sure, q, CRLF, f)
        BY <2>9, <3>7
      <4>2. Reads(sure, s0, xy \o CRLF, f)
        BY <1>3, <2>5, <3>5, <4>1, ReadsOn
      <4> QED
        BY <2>6, <4>2
    <3> QED
      BY <3>4, <3>6, <3>7
  <2> QED
    BY <2>7, <2>8, <2>9
<1> QED
  <2>1. head \in Seq(Wire) /\ (sure => 3 <= MaxHeader)
    BY <1>7, <1>10
  <2>2. \/ Lost(sure, s0, head)
        \/ \E f : /\ AfterHead(m, L, k, f)
                  /\ NoBody(f) => Ends(sure, s0, head, f)
                  /\ ~NoBody(f) => Reads(sure, s0, head, f)
    <3>1. CASE Refused(sure, q0, y)
      BY <1>17, <3>1 DEF head, s0
    <3>2. CASE \E r : Moves(sure, q0, y, r, b, OfHeader) /\ LinesDone(L, 0, hs, q0, r, k)
      BY <1>18, <3>2
    <3> QED
      BY <1>16, <3>1, <3>2
  <2> QED
    BY <2>1, <2>2 DEF head, s0

-----------------------------------------------------------------------------
(* The lines of a message: its headers and then its trailers.              *)
LinesOf(m, L, n, k, j) ==
    /\ Segment(L, n, 0, m.headers, k) /\ TrailersOf(L, n, k, m.trailers, j)

(* Every well-formed message has its lines.                                *)
LEMMA LinesOfExist ==
    ASSUME NEW m, WellFormed(m)
    PROVE  \E L, n, k, j : LinesOf(m, L, n, k, j)
<1> DEFINE hs == m.headers
           ts == m.trailers
           A == Range(hs) \cup Range(ts)
           L == hs \o ts
           k == Len(hs)
           j == Len(ts)
           n == k + j
<1>1. /\ hs \in Seq(Range(hs)) /\ ts \in Seq(Range(ts)) /\ NoneReplaced(L)
      /\ \A i \in DOMAIN hs : IsHeader(hs[i])
      /\ \A i \in DOMAIN ts : IsHeader(ts[i]) /\ HeaderState(ts[i][1]) = "general"
  BY DEF WellFormed
<1>2. hs \in Seq(A) /\ ts \in Seq(A)
  <2> DEFINE B == Range(hs)
             C == Range(ts)
  <2>1. B \subseteq A /\ C \subseteq A /\ hs \in Seq(B) /\ ts \in Seq(C)
    BY <1>1
  <2> HIDE DEF A, B, C
  <2> QED
    BY <2>1, SeqWider
<1> HIDE DEF A
<1>3. DOMAIN hs = 1 .. k /\ DOMAIN ts = 1 .. j /\ k \in Nat /\ j \in Nat /\ n \in Nat
  <2> HIDE DEF hs, ts
  <2>1. DOMAIN hs = 1 .. Len(hs) /\ Len(hs) \in Nat
    BY <1>2, LenProperties
  <2>2. DOMAIN ts = 1 .. Len(ts) /\ Len(ts) \in Nat
    BY <1>2, LenProperties
  <2> QED
    BY <2>1, <2>2
<1>4. /\ L \in Seq(A) /\ Len(L) = n
      /\ \A i \in 1 .. n : L[i] = IF i <= k THEN hs[i] ELSE ts[i - k]
  BY <1>2, ConcatProperties
<1>5. DOMAIN L = 1 .. n
  BY <1>4, LenProperties
<1> HIDE DEF L, hs, ts, j, k
<1>6. \A i \in 1 .. k : hs[i] = L[0 + i]
  <2> SUFFICES ASSUME NEW i \in 1 .. k PROVE hs[i] = L[0 + i]
    OBVIOUS
  <2>1. i \in 1 .. n /\ 0 + i = i /\ i <= k
    BY <1>3
  <2> QED
    BY <1>4, <2>1
<1>7. \A i \in 1 .. j : ts[i] = L[k + i]
  <2> SUFFICES ASSUME NEW i \in 1 .. j PROVE ts[i] = L[k + i]
    OBVIOUS
  <2>1. k + i \in 1 .. n /\ (k + i) - k = i /\ ~(k + i <= k)
    BY <1>3
  <2> QED
    BY <1>4, <2>1
<1>8. \A i \in 1 .. n : IsHeader(L[i])
  <2> SUFFICES ASSUME NEW i \in 1 .. n PROVE IsHeader(L[i])
    OBVIOUS
  <2>1. CASE i <= k
    <3>1. i \in 1 .. k
      BY <1>3, <2>1
    <3> QED
      BY <1>1, <1>3, <1>4, <2>1, <3>1
  <2>2. CASE ~(i <= k)
    <3>1. i - k \in 1 .. j
      BY <1>3, <2>2
    <3> QED
      BY <1>1, <1>3, <1>4, <2>2, <3>1
  <2> QED
    BY <2>1, <2>2
<1>9. k = Len(hs) /\ j = Len(ts)
  BY DEF k, j
<1>10. Segment(L, n, 0, hs, k)
  <2>1. 0 + k <= n /\ 0 \in Nat
    BY <1>3
  <2> HIDE DEF n
  <2> QED
    BY <1>1, <1>3, <1>5, <1>6, <1>8, <1>9, <2>1 DEF Segment, L
<1>11. Segment(L, n, k, ts, j)
  <2>1. k + j <= n
    BY <1>3
  <2> HIDE DEF n
  <2> QED
    BY <1>1, <1>3, <1>5, <1>7, <1>8, <1>9, <2>1 DEF Segment, L
<1>12. \A i \in 1 .. j : HeaderState(ts[i][1]) = "general"
  BY <1>1, <1>3
<1>13. k + j = n
  OBVIOUS
<1>14. LinesOf(m, L, n, k, j)
  BY <1>10, <1>11, <1>12, <1>13 DEF LinesOf, TrailersOf, hs, ts
<1> QED
  BY <1>14

(* What is to be delivered is what is kept.                                *)
LEMMA DeliveredIs ==
    ASSUME NEW m, NEW L, NEW n, NEW k, Segment(L, n, 0, m.headers, k), NEW pairs, Kept(L, pairs, k)
    PROVE  Delivered(m) \subseteq pairs
<1> DEFINE hs == m.headers
<1>1. k \in Nat /\ DOMAIN hs = 1 .. k /\ \A i \in 1 .. k : hs[i] = L[i]
  <2>1. \A i \in 1 .. k : 0 + i = i
    BY DEF Segment
  <2> QED
    BY <2>1 DEF Segment
<1> HIDE DEF hs
<1>2. ASSUME NEW i \in DOMAIN hs, hs[i][2] # <<>>, i = 1 \/ hs[i - 1][2] # <<>>
      PROVE  <<hs[i][1], Folded(hs[i][2], <<"SP">>)>> \in pairs
  <2>1. i \in 1 .. k /\ (i # 1 => i - 1 \in 1 .. k)
    BY <1>1
  <2>2. Deliverable(L, i)
    BY <1>1, <1>2, <2>1 DEF Deliverable
  <2>3. Sent(L[i]) \in pairs
    BY <2>1, <2>2 DEF Kept
  <2> QED
    BY <1>1, <2>1, <2>3 DEF Sent
<1> QED
  BY <1>2 DEF Delivered, hs

(* What the head says about the body is how the body is cut.               *)
Sized(m, len) ==
    \/ Len(m.body) = len
    \/ Len(m.body) < len /\ m.next = <<>> /\ ~WithinLimits(m)

(* The parser expects the body that was sent.                              *)
LEMMA FramedAs ==
    ASSUME NEW m, WellFormed(m), NEW L, NEW n, NEW k, Segment(L, n, 0, m.headers, k),
           NEW f, AfterHead(m, L, k, f)
    PROVE  /\ NoBody(f) => m.chunks = <<>> /\ m.body = <<>>
           /\ ~NoBody(f) /\ "chunked" \in f.flags =>
                /\ m.chunks # <<>> /\ m.body = FlattenSeq(m.chunks)
                /\ \A i \in DOMAIN m.chunks : Len(m.chunks[i]) \in 1 .. 2
           /\ ~NoBody(f) /\ "chunked" \notin f.flags =>
                m.chunks = <<>> /\ f.len \in Nat /\ f.len > 0 /\ Sized(m, f.len)
<1> DEFINE hs == m.headers
<1>1. DOMAIN hs = 1 .. k /\ k \in Nat
  BY DEF Segment
<1>2. /\ "chunked" \in f.flags <=> Named(m, CodingName) # {}
      /\ HeaderOnly(m) <=> "upgrade" \in f.flags \/ f.method = <<"C", "ONNECT">>
  <2>1. f.flags = Brought(hs, k) /\ f.method = m.method
    BY DEF AfterHead
  <2>2. /\ "chunked" \in f.flags <=> \E i \in 1 .. k : hs[i][1] = CodingName
        /\ "upgrade" \in f.flags <=> \E i \in 1 .. k : hs[i][1] = UpgradeName /\ hs[i][2] # <<>>
    BY <2>1, FlagsBrought
  <2>3. \A name : Named(m, name) = {i \in 1 .. k : hs[i][1] = name}
    BY <1>1 DEF Named
  <2> HIDE DEF hs
  <2>4. Named(m, CodingName) # {} <=> \E i \in 1 .. k : hs[i][1] = CodingName
    BY <2>3
  <2>5. HeaderOnly(m) <=> \/ m.method = <<"C", "ONNECT">>
                          \/ \E i \in 1 .. k : hs[i][1] = UpgradeName /\ hs[i][2] # <<>>
    BY <2>3 DEF HeaderOnly, UpgradeName, hs
  <2> QED
    BY <2>1, <2>2, <2>4, <2>5
<1>3. LenSeen(hs, k, f.len, MaxLength)
  BY DEF AfterHead
<1>4. /\ m.chunks # <<>> =>
           /\ Named(m, CodingName) # {} /\ ~HeaderOnly(m)
           /\ \A i \in DOMAIN m.chunks : Len(m.chunks[i]) \in 1 .. 2
           /\ m.body = FlattenSeq(m.chunks)
      /\ m.chunks = <<>> =>
           /\ Named(m, CodingName) = {}
           /\ HeaderOnly(m) \/ Named(m, LengthName) = {} => m.body = <<>>
           /\ ~HeaderOnly(m) => \A i \in Named(m, LengthName) :
                LET v == m.headers[i][2]
                IN  \/ Len(m.body) = Number(v)
                    \/ (Len(m.body) < Number(v) /\ Len(v) > 1 /\ m.next = <<>>)
      /\ m.body \in Seq(Atoms)
  BY DEF WellFormed, IsFramed, CodingName, LengthName
<1>5. Len(m.body) \in Nat /\ (Len(m.body) = 0 <=> m.body = <<>>)
  BY <1>4, LenProperties, EmptySeq
<1>6. ASSUME ~HeaderOnly(m), m.chunks = <<>>
      PROVE  \/ f.len = MaxLength /\ m.body = <<>>
             \/ f.len \in Nat /\ f.len < MaxLength /\ Sized(m, f.len)
  <2>1. CASE (\A i \in 1 .. k : hs[i][1] # LengthName) /\ f.len = MaxLength
    <3>1. Named(m, LengthName) = {}
      BY <1>1, <2>1 DEF Named
    <3> QED
      BY <1>4, <1>6, <2>1, <3>1
  <2>2. ASSUME NEW i \in 1 .. k, hs[i][1] = LengthName, f.len = Number(hs[i][2]),
               f.len \in Nat, f.len < MaxLength
        PROVE  Sized(m, f.len)
    <3>1. i \in Named(m, LengthName)
      BY <1>1, <2>2 DEF Named
    <3> DEFINE v == hs[i][2]
    <3>2. \/ Len(m.body) = f.len
          \/ (Len(m.body) < f.len /\ Len(v) > 1 /\ m.next = <<>>)
      BY <1>4, <1>6, <2>2, <3>1
    <3>3. Len(v) > 1 => ~WithinLimits(m)
      <4>1. WithinLimits(m) => Len(v) = 1
        BY <1>1, <2>2 DEF WithinLimits, LengthName
      <4>2. ~(1 > 1)
        OBVIOUS
      <4> QED
        BY <4>1, <4>2
    <3> QED
      BY <3>2, <3>3 DEF Sized
  <2> QED
    BY <1>3, <2>1, <2>2 DEF LenSeen
<1>7. ASSUME NoBody(f) PROVE m.chunks = <<>> /\ m.body = <<>>
  <2>1. CASE HeaderOnly(m)
    BY <1>4, <2>1
  <2>2. CASE ~HeaderOnly(m)
    <3>1. "chunked" \notin f.flags /\ f.len \in {0, MaxLength}
      BY <1>2, <1>7, <2>2 DEF NoBody
    <3>2. m.chunks = <<>>
      BY <1>2, <1>4, <3>1
    <3>3. CASE f.len = MaxLength /\ m.body = <<>>
      BY <3>2, <3>3
    <3>4. CASE f.len \in Nat /\ f.len < MaxLength /\ Sized(m, f.len)
      <4>1. f.len = 0
        BY <3>1, <3>4
      <4>2. Len(m.body) = 0
        BY <1>5, <3>4, <4>1 DEF Sized
      <4> QED
        BY <1>5, <3>2, <4>2
    <3> QED
      BY <1>6, <2>2, <3>2, <3>3, <3>4
  <2> QED
    BY <2>1, <2>2
<1>8. ASSUME ~NoBody(f) PROVE ~HeaderOnly(m)
  BY <1>2, <1>8 DEF NoBody
<1>9. ASSUME ~NoBody(f), "chunked" \in f.flags
      PROVE  /\ m.chunks # <<>> /\ m.body = FlattenSeq(m.chunks)
             /\ \A i \in DOMAIN m.chunks : Len(m.chunks[i]) \in 1 .. 2
  BY <1>2, <1>4, <1>9
<1>10. ASSUME ~NoBody(f), "chunked" \notin f.flags
       PROVE  m.chunks = <<>> /\ f.len \in Nat /\ f.len > 0 /\ Sized(m, f.len)
  <2>1. m.chunks = <<>>
    BY <1>2, <1>4, <1>10
  <2>2. f.len \notin {0, MaxLength}
    BY <1>10 DEF NoBody
  <2>3. f.len \in Nat /\ Sized(m, f.len)
    BY <1>6, <1>8, <1>10, <2>1, <2>2
  <2> QED
    BY <2>1, <2>2, <2>3
<1> QED
  BY <1>7, <1>9, <1>10

(* A whole message.                                                        *)
Understood(m, f) ==
    f.method = m.method /\ f.url = m.url /\ f.body = m.body /\ Delivered(m) \subseteq f.headers
(* A long body that is not all there.                                      *)
Undecided(sure, m, q, data) ==
    ~sure /\ m.next = <<>> /\ ReadOn(Starting(q), data).verdict # "true"

(* The chunks of a well-formed message are small.                          *)
LEMMA SmallIs ==
    ASSUME NEW chunks \in Seq(Seq(Atoms)), \A i \in DOMAIN chunks : Len(chunks[i]) \in 1 .. 2
    PROVE  Small(chunks)
<1> DEFINE A == Seq(Atoms)
           B == Seq(Wire)
<1>1. Atoms \subseteq Wire
  BY DEF Wire
<1>2. A \subseteq B
  BY <1>1, SeqWider
<1>3. chunks \in Seq(A)
  OBVIOUS
<1>4. chunks \in Seq(B)
  <2> HIDE DEF A, B
  <2> QED
    BY <1>2, <1>3, SeqWider
<1>5. 1 .. 2 = {1, 2}
  OBVIOUS
<1> QED
  BY <1>4, <1>5 DEF Small

(* A body is a sequence over the wire.                                     *)
LEMMA BodyIsWire ==
    ASSUME NEW m, WellFormed(m)
    PROVE  BodyOf(m) \in Seq(Wire)
<1> DEFINE chunks == m.chunks
           ts == m.trailers
<1>1. CASE chunks = <<>>
  <2>1. m.body \in Seq(Atoms) /\ Atoms \subseteq Wire
    BY DEF WellFormed, Wire
  <2>2. m.body \in Seq(Wire)
    BY <2>1, SeqWider
  <2> QED
    BY <1>1, <2>2 DEF BodyOf
<1>2. CASE chunks # <<>>
  <2> DEFINE no == FALSE
             q == [Lead(no, 0) EXCEPT !.state = "chunk_size_start"]
             e == <<>>
             x == Chunks(chunks)
             y == <<"0", "CR", "LF">>
             z == Lines(ts)
  <2>1. Small(chunks)
    <3>1. chunks \in Seq(Seq(Atoms)) /\ \A i \in DOMAIN chunks : Len(chunks[i]) \in 1 .. 2
      BY <1>2 DEF WellFormed, IsFramed
    <3> HIDE DEF chunks
    <3> QED
      BY <3>1, SmallIs
  <2>2. no \in BOOLEAN /\ no = FALSE
    OBVIOUS
  <2>3. Nothing(e)
    BY EmptySeq DEF Nothing
  <2>4. ChunkAtStart(q, q, e)
    <3> DEFINE l == Lead(no, 0)
    <3> HIDE DEF no
    <3>1. Going(l) /\ l.nread = 0 /\ Blank(l)
      BY <2>2, LeadIs
    <3> HIDE DEF l
    <3>2. Going([l EXCEPT !.state = "chunk_size_start"])
      BY <3>1 DEF Going, Fields
    <3> QED
      BY <3>1, <3>2 DEF ChunkAtStart, ChunkAt, Keeps, Going, Fields, Blank, l
  <2>5. x \in Seq(Wire)
    <3>1. no => 3 <= MaxHeader
      OBVIOUS
    <3> HIDE DEF no, q, e, chunks
    <3> QED
      BY <2>1, <2>2, <2>3, <2>4, <3>1, ChunksRead
  <2>6. z \in Seq(Wire)
    <3>1. PICK L, n, k, j : LinesOf(m, L, n, k, j)
      BY LinesOfExist
    <3>2. Segment(L, n, k, ts, j)
      BY <3>1 DEF LinesOf, TrailersOf
    <3>3. j \in Nat /\ j = Len(ts) /\ DOMAIN ts = 1 .. j /\ \A i \in 1 .. j : IsHeader(ts[i])
      <4>1. j \in Nat /\ j = Len(ts) /\ DOMAIN ts = 1 .. j
        BY <3>2 DEF Segment
      <4> QED
        BY <4>1 DEF WellFormed
    <3> HIDE DEF ts
    <3>4. PICK flat : LinesFlat(ts, j, flat)
      BY <3>3, LinesFlatExist
    <3>5. j <= j
      BY <3>3
    <3> QED
      BY <3>3, <3>4, <3>5 DEF LinesFlat
  <2>7. y \in Seq(Wire) /\ CRLF \in Seq(Wire)
    <3>1. "0" \in Wire /\ "CR" \in Wire /\ "LF" \in Wire
      BY DEF Wire, Delimiters
    <3>2. y \in Seq(Wire)
      BY <3>1
    <3> QED
      BY <3>2, WellFormedIs
  <2>8. BodyOf(m) = ((x \o y) \o z) \o CRLF
    BY <1>2 DEF BodyOf, Chunks
  <2> HIDE DEF x, y, z
  <2>9. x \o y \in Seq(Wire)
    BY <2>5, <2>7, LengthIs
  <2> DEFINE xy == x \o y
  <2> HIDE DEF xy
  <2>10. xy \o z \in Seq(Wire)
    <3>1. xy \in Seq(Wire)
      BY <2>9 DEF xy
    <3> QED
      BY <2>6, <3>1, LengthIs
  <2> DEFINE xyz == xy \o z
  <2> HIDE DEF xyz
  <2>11. xyz \o CRLF \in Seq(Wire)
    <3>1. xyz \in Seq(Wire)
      BY <2>10 DEF xyz
    <3> QED
      BY <2>7, <3>1, LengthIs
  <2> QED
    BY <2>8, <2>11 DEF xyz, xy
<1> QED
  BY <1>1, <1>2

(* A body with a length is read; or not all of it is there.                *)
LEMMA BodyWithLength ==
    ASSUME NEW sure \in BOOLEAN, NEW m, sure => WithinLimits(m), WellFormed(m),
           NEW L, NEW n, NEW k, NEW j, LinesOf(m, L, n, k, j), NEW f, AfterHead(m, L, k, f),
           ~NoBody(f), "chunked" \notin f.flags
    PROVE  /\ BodyOf(m) \in Seq(Wire)
           /\ \/ \E g : Ends(sure, f, BodyOf(m), g) /\ Understood(m, g)
              \/ ~sure /\ m.next = <<>> /\ \E r : Reads(sure, f, BodyOf(m), r)
<1> DEFINE e == <<>>
           data == m.body
           len == f.len
<1>1. Segment(L, n, 0, m.headers, k)
  BY DEF LinesOf
<1>2. m.chunks = <<>> /\ len \in Nat /\ len > 0 /\ Sized(m, len)
  <2>1. ~NoBody(f) /\ "chunked" \notin f.flags =>
          m.chunks = <<>> /\ f.len \in Nat /\ f.len > 0 /\ Sized(m, f.len)
    BY <1>1, FramedAs
  <2> QED
    BY <2>1
<1>3. BodyOf(m) = data /\ data \in Seq(Wire)
  <2>1. m.body \in Seq(Atoms) /\ Atoms \subseteq Wire
    BY DEF WellFormed, Wire
  <2>2. m.body \in Seq(Wire)
    BY <2>1, SeqWider
  <2> QED
    BY <1>2, <2>2 DEF BodyOf
<1>4. InBodyOf(f, f, <<>>, len)
  BY DEF InBodyOf, AfterHead, Going
<1>5. e \in Seq(Wire) /\ e = <<>> /\ InBodyOf(f, f, e, len)
  BY <1>4, EmptySeq
<1> HIDE DEF e, data, len
<1>6. Len(data) \in Nat
  BY <1>3, LenProperties
<1>7. Len(data) <= len
  BY <1>2, <1>6 DEF Sized, data
<1>8. BodyDone(sure, f, data, len)
  <2>1. len \in Nat /\ len > 0 /\ data \in Seq(Wire)
    BY <1>2, <1>3
  <2>2. Nothing(e)
    BY <1>5 DEF Nothing
  <2>3. InBodyOf(f, f, e, len)
    BY <1>5
  <2> QED
    BY <1>7, <2>1, <2>2, <2>3, BodyRead
<1>9. CASE Len(data) = len
  <2>1. PICK g : /\ Ends(sure, f, data, g) /\ g.body = data
                 /\ g.method = f.method /\ g.url = f.url /\ g.headers = f.headers
    BY <1>8, <1>9 DEF BodyDone
  <2>2. f.method = m.method /\ f.url = m.url /\ Kept(L, f.headers, k)
    BY DEF AfterHead, Between
  <2>3. Delivered(m) \subseteq f.headers
    BY <1>1, <2>2, DeliveredIs
  <2>4. Understood(m, g)
    BY <2>1, <2>2, <2>3 DEF Understood, data
  <2> QED
    BY <1>3, <2>1, <2>4
<1>10. CASE Len(data) # len
  <2>1. m.next = <<>> /\ ~WithinLimits(m)
    BY <1>2, <1>10 DEF Sized, data
  <2>2. Len(data) < len
    <3>1. PICK i \in Nat : i = Len(data)
      BY <1>6
    <3>2. PICK l \in Nat : l = len
      BY <1>2
    <3> QED
      BY <1>7, <1>10, <3>1, <3>2
  <2> QED
    BY <1>3, <1>8, <2>1, <2>2 DEF BodyDone
<1> QED
  BY <1>9, <1>10

(* A body in chunks is read.                                               *)
LEMMA BodyInChunks ==
    ASSUME NEW sure \in BOOLEAN, NEW m, sure => WithinLimits(m), WellFormed(m), sure => 3 <= MaxHeader,
           NEW L, NEW n, NEW k, NEW j, LinesOf(m, L, n, k, j), NEW f, AfterHead(m, L, k, f),
           ~NoBody(f), "chunked" \in f.flags
    PROVE  /\ BodyOf(m) \in Seq(Wire)
           /\ \E g : Ends(sure, f, BodyOf(m), g) /\ Understood(m, g)
<1> DEFINE chunks == m.chunks
           ts == m.trailers
           e == <<>>
<1>1. Segment(L, n, 0, m.headers, k) /\ TrailersOf(L, n, k, ts, j)
  BY DEF LinesOf
<1>2. /\ chunks # <<>> /\ m.body = FlattenSeq(chunks)
      /\ \A i \in DOMAIN chunks : Len(chunks[i]) \in 1 .. 2
  <2>1. ~NoBody(f) /\ "chunked" \in f.flags =>
           /\ m.chunks # <<>> /\ m.body = FlattenSeq(m.chunks)
           /\ \A i \in DOMAIN m.chunks : Len(m.chunks[i]) \in 1 .. 2
    BY <1>1, FramedAs
  <2> QED
    BY <2>1
<1>3. Small(chunks)
  <2>1. chunks \in Seq(Seq(Atoms))
    BY DEF WellFormed
  <2> HIDE DEF chunks
  <2> QED
    BY <1>2, <2>1, SmallIs
<1>4. BodyOf(m) = Chunks(chunks) \o <<"0", "CR", "LF">> \o Lines(ts) \o CRLF
  BY <1>2 DEF BodyOf, Chunks
<1>5. /\ e \in Seq(Wire) /\ e = <<>> /\ ChunkAtStart(f, f, e)
      /\ f.field \in Seq(Wire) /\ Between(L, f, k, k)
  <2>1. ChunkAt(f, f, "chunk_size_start", <<>>, f.len, 0)
    BY DEF ChunkAt, AfterHead, Keeps
  <2> QED
    BY <2>1, EmptySeq DEF ChunkAtStart, AfterHead
<1>6. sure => Len(Lines(ts)) + 2 <= MaxHeader
  BY DEF WithinLimits
<1> HIDE DEF e, chunks, ts
<1>7. ChunkedDone(sure, f, L, k, ts, chunks)
  <2>1. TrailersOf(L, n, k, ts, j)
    BY <1>1
  <2>2. Nothing(e)
    BY <1>5 DEF Nothing
  <2>3. ChunkAtStart(f, f, e) /\ f.field \in Seq(Wire) /\ Between(L, f, k, k)
    BY <1>5
  <2> QED
    BY <1>3, <1>6, <2>1, <2>2, <2>3, ChunkedRead
<1>8. PICK g : /\ Ends(sure, f, BodyOf(m), g)
               /\ Requested(L, k, f, g) /\ g.body = FlattenSeq(chunks)
  BY <1>4, <1>7 DEF ChunkedDone, ChunkedOf
<1>9. Understood(m, g)
  <2>1. g.method = f.method /\ g.url = f.url /\ Kept(L, g.headers, k)
    BY <1>8 DEF Requested
  <2>2. Delivered(m) \subseteq g.headers
    BY <1>1, <2>1, DeliveredIs
  <2> QED
    BY <1>2, <1>8, <2>1, <2>2 DEF Understood, AfterHead
<1> QED
  BY <1>8, <1>9, BodyIsWire

(* The section of the stream that is the message: it ends with the request *)
(* that was sent, is lost where that is not excluded, or is not all there. *)
MessageOf(m) == HeadOf(m) \o BodyOf(m)

(* A message is read, one atom at a time.                                  *)
LEMMA MessageRead ==
    ASSUME NEW sure \in BOOLEAN, NEW c \in BOOLEAN, c = FALSE, NEW m, WellFormed(m),
           sure => WithinLimits(m)
    PROVE  /\ MessageOf(m) \in Seq(Wire)
           /\ \/ Lost(sure, Lead(c, 0), MessageOf(m))
              \/ \E f : Ends(sure, Lead(c, 0), MessageOf(m), f) /\ Understood(m, f)
              \/ Undecided(sure, m, Lead(c, 0), MessageOf(m))
<1> DEFINE q == Lead(c, 0)
           x == HeadOf(m)
           y == BodyOf(m)
<1>1. PICK L, n, k, j : LinesOf(m, L, n, k, j)
  BY LinesOfExist
<1>2. Segment(L, n, 0, m.headers, k)
  BY <1>1 DEF LinesOf
<1>3. /\ x \in Seq(Wire) /\ (sure => 3 <= MaxHeader)
      /\ \/ Lost(sure, q, x)
         \/ \E f : /\ AfterHead(m, L, k, f)
                   /\ NoBody(f) => Ends(sure, q, x, f)
                   /\ ~NoBody(f) => Reads(sure, q, x, f)
  BY <1>2, HeadRead
<1>4. MessageOf(m) = x \o y
  BY DEF MessageOf
<1>5. y \in Seq(Wire)
  BY BodyIsWire
<1> HIDE DEF x, y, q
<1>6. x \o y \in Seq(Wire)
  BY <1>3, <1>5, LengthIs
<1>7. CASE Lost(sure, q, x)
  <2>1. Lost(sure, q, x \o y)
    BY <1>3, <1>5, <1>7, LostOn
  <2> QED
    BY <1>4, <1>6, <2>1 DEF q
<1>8. ASSUME NEW f, AfterHead(m, L, k, f), NoBody(f), Ends(sure, q, x, f)
      PROVE  Ends(sure, q, MessageOf(m), f) /\ Understood(m, f)
  <2>1. m.chunks = <<>> /\ m.body = <<>>
    <3>1. NoBody(f) => m.chunks = <<>> /\ m.body = <<>>
      BY <1>2, <1>8, FramedAs
    <3> QED
      BY <1>8, <3>1
  <2>2. y = <<>>
    BY <2>1 DEF y, BodyOf
  <2>3. x \o y = x
    BY <1>3, <2>2, ConcatEmptySeq
  <2>4. Kept(L, f.headers, k)
    BY <1>8 DEF AfterHead, Between
  <2>5. Delivered(m) \subseteq f.headers
    BY <1>2, <2>4, DeliveredIs
  <2> QED
    BY <1>4, <1>8, <2>1, <2>3, <2>5 DEF Understood, AfterHead
<1>9. ASSUME NEW f, AfterHead(m, L, k, f), ~NoBody(f), Reads(sure, q, x, f)
      PROVE  \/ \E g : Ends(sure, q, MessageOf(m), g) /\ Understood(m, g)
             \/ Undecided(sure, m, q, MessageOf(m))
  <2>0. Reads(sure, q, x, f)
    BY <1>9
  <2>1. ASSUME NEW g, Ends(sure, f, y, g)
        PROVE  Ends(sure, q, MessageOf(m), g)
    <3>1. Ends(sure, q, x \o y, g)
      BY <1>3, <1>5, <2>0, <2>1, EndsLater
    <3> QED
      BY <1>4, <3>1
  <2>2. CASE "chunked" \in f.flags
    <3>1. \E g : Ends(sure, f, BodyOf(m), g) /\ Understood(m, g)
      BY <1>1, <1>3, <1>9, <2>2, BodyInChunks
    <3> QED
      BY <2>1, <3>1 DEF y
  <2>3. CASE "chunked" \notin f.flags
    <3>1. \/ \E g : Ends(sure, f, BodyOf(m), g) /\ Understood(m, g)
          \/ ~sure /\ m.next = <<>> /\ \E r : Reads(sure, f, BodyOf(m), r)
      BY <1>1, <1>9, <2>3, BodyWithLength
    <3>2. ASSUME ~sure, m.next = <<>>, NEW r, Reads(sure, f, y, r)
          PROVE  Undecided(sure, m, q, MessageOf(m))
      <4>1. Reads(sure, q, x \o y, r)
        BY <1>3, <1>5, <2>0, <3>2, ReadsOn
      <4>2. ReadOn(Starting(q), x \o y).verdict \in {"indeterminate", "false"}
        BY <4>1 DEF Reads, Starting
      <4> QED
        BY <1>4, <3>2, <4>2 DEF Undecided
    <3> QED
      BY <2>1, <3>1, <3>2 DEF y
  <2> QED
    BY <2>2, <2>3
<1> QED
  <2>1. ASSUME NEW f, AfterHead(m, L, k, f), NoBody(f) => Ends(sure, q, x, f),
               ~NoBody(f) => Reads(sure, q, x, f)
        PROVE  \/ \E g : Ends(sure, q, MessageOf(m), g) /\ Understood(m, g)
               \/ Undecided(sure, m, q, MessageOf(m))
    BY <1>8, <1>9, <2>1
  <2> QED
    BY <1>3, <1>4, <1>6, <1>7, <2>1 DEF q

-----------------------------------------------------------------------------
(* Two sequences that start alike: the longer one goes on where the other  *)
(* ends.                                                                   *)
Joins(t, a, b) == t = a \o b

LEMMA GoesOnBehind ==
    ASSUME NEW A, NEW a \in Seq(A), NEW b \in Seq(A), NEW w \in Seq(A), NEW x \in Seq(A), NEW t,
           Joins(t, a, b), Joins(t, w, x), Len(a) <= Len(w)
    PROVE  \E d \in Seq(A) : w = a \o d
<1> DEFINE u == Len(a)
           n == Len(w)
           d == SubSeq(w, u + 1, n)
           z == a \o d
<1>1. u \in Nat /\ n \in Nat /\ u <= n /\ Len(w) = n /\ Len(a) = u
  BY LenProperties
<1> HIDE DEF u, n
<1>2. /\ d \in Seq(A) /\ Len(d) = n - u
      /\ \A i \in 1 .. n - u : d[i] = w[u + i]
  BY <1>1, TailIs
<1> HIDE DEF d
<1>0. d \in Seq(A) /\ Len(d) = n - u
  BY <1>2
<1>3. /\ z \in Seq(A) /\ Len(z) = u + (n - u)
      /\ \A i \in 1 .. u + (n - u) : z[i] = IF i <= u THEN a[i] ELSE d[i - u]
  BY <1>0, <1>1, ConcatProperties
<1>4. \A i \in 1 .. u : t[i] = a[i]
  <2>1. \A i \in 1 .. Len(a) + Len(b) : (a \o b)[i] = IF i <= Len(a) THEN a[i] ELSE b[i - Len(a)]
    BY ConcatProperties
  <2>2. Len(b) \in Nat
    BY LenProperties
  <2> SUFFICES ASSUME NEW i \in 1 .. u PROVE t[i] = a[i]
    OBVIOUS
  <2>3. i \in 1 .. Len(a) + Len(b) /\ i <= Len(a)
    BY <1>1, <2>2
  <2>4. (a \o b)[i] = a[i]
    BY <2>1, <2>3
  <2> QED
    BY <2>4 DEF Joins
<1>5. \A i \in 1 .. n : t[i] = w[i]
  <2>1. \A i \in 1 .. Len(w) + Len(x) : (w \o x)[i] = IF i <= Len(w) THEN w[i] ELSE x[i - Len(w)]
    BY ConcatProperties
  <2>2. Len(x) \in Nat
    BY LenProperties
  <2> SUFFICES ASSUME NEW i \in 1 .. n PROVE t[i] = w[i]
    OBVIOUS
  <2>3. i \in 1 .. Len(w) + Len(x) /\ i <= Len(w)
    BY <1>1, <2>2
  <2>4. (w \o x)[i] = w[i]
    BY <2>1, <2>3
  <2> QED
    BY <2>4 DEF Joins
<1> HIDE DEF z
<1>6. \A i \in 1 .. n : z[i] = w[i]
  <2> SUFFICES ASSUME NEW i \in 1 .. n PROVE z[i] = w[i]
    OBVIOUS
  <2>1. CASE i <= u
    <3>1. i \in 1 .. u /\ i \in 1 .. u + (n - u)
      BY <1>1, <2>1
    <3> QED
      BY <1>3, <1>4, <1>5, <2>1, <3>1
  <2>2. CASE ~(i <= u)
    <3>1. i \in 1 .. u + (n - u) /\ i - u \in 1 .. n - u /\ u + (i - u) = i
      BY <1>1, <2>2
    <3>2. z[i] = d[i - u]
      BY <1>3, <2>2, <3>1
    <3> QED
      BY <1>2, <3>1, <3>2
  <2> QED
    BY <2>1, <2>2
<1>7. Len(z) = n
  BY <1>1, <1>3
<1>8. w = z
  BY <1>1, <1>3, <1>6, <1>7, SeqEqual
<1> QED
  BY <1>2, <1>8 DEF z

(* A sequence, cut behind its first k members.                             *)
Splits(t, k, a, b) == a = SubSeq(t, 1, k) /\ Len(a) = k /\ t = a \o b

(* Every sequence can be cut.                                              *)
LEMMA SplitAt ==
    ASSUME NEW A, NEW t \in Seq(A), NEW k \in Nat, k <= Len(t)
    PROVE  \E a, b \in Seq(A) : Splits(t, k, a, b)
<1> DEFINE n == Len(t)
           a == SubSeq(t, 1, k)
           b == SubSeq(t, k + 1, n)
           z == a \o b
<1>1. n \in Nat /\ k <= n /\ Len(t) = n
  BY LenProperties
<1> HIDE DEF n
<1>2. a \in Seq(A) /\ Len(a) = k /\ \A i \in 1 .. k : a[i] = t[i]
  BY <1>1
<1>3. b \in Seq(A) /\ Len(b) = n - k /\ \A i \in 1 .. n - k : b[i] = t[k + i]
  BY <1>1, TailIs
<1> HIDE DEF a, b
<1>4. /\ z \in Seq(A) /\ Len(z) = k + (n - k)
      /\ \A i \in 1 .. k + (n - k) : z[i] = IF i <= k THEN a[i] ELSE b[i - k]
  BY <1>1, <1>2, <1>3, ConcatProperties
<1> HIDE DEF z
<1>5. \A i \in 1 .. n : z[i] = t[i]
  <2> SUFFICES ASSUME NEW i \in 1 .. n PROVE z[i] = t[i]
    OBVIOUS
  <2>1. CASE i <= k
    <3>1. i \in 1 .. k /\ i \in 1 .. k + (n - k)
      BY <1>1, <2>1
    <3> QED
      BY <1>2, <1>4, <2>1, <3>1
  <2>2. CASE ~(i <= k)
    <3>1. i \in 1 .. k + (n - k) /\ i - k \in 1 .. n - k /\ k + (i - k) = i
      BY <1>1, <2>2
    <3>2. z[i] = b[i - k]
      BY <1>4, <2>2, <3>1
    <3> QED
      BY <1>3, <3>1, <3>2
  <2> QED
    BY <2>1, <2>2
<1>6. Len(z) = n
  BY <1>1, <1>4
<1>7. z = t
  BY <1>1, <1>4, <1>5, <1>6, SeqEqual
<1> QED
  BY <1>2, <1>3, <1>7 DEF a, z, Splits

(* What is known when k atoms of what was sent are read one by one.        *)
ReadSoFar(m, k, run) ==
    /\ run.verdict = "true" => Understood(m, run.p) /\ k >= Len(MessageOf(m))
    /\ WithinLimits(m) => run.verdict # "false"
    /\ WithinLimits(m) /\ k >= Len(MessageOf(m)) => run.verdict = "true"

(* What is known when any part of the stream is read one atom at a time.   *)
LEMMA PrefixRead ==
    ASSUME NEW c \in BOOLEAN, c = FALSE, NEW m, WellFormed(m),
           NEW a \in Seq(Wire), NEW b \in Seq(Wire), Joins(MessageOf(m) \o m.next, a, b)
    PROVE  ReadSoFar(m, Len(a), ReadOn(Starting(Lead(c, 0)), a))
<1> DEFINE sure == WithinLimits(m)
           w == MessageOf(m)
           x == m.next
           t == a \o b
           s == Starting(Lead(c, 0))
           q == Lead(c, 0)
           run == ReadOn(s, a)
           k == Len(a)
           l == Len(w)
<1>1. sure \in BOOLEAN /\ (sure => WithinLimits(m))
  BY DEF WithinLimits
<1> HIDE DEF sure, t, q
<1>2. /\ w \in Seq(Wire)
      /\ \/ Lost(sure, q, w)
         \/ \E f : Ends(sure, q, w, f) /\ Understood(m, f)
         \/ Undecided(sure, m, q, w)
  BY <1>1, MessageRead DEF q
<1>3. x \in Seq(Wire)
  <2>1. m.next \in Seq(Atoms) /\ Atoms \subseteq Wire
    BY DEF WellFormed, Wire
  <2> QED
    BY <2>1, SeqWider
<1>4. t = a \o b /\ t = w \o x
  BY DEF t, Joins
<1>5. k \in Nat /\ l \in Nat
  BY <1>2, LenProperties
<1>6. s = Starting(q)
  BY DEF q
<1>7. WithinLimits(m) = sure
  BY DEF sure
<1>12. Joins(t, a, b) /\ Joins(t, w, x)
  BY <1>4 DEF Joins
<1> HIDE DEF w, x, s
<1>13. w \in Seq(Wire) /\ x \in Seq(Wire)
  BY <1>2, <1>3
<1>8. ASSUME k < l
      PROVE  run.verdict # "true" /\ (sure => run.verdict # "false")
  <2>1. PICK d \in Seq(Wire) : w = a \o d
    <3>1. Len(a) <= Len(w)
      BY <1>5, <1>8
    <3> QED
      BY <1>12, <1>13, <3>1, GoesOnBehind
  <2>2. run.verdict # "indeterminate" => ReadOn(s, w) = run
    <3>1. ReadOn(s, a \o d) = ReadOn(ReadOn(s, a), d)
      BY ReadOnIs
    <3> HIDE DEF run
    <3>2. run.verdict # "indeterminate" => ReadOn(run, d) = run
      BY ReadOnIs
    <3> QED
      BY <2>1, <3>1, <3>2 DEF run
  <2> HIDE DEF run
  <2>3. CASE Lost(sure, q, w)
    BY <1>6, <2>2, <2>3 DEF Lost, Dead
  <2>4. CASE Undecided(sure, m, q, w)
    BY <1>6, <2>2, <2>4 DEF Undecided
  <2>5. ASSUME NEW f, NEW v \in Seq(Wire), NEW ch \in Wire, w = v \o <<ch>>,
               ReadOn(s, v).verdict = "indeterminate", ReadOn(s, w) = [p |-> f, verdict |-> "true"]
        PROVE  run.verdict # "true" /\ run.verdict # "false"
    <3> DEFINE y == <<ch>>
    <3>1. y \in Seq(Wire) /\ Len(y) = 1
      BY <2>5
    <3>0. w = v \o y
      BY <2>5
    <3> HIDE DEF y
    <3>2. Len(v \o y) = Len(v) + Len(y) /\ Len(v) \in Nat
      BY <3>1, LengthIs
    <3>3. Len(a) <= Len(v)
      <4> DEFINE j == Len(v)
      <4>1. j \in Nat /\ l = j + 1
        BY <3>0, <3>1, <3>2
      <4> HIDE DEF j, l, k
      <4>2. k <= j
        BY <1>5, <1>8, <4>1
      <4> QED
        BY <4>2 DEF j, k
    <3>4. PICK e \in Seq(Wire) : v = a \o e
      <4> DEFINE z == v \o y
      <4>1. Joins(z, v, y) /\ Joins(z, a, d)
        BY <2>1, <3>0 DEF Joins
      <4>2. y \in Seq(Wire)
        BY <3>1
      <4> HIDE DEF z
      <4> QED
        BY <3>3, <4>1, <4>2, GoesOnBehind
    <3>5. ReadOn(s, a \o e) = ReadOn(ReadOn(s, a), e)
      BY ReadOnIs
    <3>6. run.verdict # "indeterminate" => ReadOn(run, e) = run
      BY ReadOnIs
    <3> QED
      BY <2>5, <3>4, <3>5, <3>6 DEF run
  <2>6. CASE \E f : Ends(sure, q, w, f) /\ Understood(m, f)
    <3>1. PICK f : Ends(sure, q, w, f)
      BY <2>6
    <3>2. CASE Lost(sure, q, w)
      BY <2>3, <3>2
    <3>3. CASE \E v \in Seq(Wire), ch \in Wire :
                 /\ w = v \o <<ch>> /\ ReadOn(Starting(q), v).verdict = "indeterminate"
                 /\ ReadOn(Starting(q), w) = [p |-> f, verdict |-> "true"]
      BY <1>6, <2>5, <3>3
    <3> QED
      BY <3>1, <3>2, <3>3 DEF Ends
  <2> QED
    BY <1>2, <2>3, <2>4, <2>6
<1>9. ASSUME ~(k < l)
      PROVE  /\ run.verdict = "true" => Understood(m, run.p)
             /\ sure => run.verdict = "true"
  <2>1. PICK d \in Seq(Wire) : a = w \o d
    <3>1. Len(w) <= Len(a)
      BY <1>5, <1>9
    <3> QED
      BY <1>12, <1>13, <3>1, GoesOnBehind
  <2> DEFINE told == ReadOn(s, w)
  <2>2. run = ReadOn(told, d)
    <3>1. ReadOn(s, w \o d) = ReadOn(ReadOn(s, w), d)
      BY <1>2, ReadOnIs
    <3> QED
      BY <2>1, <3>1
  <2> HIDE DEF told, run
  <2>3. CASE Lost(sure, q, w)
    <3>1. ~sure /\ Dead(told)
      BY <1>6, <2>3 DEF Lost, told
    <3>2. Dead(run)
      BY <2>2, <3>1, DeadStays
    <3> QED
      BY <3>1, <3>2 DEF Dead
  <2>4. CASE Undecided(sure, m, q, w)
    <3>1. x = <<>> /\ ~sure /\ told.verdict # "true"
      BY <1>6, <2>4 DEF Undecided, told, x
    <3>2. t = w
      BY <1>2, <1>4, <3>1, ConcatEmptySeq
    <3>3. Len(a) <= Len(w)
      <4>1. Len(t) = Len(a) + Len(b) /\ Len(b) \in Nat
        BY <1>4, LengthIs
      <4>2. l = k + Len(b)
        BY <3>2, <4>1
      <4> HIDE DEF l, k
      <4>3. k <= l
        BY <1>5, <4>1, <4>2
      <4> QED
        BY <4>3 DEF k, l
    <3>4. PICK e \in Seq(Wire) : w = a \o e
      BY <1>12, <1>13, <3>3, GoesOnBehind
    <3>5. told = ReadOn(run, e)
      <4>1. ReadOn(s, a \o e) = ReadOn(ReadOn(s, a), e)
        BY ReadOnIs
      <4> QED
        BY <3>4, <4>1 DEF told, run
    <3>6. run.verdict # "indeterminate" => ReadOn(run, e) = run
      BY ReadOnIs
    <3> QED
      BY <3>1, <3>5, <3>6
  <2>5. ASSUME NEW f, told = [p |-> f, verdict |-> "true"], Understood(m, f)
        PROVE  run.verdict = "true" /\ Understood(m, run.p)
    <3>1. told.verdict # "indeterminate" => ReadOn(told, d) = told
      BY ReadOnIs
    <3> QED
      BY <2>2, <2>5, <3>1
  <2>6. CASE \E f : Ends(sure, q, w, f) /\ Understood(m, f)
    <3>1. PICK f : Ends(sure, q, w, f) /\ Understood(m, f)
      BY <2>6
    <3>2. CASE Lost(sure, q, w)
      BY <2>3, <3>2
    <3>3. CASE ReadOn(Starting(q), w) = [p |-> f, verdict |-> "true"]
      BY <1>6, <2>5, <3>1, <3>3 DEF told
    <3> QED
      BY <3>1, <3>2, <3>3 DEF Ends
  <2> QED
    BY <1>2, <2>3, <2>4, <2>6
<1>10. k >= l <=> ~(k < l)
  <2> HIDE DEF k, l
  <2> QED
    BY <1>5
<1> HIDE DEF k, l, run
<1>11. /\ run.verdict = "true" => Understood(m, run.p) /\ k >= l
       /\ sure => run.verdict # "false"
       /\ sure /\ k >= l => run.verdict = "true"
  BY <1>8, <1>9, <1>10
<1> QED
  BY <1>7, <1>11 DEF ReadSoFar, k, l, run, w, s

-----------------------------------------------------------------------------
(* The stream of a request that nothing happened to.                       *)
Unaltered ==
    /\ sent \in Messages
    /\ intact => stream = Serialized(sent)

(* The stream is the message, and what was sent of the next one.           *)
LEMMA SerializedIs ==
    ASSUME NEW m, WellFormed(m)
    PROVE  /\ Serialized(m) \in Seq(Wire) /\ Serialized(m) = MessageOf(m) \o m.next
           /\ Len(MessageOf(m)) \in Nat /\ Len(m.next) \in Nat
           /\ Len(Serialized(m)) = Len(MessageOf(m)) + Len(m.next)
<1> DEFINE w == MessageOf(m)
           x == m.next
<1>1. PICK c \in BOOLEAN : c = FALSE
  OBVIOUS
<1>2. w \in Seq(Wire)
  <2> DEFINE sure == FALSE
  <2>1. sure \in BOOLEAN /\ (sure => WithinLimits(m))
    OBVIOUS
  <2> HIDE DEF sure
  <2> QED
    BY <1>1, <2>1, MessageRead
<1>3. x \in Seq(Wire)
  <2>1. m.next \in Seq(Atoms) /\ Atoms \subseteq Wire
    BY DEF WellFormed, Wire
  <2> QED
    BY <2>1, SeqWider
<1>4. Serialized(m) = w \o x
  BY DEF Serialized, MessageOf
<1> HIDE DEF w, x
<1>5. /\ w \o x \in Seq(Wire) /\ Len(w) \in Nat /\ Len(x) \in Nat
      /\ Len(w \o x) = Len(w) + Len(x)
  BY <1>2, <1>3, LengthIs
<1> QED
  BY <1>4, <1>5 DEF w, x

(* What is read of it one atom at a time.                                  *)
LEMMA ReadAtomwise ==
    ASSUME NEW m, WellFormed(m), NEW k \in Nat, stream = Serialized(m), k <= Len(stream)
    PROVE  ReadSoFar(m, k, Atomwise(k))
<1> DEFINE t == Serialized(m)
           w == MessageOf(m) \o m.next
<1>1. PICK c \in BOOLEAN : c = FALSE
  OBVIOUS
<1>2. t \in Seq(Wire) /\ t = w
  BY SerializedIs
<1>3. k <= Len(t)
  OBVIOUS
<1>4. Atomwise(k) = ReadOn(Starting(Lead(c, 0)), SubSeq(t, 1, k))
  BY <1>1, OneByOneIsRun, FreshIsLead DEF Atomwise, ReadOn, Starting
<1> HIDE DEF t, w
<1>5. t \in Seq(Wire)
  BY <1>2
<1>6. PICK a, b \in Seq(Wire) : Splits(t, k, a, b)
  BY <1>3, <1>5, SplitAt
<1>7. Joins(w, a, b)
  BY <1>2, <1>6 DEF Joins, Splits
<1>8. ReadSoFar(m, Len(a), ReadOn(Starting(Lead(c, 0)), a))
  BY <1>1, <1>7, PrefixRead DEF w
<1> QED
  BY <1>4, <1>6, <1>8 DEF Splits

(* What is read one atom at a time is what was sent, so that reads of any  *)
(* length give it, too.                                                    *)
LEMMA SentMeans ==
    IInv /\ Unaltered => ParsesWhatWasSent
<1> SUFFICES ASSUME IInv, Unaltered, intact, p.method # <<>>
             PROVE  /\ verdict = "true" =>
                         /\ Understood(sent, p)
                         /\ pos >= Len(Serialized(sent)) - Len(sent.next)
                    /\ WithinLimits(sent) => verdict # "false"
                    /\ WithinLimits(sent) /\ pos = Len(stream) => verdict = "true"
  BY DEF ParsesWhatWasSent, Understood
<1> DEFINE run == Atomwise(pos)
<1>1. WellFormed(sent) /\ stream = Serialized(sent)
  BY WellFormedAssumption DEF Unaltered
<1>2. PICK l, n \in Nat : l = Len(MessageOf(sent)) /\ n = Len(sent.next) /\ Len(Serialized(sent)) = l + n
  BY <1>1, SerializedIs
<1>3. pos \in Nat /\ pos <= Len(stream) /\ Agreed(pos, p, verdict)
  BY DEF IInv
<1>4. ReadSoFar(sent, pos, run)
  BY <1>1, <1>3, ReadAtomwise
<1>5. /\ run.verdict = "true" => Understood(sent, run.p) /\ pos >= l
      /\ WithinLimits(sent) => run.verdict # "false"
      /\ WithinLimits(sent) /\ pos >= l => run.verdict = "true"
  BY <1>2, <1>4 DEF ReadSoFar
<1>6. pos = Len(stream) => pos >= l
  BY <1>1, <1>2, <1>3
<1>7. (l + n) - n = l
  BY <1>2
<1> HIDE DEF run
<1>8. ASSUME verdict = "true" /\ run.verdict = "true" /\ Content(run.p) = Content(p)
      PROVE  Understood(sent, p) /\ pos >= Len(Serialized(sent)) - Len(sent.next)
  <2>1. /\ p.method = run.p.method /\ p.url = run.p.url
        /\ p.headers = run.p.headers /\ p.body = run.p.body
    BY <1>8 DEF Content
  <2> QED
    BY <1>2, <1>5, <1>7, <1>8, <2>1 DEF Understood
<1>9. CASE verdict = "true"
  <2>1. run.verdict = "true" /\ Content(run.p) = Content(p)
    BY <1>3, <1>9 DEF Agreed, run
  <2> QED
    BY <1>8, <1>9, <2>1
<1>10. CASE verdict = "false"
  <2>1. run.verdict = "false"
    BY <1>3, <1>10 DEF Agreed, run
  <2> QED
    BY <1>5, <1>6, <1>10, <2>1
<1>11. CASE verdict = "indeterminate"
  <2>1. \A b, k : Lead(b, k).method = <<>>
    BY DEF Lead, Fresh
  <2>2. Live(p) => Told(p).verdict = "indeterminate"
    BY DEF Told, Live
  <2>3. run.verdict # "true"
    BY <1>3, <1>11, <2>1, <2>2 DEF Agreed, Known, run
  <2> QED
    BY <1>5, <1>6, <1>11, <2>3
<1> QED
  <2>1. verdict \in {"true", "false", "indeterminate"}
    BY <1>3 DEF Agreed
  <2> QED
    BY <1>9, <1>10, <1>11, <2>1

(* Of a well-formed request, for any of its parts, any cut of the reads    *)
(* and any limits: what the handler gets is what was sent, it gets it when *)
(* the message is whole, and within the limits it always does.             *)
THEOREM WhatWasSentIsParsed == Spec => []ParsesWhatWasSent
<1>1. Init => IInv /\ Unaltered
  BY InitAgrees DEF Init, Unaltered
<1>2. IInv /\ Unaltered /\ [Next]_vars => (IInv /\ Unaltered)'
  <2> SUFFICES ASSUME IInv, Unaltered, [Next]_vars PROVE (IInv /\ Unaltered)'
    OBVIOUS
  <2>1. sent' = sent /\ intact' = intact /\ stream' = stream
    BY DEF Next, HandleRead, vars
  <2>2. Unaltered'
    BY <2>1 DEF Unaltered, Serialized, HeadOf, BodyOf
  <2> QED
    BY <2>2, NextAgrees
<1>3. IInv /\ Unaltered => ParsesWhatWasSent
  BY SentMeans
<1> QED
  BY <1>1, <1>2, <1>3, PTL DEF Spec

=============================================================================
