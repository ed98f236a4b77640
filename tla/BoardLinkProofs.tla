--------------------------- MODULE BoardLinkProofs ---------------------------
(***************************************************************************)
(* What TLAPS proves of the board campaign over the serial link, for every *)
(* number of shots and every width of the sequence number: the types, and  *)
(* the three safety properties the runs check.                             *)
(***************************************************************************)
EXTENDS BoardLink, Induction, SequenceTheorems

Requests == [seq : 1..MaxSeq, shot : 1..Shots]
Replies == [seq : 1..MaxSeq, shot : 1..Shots, error : BOOLEAN,
            form : {"whole", "damaged", "cut"}]

-----------------------------------------------------------------------------
(* The parser.                                                             *)

Parsers == [fragment : BOOLEAN, errors : Nat, frames : Seq(Replies)]

\* f is the parser after each prefix of the chunk, from p on.
IsParse(f, p, chunk) ==
  f[0] = p /\ \A i \in 1..Len(chunk) : f[i] = FeedOne(f[i - 1], chunk[i])

ParserNow == [fragment |-> fragment, errors |-> parserErrors, frames |-> <<>>]

\* One message more leaves a parser, with the message behind its frames or the same frames.
LEMMA FeedOneFacts ==
  \A p \in Parsers : \A m \in Replies :
    /\ FeedOne(p, m) \in Parsers
    /\ FeedOne(p, m).frames \in {p.frames, Append(p.frames, m)}
    /\ FeedOne(p, m).errors >= p.errors
    /\ ~p.fragment /\ m.form = "whole" =>
         FeedOne(p, m) = [p EXCEPT !.frames = Append(@, m)]
<1> SUFFICES ASSUME NEW p \in Parsers, NEW m \in Replies
             PROVE  /\ FeedOne(p, m) \in Parsers
                    /\ FeedOne(p, m).frames \in {p.frames, Append(p.frames, m)}
                    /\ FeedOne(p, m).errors >= p.errors
                    /\ ~p.fragment /\ m.form = "whole" =>
                         FeedOne(p, m) = [p EXCEPT !.frames = Append(@, m)]
  OBVIOUS
<1>1. Append(p.frames, m) \in Seq(Replies)
  BY DEF Parsers
<1>2. /\ p.fragment \in BOOLEAN /\ p.errors \in Nat /\ p.frames \in Seq(Replies)
      /\ p = [fragment |-> p.fragment, errors |-> p.errors, frames |-> p.frames]
  BY DEF Parsers
<1>3. FeedOne(p, m) \in
        {[fragment |-> FALSE, errors |-> p.errors + 1, frames |-> p.frames],
         [fragment |-> TRUE, errors |-> p.errors, frames |-> p.frames],
         [fragment |-> p.fragment, errors |-> p.errors + 1, frames |-> p.frames],
         [fragment |-> p.fragment, errors |-> p.errors, frames |-> Append(p.frames, m)]}
  <2>1. p \in [fragment : BOOLEAN, errors : Nat, frames : Seq(Replies)]
    BY DEF Parsers
  <2> QED
    BY <2>1 DEF FeedOne
<1>4. FeedOne(p, m) \in Parsers
  <2>1. \A a \in BOOLEAN, e \in Nat, q \in Seq(Replies) :
          [fragment |-> a, errors |-> e, frames |-> q] \in Parsers
    BY DEF Parsers
  <2>2. p.errors + 1 \in Nat /\ TRUE \in BOOLEAN /\ FALSE \in BOOLEAN
    BY <1>2
  <2> QED
    BY <1>1, <1>2, <1>3, <2>1, <2>2
<1>5. FeedOne(p, m).frames \in {p.frames, Append(p.frames, m)} /\ FeedOne(p, m).errors >= p.errors
  BY <1>2, <1>3
<1>6. ~p.fragment /\ m.form = "whole" => FeedOne(p, m) = [p EXCEPT !.frames = Append(@, m)]
  BY DEF FeedOne
<1> QED
  BY <1>4, <1>5, <1>6

\* Feed is the last parser of a parse.
LEMMA FeedByPosition ==
  ASSUME fragment \in BOOLEAN, parserErrors \in Nat, NEW s \in Seq(Replies)
  PROVE  \E f : IsParse(f, ParserNow, s) /\ f \in [0..Len(s) -> Parsers] /\ Feed(s) = f[Len(s)]
<1> DEFINE n == Len(s)
           step == [i \in 1..n |-> [p \in Parsers |-> FeedOne(p, s[i])]]
           Rec(h) == [S \in SUBSET (1..n) |->
                        IF S = {} THEN ParserNow ELSE FeedOne(h[S \ {Max(S)}], s[Max(S)])]
<1>1. n \in Nat /\ DOMAIN s = 1..n /\ \A i \in 1..n : s[i] \in Replies
  OBVIOUS
<1>2. ParserNow \in Parsers
  BY DEF ParserNow, Parsers
<1>3. IsStep(step, Parsers, n)
  BY <1>1, FeedOneFacts DEF IsStep
<1>4. PICK g : IsFold(g, Parsers, ParserNow, n, step)
  <2> HIDE DEF step, n
  <2> QED
    BY <1>1, <1>2, <1>3, FoldExists
<1>5. g = Rec(g)
  <2>1. g \in [SUBSET (1..n) -> Parsers] /\ g[{}] = ParserNow
    BY <1>4 DEF IsFold
  <2>2. ASSUME NEW S \in SUBSET (1..n), S # {}
        PROVE  g[S] = FeedOne(g[S \ {Max(S)}], s[Max(S)])
    <3>1. Max(S) \in 1..n /\ S \ {Max(S)} \in SUBSET (1..n)
      BY <1>1, <2>2, MaxOfPositions
    <3>2. g[S] = step[Max(S)][g[S \ {Max(S)}]]
      BY <1>4, <2>2 DEF IsFold
    <3> QED
      BY <3>1, <3>2, <2>1
  <2> QED
    BY <2>1, <2>2
<1> DEFINE h == CHOOSE k : k = Rec(k)
<1>6. h = Rec(h)
  BY <1>5
<1>7. Feed(s) = h[1..n]
  BY <1>1 DEF Feed, FoldLeft, MapThenFoldSet, ParserNow
<1> DEFINE f == [i \in 0..n |-> h[1..i]]
<1> HIDE DEF h
<1>8. f[0] = ParserNow
  <2>1. 1..0 = {}
    OBVIOUS
  <2> QED
    BY <2>1, <1>6, <1>1
<1>9. ASSUME NEW i \in 1..n PROVE f[i] = FeedOne(f[i - 1], s[i])
  <2>1. Max(1..i) = i /\ 1..i \in SUBSET (1..n) /\ 1..i # {} /\ (1..i) \ {i} = 1..(i - 1)
    BY <1>1, MaxOfInterval
  <2>2. h[1..i] = FeedOne(h[(1..i) \ {Max(1..i)}], s[Max(1..i)])
    BY <1>6, <2>1
  <2>3. h[1..i] = FeedOne(h[1..(i - 1)], s[i])
    BY <2>1, <2>2
  <2>4. i \in 0..n /\ i - 1 \in 0..n
    BY <1>1
  <2> QED
    BY <2>3, <2>4
<1>10. f[n] = h[1..n] /\ DOMAIN f = 0..n /\ f = [i \in DOMAIN f |-> f[i]]
  BY <1>1
<1> HIDE DEF f
<1>11. IsParse(f, ParserNow, s)
  BY <1>8, <1>9 DEF IsParse
<1> DEFINE Typed == {i \in 0..n : f[i] \in Parsers}
<1>12. 0 \in Typed
  BY <1>1, <1>2, <1>8
<1>13. ASSUME NEW i \in 1..n, (i - 1) \in Typed PROVE i \in Typed
  <2>1. f[i] = FeedOne(f[i - 1], s[i])
    BY <1>9
  <2>2. s[i] \in Replies /\ f[i - 1] \in Parsers /\ i \in 0..n
    BY <1>1, <1>13
  <2> QED
    BY <2>1, <2>2, FeedOneFacts
<1> HIDE DEF Typed
<1>14. 0..n \subseteq Typed
  <2> HIDE DEF n
  <2> QED
    BY <1>1, <1>12, <1>13, IntervalInduction
<1>15. f \in [0..n -> Parsers]
  BY <1>10, <1>14 DEF Typed
<1> QED
  BY <1>7, <1>10, <1>11, <1>15

\* Feeding invents no frame, never takes an error back, and gives the chunk itself if all of
\* it is whole and no fragment is left over.
LEMMA FeedFacts ==
  ASSUME fragment \in BOOLEAN, parserErrors \in Nat, NEW s \in Seq(Replies)
  PROVE  /\ Feed(s) \in Parsers
         /\ Feed(s).errors >= parserErrors
         /\ \A k \in DOMAIN Feed(s).frames : \E j \in DOMAIN s : Feed(s).frames[k] = s[j]
         /\ ~fragment /\ (\A i \in DOMAIN s : s[i].form = "whole") =>
              /\ ~Feed(s).fragment
              /\ DOMAIN Feed(s).frames = DOMAIN s
              /\ \A j \in DOMAIN s : Feed(s).frames[j] = s[j]
<1> DEFINE n == Len(s)
<1>1. n \in Nat /\ DOMAIN s = 1..n /\ \A i \in 1..n : s[i] \in Replies
  OBVIOUS
<1>2. PICK f : IsParse(f, ParserNow, s) /\ f \in [0..n -> Parsers] /\ Feed(s) = f[n]
  BY FeedByPosition
<1>3. f[0] = ParserNow /\ \A i \in 1..n : f[i] = FeedOne(f[i - 1], s[i])
  BY <1>2 DEF IsParse
<1>4. \A i \in 1..n : /\ f[i - 1] \in Parsers /\ f[i] \in Parsers
                      /\ f[i].frames \in {f[i - 1].frames, Append(f[i - 1].frames, s[i])}
                      /\ f[i].errors >= f[i - 1].errors
                      /\ ~f[i - 1].fragment /\ s[i].form = "whole" =>
                           /\ f[i].fragment = f[i - 1].fragment
                           /\ f[i].frames = Append(f[i - 1].frames, s[i])
  <2> SUFFICES ASSUME NEW i \in 1..n
               PROVE  /\ f[i - 1] \in Parsers /\ f[i] \in Parsers
                      /\ f[i].frames \in {f[i - 1].frames, Append(f[i - 1].frames, s[i])}
                      /\ f[i].errors >= f[i - 1].errors
                      /\ ~f[i - 1].fragment /\ s[i].form = "whole" =>
                           /\ f[i].fragment = f[i - 1].fragment
                           /\ f[i].frames = Append(f[i - 1].frames, s[i])
    OBVIOUS
  <2>1. f[i - 1] \in Parsers /\ s[i] \in Replies /\ f[i] = FeedOne(f[i - 1], s[i])
    BY <1>1, <1>2, <1>3
  <2>2. [f[i - 1] EXCEPT !.frames = Append(@, s[i])].fragment = f[i - 1].fragment
        /\ [f[i - 1] EXCEPT !.frames = Append(@, s[i])].frames = Append(f[i - 1].frames, s[i])
    BY <2>1 DEF Parsers
  <2> QED
    BY <2>1, <2>2, FeedOneFacts
<1>5. Feed(s) \in Parsers
  BY <1>1, <1>2
<1> DEFINE Grown == {i \in 0..n : f[i].errors >= parserErrors}
           Drawn == {i \in 0..n : \A k \in DOMAIN f[i].frames : \E j \in 1..n : f[i].frames[k] = s[j]}
           Whole == {i \in 0..n : ~f[i].fragment /\ Len(f[i].frames) = i
                                  /\ \A j \in 1..i : f[i].frames[j] = s[j]}
<1>6. f[0].errors = parserErrors /\ f[0].frames = <<>> /\ f[0].fragment = fragment
  BY <1>3 DEF ParserNow
<1>7. n \in Grown
  <2>1. 0 \in Grown
    BY <1>1, <1>6
  <2>2. ASSUME NEW i \in 1..n, (i - 1) \in Grown PROVE i \in Grown
    <3>1. f[i].errors \in Nat /\ f[i - 1].errors \in Nat /\ f[i].errors >= f[i - 1].errors
      BY <1>4 DEF Parsers
    <3> QED
      BY <1>1, <2>2, <3>1
  <2> HIDE DEF Grown
  <2>3. 0..n \subseteq Grown
    <3> HIDE DEF n
    <3> QED
      BY <1>1, <2>1, <2>2, IntervalInduction
  <2> QED
    BY <1>1, <2>3
<1>8. n \in Drawn
  <2>1. 0 \in Drawn
    BY <1>1, <1>6
  <2>2. ASSUME NEW i \in 1..n, (i - 1) \in Drawn PROVE i \in Drawn
    <3> DEFINE q == f[i - 1].frames
    <3>1. q \in Seq(Replies) /\ f[i].frames \in {q, Append(q, s[i])}
      BY <1>4 DEF Parsers
    <3>2. \A k \in DOMAIN q : \E j \in 1..n : q[k] = s[j]
      BY <2>2
    <3>3. /\ DOMAIN Append(q, s[i]) = 1..(Len(q) + 1) /\ DOMAIN q = 1..Len(q) /\ Len(q) \in Nat
          /\ \A k \in 1..Len(q) : Append(q, s[i])[k] = q[k]
          /\ Append(q, s[i])[Len(q) + 1] = s[i]
      BY <1>1, <3>1
    <3> HIDE DEF q
    <3>4. \A k \in DOMAIN f[i].frames : \E j \in 1..n : f[i].frames[k] = s[j]
      <4>1. CASE f[i].frames = q
        BY <3>2, <4>1
      <4>2. CASE f[i].frames = Append(q, s[i])
        BY <3>2, <3>3, <4>2
      <4> QED
        BY <3>1, <4>1, <4>2
    <3> QED
      BY <3>4
  <2> HIDE DEF Drawn
  <2>3. 0..n \subseteq Drawn
    <3> HIDE DEF n
    <3> QED
      BY <1>1, <2>1, <2>2, IntervalInduction
  <2> QED
    BY <1>1, <2>3
<1>9. ASSUME ~fragment, \A i \in DOMAIN s : s[i].form = "whole" PROVE n \in Whole
  <2>1. 0 \in Whole
    BY <1>1, <1>6, <1>9
  <2>2. ASSUME NEW i \in 1..n, (i - 1) \in Whole PROVE i \in Whole
    <3> DEFINE q == f[i - 1].frames
    <3>1. /\ q \in Seq(Replies) /\ f[i].frames = Append(q, s[i]) /\ ~f[i].fragment /\ Len(q) = i - 1
          /\ \A j \in 1..(i - 1) : q[j] = s[j]
      BY <1>1, <1>4, <1>9, <2>2 DEF Parsers
    <3>2. /\ Len(Append(q, s[i])) = i
          /\ \A k \in 1..(i - 1) : Append(q, s[i])[k] = q[k]
          /\ Append(q, s[i])[i] = s[i]
      BY <1>1, <3>1
    <3> HIDE DEF q
    <3>3. \A j \in 1..i : f[i].frames[j] = s[j]
      BY <1>1, <3>1, <3>2
    <3> QED
      BY <1>1, <3>1, <3>2, <3>3
  <2> HIDE DEF Whole
  <2>3. 0..n \subseteq Whole
    <3> HIDE DEF n
    <3> QED
      BY <1>1, <2>1, <2>2, IntervalInduction
  <2> QED
    BY <1>1, <2>3
<1>10. Feed(s).frames \in Seq(Replies)
  BY <1>5 DEF Parsers
<1>11. Feed(s).errors >= parserErrors
  BY <1>2, <1>7
<1>12. \A k \in DOMAIN Feed(s).frames : \E j \in DOMAIN s : Feed(s).frames[k] = s[j]
  BY <1>1, <1>2, <1>8
<1>13. ASSUME ~fragment, \A i \in DOMAIN s : s[i].form = "whole"
       PROVE  /\ ~Feed(s).fragment
              /\ DOMAIN Feed(s).frames = DOMAIN s
              /\ \A j \in DOMAIN s : Feed(s).frames[j] = s[j]
  <2>1. n \in Whole
    BY <1>9, <1>13
  <2>2. /\ ~Feed(s).fragment /\ Len(Feed(s).frames) = n
        /\ \A j \in 1..n : Feed(s).frames[j] = s[j]
    BY <1>2, <2>1
  <2>3. DOMAIN Feed(s).frames = 1..n
    BY <1>10, <2>2
  <2> QED
    BY <1>1, <2>2, <2>3
<1> QED
  BY <1>5, <1>11, <1>12, <1>13

-----------------------------------------------------------------------------
(* Types.                                                                  *)

Running == phase \in {"write", "wait", "failed"}

\* The types of the variables, and the place in the campaign.
LinkTypeOK ==
  /\ phase \in {"write", "wait", "failed", "done", "aborted"}
  /\ results \in Seq(0..Shots) /\ Len(results) <= Shots
  /\ Running => Len(results) < Shots
  /\ phase = "done" => Len(results) = Shots
  /\ transportErrors \in Nat /\ decoderErrors \in Nat /\ basisMismatches \in Nat
  /\ sequence \in 1..MaxSeq /\ trySeq \in 1..MaxSeq /\ attempt \in {0, 1}
  /\ portOpen \in BOOLEAN /\ parserErrors \in Nat /\ fragment \in BOOLEAN
  /\ line \in Seq(Replies) /\ queue \in Seq(Requests) /\ Len(queue) <= 2
  /\ midFrame \in BOOLEAN /\ ownBasis \in BOOLEAN
  /\ faults \in 0..2 /\ desynced \in BOOLEAN /\ crcSeen \in BOOLEAN

\* The successor of a sequence number is another one.
LEMMA NextSeqFacts ==
  \A s \in 1..MaxSeq : NextSeq(s) \in 1..MaxSeq /\ NextSeq(s) # s
BY LinkAssumption DEF NextSeq

\* A fault is counted, up to two.
LEMMA FaultFacts ==
  ASSUME faults \in 0..2
  PROVE  /\ Fault => faults' \in 0..2 /\ faults' > 0 /\ faults' >= faults
                     /\ (faults >= 1 => faults' = 2)
         /\ NoFault => faults' = faults
BY DEF Fault, NoFault

\* What becomes of the campaign when a shot ends.
LEMMA NextShotFacts ==
  ASSUME LinkTypeOK, Running, NEW answer \in 0..Shots, NEW q \in 1..MaxSeq, NextShot(answer, q)
  PROVE  /\ results' \in Seq(0..Shots) /\ Len(results') = Shot /\ Len(results') <= Shots
         /\ results'[Shot] = answer
         /\ \A i \in 1..Len(results) : results'[i] = results[i]
         /\ DOMAIN results = 1..Len(results) /\ DOMAIN results' = 1..Shot
         /\ Shot = Len(results) + 1 /\ Len(results) \in Nat
         /\ phase' \in {"write", "done"}
         /\ phase' = "done" <=> Len(results') = Shots
         /\ sequence' = q /\ trySeq' = q /\ attempt' = 0
<1>1. results \in Seq(0..Shots) /\ Len(results) < Shots
  BY DEF LinkTypeOK
<1>2. results' = Append(results, answer)
  BY DEF NextShot
<1>3. /\ results' \in Seq(0..Shots) /\ Len(results') = Len(results) + 1
      /\ results'[Len(results) + 1] = answer
      /\ \A i \in 1..Len(results) : results'[i] = results[i]
      /\ DOMAIN results = 1..Len(results) /\ DOMAIN results' = 1..(Len(results) + 1)
      /\ Len(results) \in Nat
  BY <1>1, <1>2
<1> QED
  BY <1>1, <1>3, LinkAssumption DEF NextShot, Shot

\* What Read does: it takes messages off the line, and a frame that it returns is one of
\* them, whole, with the number of the attempt.
LEMMA ReadFacts ==
  ASSUME LinkTypeOK, Read
  PROVE  \E n \in 1..Len(line) :
           /\ line' = SubSeq(line, n + 1, Len(line))
           /\ Len(line) \in Nat /\ line' \in Seq(Replies) /\ Len(line') = Len(line) - n
           /\ DOMAIN line = 1..Len(line) /\ DOMAIN line' = 1..(Len(line) - n)
           /\ \A i \in 1..(Len(line) - n) : line'[i] = line[n + i]
           /\ parserErrors' \in Nat /\ parserErrors' >= parserErrors /\ fragment' \in BOOLEAN
           /\ crcSeen' \in BOOLEAN
           /\ ~fragment /\ (\A i \in DOMAIN line : line[i].form = "whole") => ~fragment'
           /\ \/ /\ UNCHANGED <<campaign, sequence, trySeq, attempt>>
                 /\ ~fragment /\ (\A i \in DOMAIN line : line[i].form = "whole") =>
                      \A j \in 1..n : line[j].seq # trySeq
              \/ \E j \in 1..n : line[j].seq = trySeq /\ Return(line[j])
           /\ phase = "wait"
           /\ UNCHANGED <<portOpen, queue, midFrame, ownBasis, faults, desynced>>
<1>1. PICK n \in 1..Len(line) :
       LET fed == Feed(SubSeq(line, 1, n))
           mine == Mine(fed.frames) IN
       /\ line' = SubSeq(line, n + 1, Len(line))
       /\ parserErrors' = fed.errors
       /\ fragment' = fed.fragment
       /\ crcSeen' = (crcSeen \/ fed.errors > parserErrors)
       /\ IF mine = {}
            THEN UNCHANGED <<campaign, sequence, trySeq, attempt>>
            ELSE Return(fed.frames[Min(mine)])
  BY DEF Read
<1> DEFINE chunk == SubSeq(line, 1, n)
           fed == Feed(chunk)
           mine == Mine(fed.frames)
<1>2. line \in Seq(Replies) /\ Len(line) \in Nat /\ DOMAIN line = 1..Len(line)
  BY DEF LinkTypeOK
<1>3. /\ line' \in Seq(Replies) /\ Len(line') = Len(line) - n
      /\ DOMAIN line' = 1..(Len(line) - n)
      /\ \A i \in 1..(Len(line) - n) : line'[i] = line[n + i]
  <2>1. \A i \in (n + 1)..Len(line) : line[i] \in Replies
    BY <1>2
  <2>2. line' = SubSeq(line, n + 1, Len(line))
    BY <1>1
  <2>3. /\ line' \in Seq(Replies)
        /\ Len(line') = IF n + 1 <= Len(line) THEN Len(line) - (n + 1) + 1 ELSE 0
        /\ \A i \in 1..(Len(line) - (n + 1) + 1) : line'[i] = line[(n + 1) + i - 1]
    BY <1>2, <2>1, <2>2, SubSeqProperties
  <2> DEFINE m == Len(line)
  <2>4. m \in Nat /\ n \in Nat /\ n <= m /\ n + 1 \in Int
    BY <1>2
  <2>5. m - (n + 1) + 1 = m - n /\ (n + 1 <= m \/ m - n = 0)
    BY <2>4
  <2>6. Len(line') = m - n
    BY <2>3, <2>5
  <2>7. \A i \in 1..(m - n) : line'[i] = line[n + i]
    <3> TAKE i \in 1..(m - n)
    <3>1. (n + 1) + i - 1 = n + i
      BY <2>4
    <3>2. line'[i] = line[(n + 1) + i - 1]
      BY <2>3, <2>5
    <3> QED
      BY <3>1, <3>2
  <2> QED
    BY <2>3, <2>6, <2>7
<1>4. /\ chunk \in Seq(Replies) /\ DOMAIN chunk = 1..n /\ n \in Nat
      /\ \A i \in 1..n : chunk[i] = line[i]
  <2>1. \A i \in 1..n : line[i] \in Replies
    BY <1>2
  <2>2. chunk \in Seq(Replies) /\ Len(chunk) = (IF 1 <= n THEN n - 1 + 1 ELSE 0)
        /\ \A i \in 1..(n - 1 + 1) : chunk[i] = line[1 + i - 1]
    BY <1>2, <2>1, SubSeqProperties
  <2>3. Len(chunk) = n /\ n \in Nat
    BY <2>2
  <2>4. \A i \in 1..n : chunk[i] = line[i]
    BY <1>2, <2>2
  <2> HIDE DEF chunk
  <2> QED
    BY <2>2, <2>3, <2>4
<1> HIDE DEF chunk
<1>5. fragment \in BOOLEAN /\ parserErrors \in Nat /\ crcSeen \in BOOLEAN
  BY DEF LinkTypeOK
<1>6. /\ fed \in Parsers
      /\ fed.errors >= parserErrors
      /\ \A k \in DOMAIN fed.frames : \E j \in DOMAIN chunk : fed.frames[k] = chunk[j]
      /\ ~fragment /\ (\A i \in DOMAIN chunk : chunk[i].form = "whole") =>
              /\ ~fed.fragment
              /\ DOMAIN fed.frames = DOMAIN chunk
              /\ \A j \in DOMAIN chunk : fed.frames[j] = chunk[j]
  BY <1>4, <1>5, FeedFacts
<1>7. /\ parserErrors' = fed.errors /\ fragment' = fed.fragment
      /\ crcSeen' = (crcSeen \/ fed.errors > parserErrors)
      /\ \/ mine = {} /\ UNCHANGED <<campaign, sequence, trySeq, attempt>>
         \/ mine # {} /\ Return(fed.frames[Min(mine)])
  BY <1>1 DEF chunk
<1> HIDE DEF fed
<1>8. (\A i \in DOMAIN line : line[i].form = "whole") =>
        \A i \in DOMAIN chunk : chunk[i].form = "whole"
  BY <1>2, <1>4
<1>9. ASSUME mine # {} PROVE \E j \in 1..n : line[j].seq = trySeq /\ Return(line[j])
  <2>1. DOMAIN fed.frames = 1..Len(fed.frames) /\ Len(fed.frames) \in Nat
    BY <1>6 DEF Parsers
  <2>2. mine \in SUBSET (1..Len(fed.frames))
    BY <2>1 DEF Mine
  <2>3. Min(mine) \in mine
    <3> HIDE DEF mine
    <3> QED
      BY <1>9, <2>1, <2>2, MinOfPositions
  <2>4. Min(mine) \in DOMAIN fed.frames /\ fed.frames[Min(mine)].seq = trySeq
    BY <2>3 DEF Mine
  <2>5. PICK j \in DOMAIN chunk : fed.frames[Min(mine)] = chunk[j]
    BY <1>6, <2>4
  <2> QED
    BY <1>4, <1>7, <1>9, <2>4, <2>5
<1>10. ASSUME mine = {}, ~fragment, \A i \in DOMAIN line : line[i].form = "whole"
       PROVE  \A j \in 1..n : line[j].seq # trySeq
  <2>1. DOMAIN fed.frames = 1..n /\ \A j \in 1..n : fed.frames[j] = line[j]
    BY <1>4, <1>6, <1>8, <1>10
  <2> QED
    BY <1>10, <2>1 DEF Mine
<1> HIDE DEF mine
<1>11. parserErrors' \in Nat /\ parserErrors' >= parserErrors /\ fragment' \in BOOLEAN
       /\ crcSeen' \in BOOLEAN
  BY <1>5, <1>6, <1>7 DEF Parsers
<1>12. ~fragment /\ (\A i \in DOMAIN line : line[i].form = "whole") => ~fragment'
  BY <1>6, <1>7, <1>8
<1>13. phase = "wait" /\ UNCHANGED <<portOpen, queue, midFrame, ownBasis, faults, desynced>>
  BY DEF Read
<1>14. line' = SubSeq(line, n + 1, Len(line))
  BY <1>1
<1> QED
  BY <1>2, <1>3, <1>7, <1>9, <1>10, <1>11, <1>12, <1>13, <1>14

\* A shot that gives up leaves the types; so does one that returns.
LEMMA FailShotTyped ==
  ASSUME LinkTypeOK, Running, FailShot
  PROVE  /\ results' \in Seq(0..Shots) /\ Len(results') <= Shots
         /\ phase' \in {"write", "done"} /\ (phase' = "write" => Len(results') < Shots)
         /\ (phase' = "done" => Len(results') = Shots)
         /\ transportErrors' \in Nat /\ decoderErrors' \in Nat /\ basisMismatches' \in Nat
         /\ sequence' \in 1..MaxSeq /\ trySeq' \in 1..MaxSeq /\ attempt' \in {0, 1}
<1>1. 0 \in 0..Shots /\ sequence \in 1..MaxSeq /\ NextShot(0, sequence)
  BY LinkAssumption DEF FailShot, LinkTypeOK
<1>2. /\ results' \in Seq(0..Shots) /\ Len(results') <= Shots /\ Len(results') \in Nat
      /\ phase' \in {"write", "done"}
      /\ phase' = "done" <=> Len(results') = Shots
      /\ sequence' = sequence /\ trySeq' = sequence /\ attempt' = 0
  <2>1. Len(results) \in Nat
    BY DEF LinkTypeOK
  <2> QED
    BY <1>1, <2>1, NextShotFacts
<1> QED
  BY <1>1, <1>2, LinkAssumption DEF FailShot, LinkTypeOK

\* The types of a returned shot.
LEMMA ReturnTyped ==
  ASSUME LinkTypeOK, Running, NEW r \in Replies, Return(r)
  PROVE  /\ results' \in Seq(0..Shots) /\ Len(results') <= Shots
         /\ phase' \in {"write", "done", "aborted"} /\ (phase' = "write" => Len(results') < Shots)
         /\ (phase' = "done" => Len(results') = Shots)
         /\ transportErrors' \in Nat /\ decoderErrors' \in Nat /\ basisMismatches' \in Nat
         /\ sequence' \in 1..MaxSeq /\ trySeq' \in 1..MaxSeq /\ attempt' \in {0, 1}
<1>1. r.shot \in 0..Shots /\ NextSeq(trySeq) \in 1..MaxSeq
  BY NextSeqFacts DEF Replies, LinkTypeOK
<1>2. CASE ownBasis
  <2>1. NextShot(r.shot, NextSeq(trySeq))
    BY <1>2 DEF Return
  <2>2. /\ results' \in Seq(0..Shots) /\ Len(results') <= Shots /\ Len(results') \in Nat
        /\ phase' \in {"write", "done"}
        /\ phase' = "done" <=> Len(results') = Shots
        /\ sequence' = NextSeq(trySeq) /\ trySeq' = NextSeq(trySeq) /\ attempt' = 0
    <3>1. Len(results) \in Nat
      BY DEF LinkTypeOK
    <3> QED
      BY <1>1, <2>1, <3>1, NextShotFacts
  <2>3. /\ decoderErrors' = decoderErrors + (IF r.error THEN 1 ELSE 0)
        /\ UNCHANGED <<transportErrors, basisMismatches>>
    BY <1>2 DEF Return
  <2> QED
    BY <1>1, <2>2, <2>3, LinkAssumption DEF LinkTypeOK
<1>3. CASE ~ownBasis
  BY <1>1, <1>3 DEF Return, LinkTypeOK
<1> QED
  BY <1>2, <1>3

\* What arrives of a request.
LEMMA ArriveFacts ==
  ASSUME LinkTypeOK, Running
  PROVE  /\ Arrive =>
              /\ queue' = IF Deaf \/ midFrame THEN queue
                          ELSE Append(queue, [seq |-> trySeq, shot |-> Shot])
              /\ queue' \in Seq(Requests) /\ Len(queue') <= 2 /\ midFrame' \in BOOLEAN
              /\ Len(queue) \in Nat /\ Len(queue') <= Len(queue) + 1
              /\ (midFrame' => midFrame) /\ faults' = faults
         /\ ArriveDamaged => queue' = queue /\ midFrame' \in BOOLEAN /\ Fault
<1>1. queue \in Seq(Requests) /\ Len(queue) <= 2 /\ midFrame \in BOOLEAN
  BY DEF LinkTypeOK
<1>2. [seq |-> trySeq, shot |-> Shot] \in Requests
  <2>1. Len(results) \in Nat /\ Len(results) < Shots
    BY DEF LinkTypeOK
  <2>2. Shot \in 1..Shots
    BY <2>1, LinkAssumption DEF Shot
  <2> QED
    BY <2>2 DEF Requests, LinkTypeOK
<1>3. ASSUME Arrive
      PROVE  /\ queue' = IF Deaf \/ midFrame THEN queue
                         ELSE Append(queue, [seq |-> trySeq, shot |-> Shot])
             /\ queue' \in Seq(Requests) /\ Len(queue') <= 2 /\ midFrame' \in BOOLEAN
             /\ Len(queue) \in Nat /\ Len(queue') <= Len(queue) + 1
             /\ (midFrame' => midFrame) /\ faults' = faults
  <2>1. queue' = IF Deaf \/ midFrame THEN queue
                 ELSE Append(queue, [seq |-> trySeq, shot |-> Shot])
    BY <1>3 DEF Arrive
  <2>2. /\ queue' \in Seq(Requests) /\ Len(queue') <= 2
        /\ Len(queue) \in Nat /\ Len(queue') <= Len(queue) + 1
    <3>1. CASE Deaf \/ midFrame
      BY <1>1, <2>1, <3>1
    <3>2. CASE ~(Deaf \/ midFrame)
      <4>1. Len(Append(queue, [seq |-> trySeq, shot |-> Shot])) = Len(queue) + 1
            /\ Append(queue, [seq |-> trySeq, shot |-> Shot]) \in Seq(Requests)
        BY <1>1, <1>2
      <4>2. Len(queue) \in Nat /\ Len(queue) <= 1
        <5>1. Len(queue) \in Nat /\ Len(queue) <= 2 /\ Len(queue) # 2
          BY <1>1, <3>2 DEF Deaf
        <5>2. \A k \in Nat : k <= 2 /\ k # 2 => k <= 1
          OBVIOUS
        <5> QED
          BY <5>1, <5>2
      <4>3. queue' = Append(queue, [seq |-> trySeq, shot |-> Shot])
        BY <2>1, <3>2
      <4>4. queue' \in Seq(Requests) /\ Len(queue') = Len(queue) + 1
        BY <4>1, <4>3
      <4> QED
        BY <4>2, <4>4
    <3> QED
      BY <3>1, <3>2
  <2> QED
    BY <1>1, <1>3, <2>1, <2>2 DEF Arrive, NoFault
<1>4. ASSUME ArriveDamaged PROVE queue' = queue /\ midFrame' \in BOOLEAN /\ Fault
  BY <1>1, <1>4 DEF ArriveDamaged
<1> QED
  BY <1>3, <1>4

\* An answer takes the oldest request off the queue, and puts at most a reply on the line;
\* without a fault, on an open port, it does so, and the reply is whole.
LEMMA AnswerFacts ==
  ASSUME LinkTypeOK, Answer
  PROVE  /\ Running /\ queue # <<>> /\ queue' = Tail(queue)
         /\ queue' \in Seq(Requests) /\ Len(queue) \in Nat /\ Len(queue') = Len(queue) - 1
         /\ Len(queue) >= 1
         /\ DOMAIN queue = 1..Len(queue) /\ DOMAIN queue' = 1..(Len(queue) - 1)
         /\ \A i \in 1..(Len(queue) - 1) : queue'[i] = queue[i + 1]
         /\ DOMAIN line = 1..Len(line) /\ Len(line) \in Nat
         /\ UNCHANGED <<campaign, board, midFrame, ownBasis, desynced, crcSeen>>
         /\ faults' \in 0..2 /\ faults' >= faults
         /\ line' \in Seq(Replies)
         /\ \/ line' = line /\ (~portOpen \/ Fault)
            \/ /\ DOMAIN line' = 1..(Len(line) + 1) /\ Len(line') = Len(line) + 1
               /\ \A i \in 1..Len(line) : line'[i] = line[i]
               /\ line'[Len(line) + 1].seq = queue[1].seq
               /\ line'[Len(line) + 1].shot = queue[1].shot
               /\ \/ faults' = faults /\ line'[Len(line) + 1].form = "whole"
                  \/ Fault
<1>1. queue \in Seq(Requests) /\ line \in Seq(Replies) /\ faults \in 0..2 /\ queue # <<>>
  BY DEF LinkTypeOK, Answer
<1>2. /\ queue' = Tail(queue) /\ Running
      /\ UNCHANGED <<campaign, board, midFrame, ownBasis, desynced, crcSeen>>
  BY DEF Answer, Running
<1>3. /\ queue' \in Seq(Requests) /\ Len(queue) \in Nat /\ Len(queue') = Len(queue) - 1
      /\ Len(queue) >= 1
      /\ DOMAIN queue = 1..Len(queue) /\ DOMAIN queue' = 1..(Len(queue) - 1)
      /\ \A i \in 1..(Len(queue) - 1) : queue'[i] = queue[i + 1]
  BY <1>1, <1>2
<1>4. Head(queue) = queue[1] /\ queue[1] \in Requests
  BY <1>1, <1>3
<1>5. \A error \in BOOLEAN, form \in {"whole", "damaged", "cut"} :
        LET m == ReplyTo(Head(queue), error, form) IN
        m \in Replies /\ m.seq = queue[1].seq /\ m.shot = queue[1].shot /\ m.form = form
  BY <1>4 DEF ReplyTo, Replies, Requests
<1>6. \A m \in Replies : line' = Append(line, m) =>
        /\ line' \in Seq(Replies) /\ DOMAIN line' = 1..(Len(line) + 1) /\ Len(line') = Len(line) + 1
        /\ \A i \in 1..Len(line) : line'[i] = line[i]
        /\ line'[Len(line) + 1] = m
  BY <1>1
<1>7. PICK error \in BOOLEAN :
       \/ portOpen /\ NoFault /\ line' = Append(line, ReplyTo(Head(queue), error, "whole"))
       \/ /\ portOpen /\ Fault
          /\ \E form \in {"damaged", "cut"} :
               line' = Append(line, ReplyTo(Head(queue), error, form))
       \/ Fault /\ UNCHANGED line
       \/ ~portOpen /\ NoFault /\ UNCHANGED line
  BY DEF Answer
<1>8. faults' \in 0..2 /\ faults' >= faults
  BY <1>1, <1>7, FaultFacts
<1>9. /\ line' \in Seq(Replies)
      /\ \/ line' = line /\ (~portOpen \/ Fault)
         \/ /\ DOMAIN line' = 1..(Len(line) + 1) /\ Len(line') = Len(line) + 1
            /\ \A i \in 1..Len(line) : line'[i] = line[i]
            /\ line'[Len(line) + 1].seq = queue[1].seq
            /\ line'[Len(line) + 1].shot = queue[1].shot
            /\ \/ faults' = faults /\ line'[Len(line) + 1].form = "whole"
               \/ Fault
  <2>1. CASE NoFault /\ line' = Append(line, ReplyTo(Head(queue), error, "whole"))
    <3> DEFINE m == ReplyTo(Head(queue), error, "whole")
    <3>1. m \in Replies /\ m.seq = queue[1].seq /\ m.shot = queue[1].shot /\ m.form = "whole"
      BY <1>5
    <3> HIDE DEF m
    <3>2. line' = Append(line, m)
      BY <2>1 DEF m
    <3> QED
      BY <2>1, <3>1, <3>2, <1>6 DEF NoFault
  <2>2. CASE Fault /\ \E form \in {"damaged", "cut"} :
                        line' = Append(line, ReplyTo(Head(queue), error, form))
    <3>1. PICK form \in {"damaged", "cut"} : line' = Append(line, ReplyTo(Head(queue), error, form))
      BY <2>2
    <3> DEFINE m == ReplyTo(Head(queue), error, form)
    <3>2. m \in Replies /\ m.seq = queue[1].seq /\ m.shot = queue[1].shot
      BY <1>5
    <3> HIDE DEF m
    <3>3. line' = Append(line, m)
      BY <3>1 DEF m
    <3> QED
      BY <2>2, <3>2, <3>3, <1>6
  <2>3. CASE line' = line /\ (Fault \/ ~portOpen)
    BY <1>1, <2>3
  <2> QED
    BY <1>7, <2>1, <2>2, <2>3
<1> QED
  BY <1>1, <1>2, <1>3, <1>8, <1>9

\* Every step keeps the types.
LEMMA LinkTypeStep ==
  ASSUME LinkTypeOK, [Next]_vars
  PROVE  LinkTypeOK'
<1>1. CASE UNCHANGED vars
  BY <1>1 DEF vars, campaign, board, link, history, LinkTypeOK, Running
<1>2. CASE Write
  <2>1. Running
    BY <1>2 DEF Write, Running
  <2>2. queue' \in Seq(Requests) /\ Len(queue') <= 2 /\ midFrame' \in BOOLEAN /\ faults' \in 0..2
    BY <1>2, <2>1, ArriveFacts, FaultFacts DEF Write, LinkTypeOK
  <2>3. phase' = "wait" /\ desynced' \in BOOLEAN
    BY <1>2, <2>2 DEF Write, LinkTypeOK
  <2> QED
    BY <1>2, <2>1, <2>2, <2>3 DEF Write, LinkTypeOK, Running, board
<1>3. CASE WriteFails
  <2>1. Running
    BY <1>3 DEF WriteFails, Running
  <2>2. queue' = queue /\ midFrame' \in BOOLEAN /\ faults' \in 0..2
    BY <1>3, <2>1, ArriveFacts, FaultFacts DEF WriteFails, LinkTypeOK
  <2>3. phase' = "failed" /\ desynced' \in BOOLEAN
    BY <1>3, <2>2 DEF WriteFails, LinkTypeOK
  <2> QED
    BY <1>3, <2>1, <2>2, <2>3 DEF WriteFails, LinkTypeOK, Running, board
<1>4. CASE WaitFails
  <2>1. faults' \in 0..2
    BY <1>4, FaultFacts DEF WaitFails, LinkTypeOK
  <2> QED
    BY <1>4, <2>1 DEF WaitFails, LinkTypeOK, Running, board, link
<1>5. CASE Reconnect
  <2>1. NextSeq(trySeq) \in 1..MaxSeq
    BY NextSeqFacts DEF LinkTypeOK
  <2>2. line' \in Seq(Replies)
    BY <1>5 DEF Reconnect
  <2> QED
    BY <1>5, <2>1, <2>2 DEF Reconnect, LinkTypeOK, Running, history
<1>6. CASE ReconnectFails
  <2>1. Running /\ FailShot
    BY <1>6 DEF ReconnectFails, Running
  <2>2. faults' \in 0..2
    BY <1>6, FaultFacts DEF ReconnectFails, LinkTypeOK
  <2>3. line' \in Seq(Replies)
    BY <1>6 DEF ReconnectFails
  <2> QED
    BY <1>6, <2>1, <2>2, <2>3, FailShotTyped DEF ReconnectFails, LinkTypeOK, Running
<1>7. CASE GiveUp
  <2>1. Running /\ FailShot
    BY <1>7 DEF GiveUp, Running
  <2> QED
    BY <1>7, <2>1, FailShotTyped DEF GiveUp, LinkTypeOK, Running, link, history
<1>8. CASE Read
  <2>1. PICK n \in 1..Len(line) :
          /\ line' \in Seq(Replies) /\ parserErrors' \in Nat /\ fragment' \in BOOLEAN
          /\ crcSeen' \in BOOLEAN /\ DOMAIN line = 1..Len(line)
          /\ \/ UNCHANGED <<campaign, sequence, trySeq, attempt>>
             \/ \E j \in 1..n : line[j].seq = trySeq /\ Return(line[j])
          /\ phase = "wait"
          /\ UNCHANGED <<portOpen, queue, midFrame, ownBasis, faults, desynced>>
    BY <1>8, ReadFacts
  <2>2. CASE UNCHANGED <<campaign, sequence, trySeq, attempt>>
    BY <2>1, <2>2 DEF LinkTypeOK, Running, campaign
  <2>3. CASE \E j \in 1..n : line[j].seq = trySeq /\ Return(line[j])
    <3>1. PICK j \in 1..n : Return(line[j])
      BY <2>3
    <3>2. line[j] \in Replies
      BY <2>1 DEF LinkTypeOK
    <3>3. Running
      BY <2>1 DEF Running
    <3> QED
      BY <2>1, <3>1, <3>2, <3>3, ReturnTyped DEF LinkTypeOK, Running
  <2> QED
    BY <2>1, <2>2, <2>3
<1>9. CASE Answer
  <2>1. /\ queue' \in Seq(Requests) /\ Len(queue') <= 2 /\ line' \in Seq(Replies) /\ faults' \in 0..2
        /\ UNCHANGED <<campaign, board, midFrame, ownBasis, desynced, crcSeen>>
    <3>1. Len(queue) <= 2 /\ Len(queue) \in Nat /\ Len(queue') = Len(queue) - 1
      BY <1>9, AnswerFacts DEF LinkTypeOK
    <3> QED
      BY <1>9, <3>1, AnswerFacts
  <2> QED
    BY <2>1 DEF LinkTypeOK, Running, campaign, board
<1> QED
  BY <1>1, <1>2, <1>3, <1>4, <1>5, <1>6, <1>7, <1>8, <1>9 DEF Next, Host

-----------------------------------------------------------------------------
(* Which shots the messages on their way belong to.                        *)

\* No shot has been lost yet.
Clean == \A j \in DOMAIN results : results[j] # 0

\* Until then every message of the link belongs to the shot under way, and the one with the
\* number of the attempt is the last of them: what was asked before it has been answered or
\* lost.  So there is room for the request of the next attempt.
OwnMessages ==
  (Clean /\ Running) =>
    /\ portOpen
    /\ trySeq = IF attempt = 0 THEN sequence ELSE NextSeq(sequence)
    /\ \A i \in DOMAIN queue :
         /\ queue[i].shot = Shot /\ queue[i].seq \in {sequence, trySeq}
         /\ queue[i].seq = trySeq => i = Len(queue) /\ phase # "write"
    /\ \A i \in DOMAIN line :
         /\ line[i].shot = Shot /\ line[i].seq \in {sequence, trySeq}
         /\ line[i].seq = trySeq => i = Len(line) /\ queue = <<>> /\ phase # "write"
    /\ Len(queue) <= attempt + (IF phase = "write" THEN 0 ELSE 1)

\* A reply that is returned while no shot is lost is the last message, and of its shot.
LEMMA OwnReturn ==
  ASSUME LinkTypeOK, OwnMessages, Clean, Running, NEW n \in 1..Len(line), NEW j \in 1..n,
         line[j].seq = trySeq
  PROVE  line[j].shot = Shot /\ n = Len(line) /\ queue = <<>>
<1>1. DOMAIN line = 1..Len(line) /\ Len(line) \in Nat
  BY DEF LinkTypeOK
<1>2. j \in DOMAIN line /\ j <= n /\ n <= Len(line)
  BY <1>1
<1>3. line[j].shot = Shot /\ j = Len(line) /\ queue = <<>>
  BY <1>2 DEF OwnMessages
<1>4. n = Len(line)
  <2>1. \A a, b \in Nat : a <= b /\ b <= a => a = b
    OBVIOUS
  <2>2. n \in Nat /\ n <= Len(line) /\ Len(line) <= n
    BY <1>1, <1>2, <1>3
  <2> QED
    BY <1>1, <2>1, <2>2
<1> QED
  BY <1>3, <1>4

\* A lost shot ends the clean part of the campaign; a returned one of that part leaves an
\* empty link.
LEMMA FailShotUnclean ==
  ASSUME LinkTypeOK, Running, FailShot
  PROVE  ~Clean'
<1>1. 0 \in 0..Shots /\ sequence \in 1..MaxSeq /\ NextShot(0, sequence)
  BY LinkAssumption DEF FailShot, LinkTypeOK
<1>2. results'[Shot] = 0 /\ DOMAIN results' = 1..Shot /\ Shot = Len(results) + 1 /\ Len(results) \in Nat
  BY <1>1, NextShotFacts
<1>3. Shot \in DOMAIN results'
  BY <1>2
<1> QED
  BY <1>2, <1>3 DEF Clean

\* Every step keeps the messages of the clean part in order.
LEMMA OwnMessagesStep ==
  ASSUME LinkTypeOK, OwnMessages, [Next]_vars
  PROVE  OwnMessages'
<1> USE DEF Running
<1> SUFFICES ASSUME Clean', Running'
             PROVE  (/\ portOpen
                     /\ trySeq = IF attempt = 0 THEN sequence ELSE NextSeq(sequence)
                     /\ \A i \in DOMAIN queue :
                          /\ queue[i].shot = Shot /\ queue[i].seq \in {sequence, trySeq}
                          /\ queue[i].seq = trySeq => i = Len(queue) /\ phase # "write"
                     /\ \A i \in DOMAIN line :
                          /\ line[i].shot = Shot /\ line[i].seq \in {sequence, trySeq}
                          /\ line[i].seq = trySeq => i = Len(line) /\ queue = <<>> /\ phase # "write"
                     /\ Len(queue) <= attempt + (IF phase = "write" THEN 0 ELSE 1))'
  BY DEF OwnMessages
<1>1. CASE UNCHANGED vars
  BY <1>1 DEF vars, campaign, board, link, history, OwnMessages, Clean, Shot
<1>2. CASE Write \/ WriteFails
  <2>1. /\ Running /\ Clean /\ phase = "write"
        /\ UNCHANGED <<results, sequence, trySeq, attempt, portOpen, line>>
        /\ phase' \in {"wait", "failed"}
    BY <1>2 DEF Write, WriteFails, board, Clean
  <2>2. portOpen
    BY <2>1 DEF OwnMessages
  <2>3. Arrive \/ ArriveDamaged
    BY <1>2, <2>2 DEF Write, WriteFails
  <2>4. \A i \in DOMAIN queue : queue[i].shot = Shot /\ queue[i].seq = sequence /\ queue[i].seq # trySeq
    BY <2>1 DEF OwnMessages
  <2>5. \A i \in DOMAIN line : line[i].shot = Shot /\ line[i].seq = sequence /\ line[i].seq # trySeq
    BY <2>1 DEF OwnMessages
  <2>6. Shot' = Shot /\ Len(queue) <= attempt /\ Len(queue) \in Nat /\ attempt \in {0, 1}
    BY <2>1 DEF Shot, OwnMessages, LinkTypeOK
  <2>7. CASE queue' = queue
    BY <2>1, <2>2, <2>4, <2>5, <2>6, <2>7 DEF OwnMessages
  <2>8. CASE queue' = Append(queue, [seq |-> trySeq, shot |-> Shot])
    <3>1. /\ Len(queue') = Len(queue) + 1 /\ DOMAIN queue' = 1..(Len(queue) + 1)
          /\ DOMAIN queue = 1..Len(queue)
          /\ \A i \in 1..Len(queue) : queue'[i] = queue[i]
          /\ queue'[Len(queue) + 1] = [seq |-> trySeq, shot |-> Shot]
      <4>1. queue \in Seq(Requests)
        BY DEF LinkTypeOK
      <4> QED
        BY <2>8, <4>1
    <3>2. \A i \in DOMAIN queue' : i \in DOMAIN queue \/ i = Len(queue')
      BY <2>6, <3>1
    <3>3. \A i \in DOMAIN queue' :
            /\ queue'[i].shot = Shot /\ queue'[i].seq \in {sequence, trySeq}
            /\ queue'[i].seq = trySeq => i = Len(queue')
      BY <2>4, <3>1, <3>2
    <3>4. Len(queue') <= attempt + 1
      BY <2>6, <3>1
    <3> QED
      BY <2>1, <2>2, <2>5, <2>6, <3>3, <3>4 DEF OwnMessages
  <2> QED
    BY <2>1, <2>3, <2>7, <2>8, ArriveFacts
<1>3. CASE WaitFails
  BY <1>3 DEF WaitFails, board, link, OwnMessages, Clean, Shot
<1>4. CASE Reconnect
  <2>1. /\ Running /\ Clean /\ phase = "failed" /\ attempt = 0
        /\ UNCHANGED <<results, sequence, queue>> /\ portOpen' = TRUE
        /\ line' = <<>> /\ attempt' = 1 /\ trySeq' = NextSeq(trySeq) /\ phase' = "write"
    BY <1>4 DEF Reconnect, Clean
  <2>2. trySeq = sequence /\ sequence \in 1..MaxSeq /\ Shot' = Shot
    BY <2>1 DEF OwnMessages, LinkTypeOK, Shot
  <2>3. trySeq' # sequence /\ trySeq' = NextSeq(sequence)
    BY <2>1, <2>2, NextSeqFacts
  <2>4. \A i \in DOMAIN queue : queue[i].shot = Shot /\ queue[i].seq = sequence
    BY <2>1, <2>2 DEF OwnMessages
  <2>5. Len(queue) <= 1 /\ DOMAIN line' = {}
    BY <2>1 DEF OwnMessages
  <2> QED
    BY <2>1, <2>2, <2>3, <2>4, <2>5
<1>5. CASE ReconnectFails
  BY <1>5, FailShotUnclean DEF ReconnectFails
<1>6. CASE GiveUp
  BY <1>6, FailShotUnclean DEF GiveUp
<1>7. CASE Read
  <2>1. PICK n \in 1..Len(line) :
           /\ Len(line) \in Nat /\ line' \in Seq(Replies) /\ Len(line') = Len(line) - n
           /\ DOMAIN line = 1..Len(line) /\ DOMAIN line' = 1..(Len(line) - n)
           /\ \A i \in 1..(Len(line) - n) : line'[i] = line[n + i]
           /\ \/ UNCHANGED <<campaign, sequence, trySeq, attempt>>
              \/ \E j \in 1..n : line[j].seq = trySeq /\ Return(line[j])
           /\ phase = "wait"
           /\ UNCHANGED <<portOpen, queue, midFrame, ownBasis, faults, desynced>>
    BY <1>7, ReadFacts
  <2>2. CASE UNCHANGED <<campaign, sequence, trySeq, attempt>>
    <3>1. Clean /\ Running /\ Shot' = Shot /\ UNCHANGED <<phase, results>>
      BY <2>1, <2>2 DEF campaign, Clean, Shot
    <3>2. \A i \in DOMAIN line' : n + i \in DOMAIN line /\ line'[i] = line[n + i]
                                  /\ (n + i = Len(line) => i = Len(line'))
      BY <2>1
    <3>3. \A i \in DOMAIN line' :
            /\ line'[i].shot = Shot /\ line'[i].seq \in {sequence, trySeq}
            /\ line'[i].seq = trySeq => i = Len(line') /\ queue = <<>> /\ phase # "write"
      BY <3>1, <3>2 DEF OwnMessages
    <3> QED
      BY <2>1, <2>2, <3>1, <3>3 DEF OwnMessages
  <2>3. CASE \E j \in 1..n : line[j].seq = trySeq /\ Return(line[j])
    <3>1. PICK j \in 1..n : line[j].seq = trySeq /\ Return(line[j])
      BY <2>3
    <3>2. Running /\ line[j] \in Replies /\ line[j].shot \in 0..Shots /\ NextSeq(trySeq) \in 1..MaxSeq
      <4>1. line \in Seq(Replies) /\ j \in DOMAIN line /\ trySeq \in 1..MaxSeq
        BY <2>1 DEF LinkTypeOK
      <4>2. line[j] \in Replies
        BY <4>1
      <4>3. line[j].shot \in 0..Shots
        BY <4>2 DEF Replies
      <4> QED
        BY <2>1, <4>1, <4>2, <4>3, NextSeqFacts
    <3>3. ownBasis /\ NextShot(line[j].shot, NextSeq(trySeq))
      BY <3>1 DEF Return
    <3>4. /\ \A i \in 1..Len(results) : results'[i] = results[i]
          /\ DOMAIN results = 1..Len(results) /\ DOMAIN results' = 1..Shot
          /\ Shot = Len(results) + 1 /\ Len(results) \in Nat
          /\ sequence' = NextSeq(trySeq) /\ trySeq' = NextSeq(trySeq) /\ attempt' = 0
      BY <3>2, <3>3, NextShotFacts
    <3>5. Clean
      BY <3>4 DEF Clean
    <3>6. n = Len(line) /\ queue = <<>> /\ portOpen
      BY <3>1, <3>2, <3>5, OwnReturn DEF OwnMessages
    <3>7. DOMAIN line' = {} /\ queue' = <<>> /\ DOMAIN queue' = {} /\ Len(queue') = 0
      BY <2>1, <3>6
    <3> QED
      BY <2>1, <3>4, <3>6, <3>7
  <2> QED
    BY <2>1, <2>2, <2>3
<1>8. CASE Answer
  <2>1. /\ Running /\ Clean /\ Shot' = Shot /\ DOMAIN queue = 1..Len(queue)
        /\ Len(queue) \in Nat /\ Len(queue) >= 1 /\ Len(queue') = Len(queue) - 1
        /\ DOMAIN queue' = 1..(Len(queue) - 1)
        /\ \A i \in 1..(Len(queue) - 1) : queue'[i] = queue[i + 1]
        /\ DOMAIN line = 1..Len(line) /\ Len(line) \in Nat
        /\ UNCHANGED <<phase, results, sequence, trySeq, attempt, portOpen>>
        /\ queue' \in Seq(Requests) /\ queue # <<>>
    BY <1>8, AnswerFacts DEF Clean, Shot, campaign, board
  <2>2. \A i \in DOMAIN queue' :
          /\ queue'[i].shot = Shot /\ queue'[i].seq \in {sequence, trySeq}
          /\ queue'[i].seq = trySeq => i = Len(queue') /\ phase # "write"
    <3> SUFFICES ASSUME NEW i \in DOMAIN queue'
                 PROVE  /\ queue'[i].shot = Shot /\ queue'[i].seq \in {sequence, trySeq}
                        /\ queue'[i].seq = trySeq => i = Len(queue') /\ phase # "write"
      OBVIOUS
    <3>1. i \in Int /\ i + 1 \in DOMAIN queue /\ queue'[i] = queue[i + 1]
          /\ (i + 1 = Len(queue) => i = Len(queue'))
      BY <2>1
    <3> QED
      BY <2>1, <3>1 DEF OwnMessages
  <2>3. Len(queue') <= attempt + (IF phase = "write" THEN 0 ELSE 1)
    <3>1. attempt \in {0, 1} /\ Len(queue) <= attempt + (IF phase = "write" THEN 0 ELSE 1)
      BY <2>1 DEF OwnMessages, LinkTypeOK
    <3> QED
      BY <2>1, <3>1
  <2>4. \A i \in DOMAIN line : line[i].shot = Shot /\ line[i].seq \in {sequence, trySeq} /\ line[i].seq # trySeq
    BY <2>1 DEF OwnMessages
  <2>5. /\ queue[1].shot = Shot /\ queue[1].seq \in {sequence, trySeq}
        /\ queue[1].seq = trySeq => Len(queue) = 1 /\ phase # "write"
    <3>1. 1 \in DOMAIN queue
      BY <2>1
    <3> QED
      BY <2>1, <3>1 DEF OwnMessages
  <2>6. \A i \in DOMAIN line' :
          /\ line'[i].shot = Shot /\ line'[i].seq \in {sequence, trySeq}
          /\ line'[i].seq = trySeq => i = Len(line') /\ queue' = <<>> /\ phase # "write"
    <3>1. CASE line' = line
      BY <2>4, <3>1
    <3>2. CASE /\ DOMAIN line' = 1..(Len(line) + 1) /\ Len(line') = Len(line) + 1
               /\ \A i \in 1..Len(line) : line'[i] = line[i]
               /\ line'[Len(line) + 1].seq = queue[1].seq
               /\ line'[Len(line) + 1].shot = queue[1].shot
      <4>1. \A i \in DOMAIN line' : i \in DOMAIN line \/ i = Len(line) + 1
        BY <2>1, <3>2
      <4>2. \A i \in DOMAIN line : line'[i] = line[i]
        BY <2>1, <3>2
      <4>3. Len(queue) = 1 => queue' = <<>>
        BY <2>1
      <4> QED
        BY <2>4, <2>5, <3>2, <4>1, <4>2, <4>3
    <3> QED
      BY <1>8, <3>1, <3>2, AnswerFacts
  <2> QED
    BY <2>1, <2>2, <2>3, <2>6 DEF OwnMessages
<1> QED
  BY <1>1, <1>2, <1>3, <1>4, <1>5, <1>6, <1>7, <1>8 DEF Next, Host

\* Every step keeps the results explained: a decode of another shot has a lost one before it,
\* and no lost shot goes uncounted.
ResultsExplained ==
  /\ OwnUntilExhausted
  /\ transportErrors = 0 => Clean

\* A lost shot is counted and explains all that come after it.
LEMMA FailShotExplained ==
  ASSUME LinkTypeOK, Running, FailShot, ResultsExplained
  PROVE  ResultsExplained'
<1>1. 0 \in 0..Shots /\ sequence \in 1..MaxSeq /\ NextShot(0, sequence)
  BY LinkAssumption DEF FailShot, LinkTypeOK
<1>2. /\ results'[Shot] = 0 /\ DOMAIN results' = 1..Shot /\ Shot = Len(results) + 1
      /\ Len(results) \in Nat /\ DOMAIN results = 1..Len(results)
      /\ \A i \in 1..Len(results) : results'[i] = results[i]
  BY <1>1, NextShotFacts
<1>3. transportErrors' # 0
  BY DEF FailShot, LinkTypeOK
<1>4. \A i \in DOMAIN results' : i = Shot \/ i \in DOMAIN results
  BY <1>2
<1>5. \A i \in DOMAIN results : 1..(i - 1) \subseteq DOMAIN results
  BY <1>2
<1> QED
  BY <1>2, <1>3, <1>4, <1>5 DEF ResultsExplained, OwnUntilExhausted

\* Every step keeps the results explained.
LEMMA ResultsStep ==
  ASSUME LinkTypeOK, OwnMessages, ResultsExplained, [Next]_vars
  PROVE  ResultsExplained'
<1>1. CASE UNCHANGED <<results, transportErrors>>
  BY <1>1 DEF ResultsExplained, OwnUntilExhausted, Clean
<1>2. CASE ReconnectFails \/ GiveUp
  BY <1>2, FailShotExplained DEF ReconnectFails, GiveUp, Running
<1>3. CASE Read
  <2>1. PICK n \in 1..Len(line) :
           /\ \/ UNCHANGED <<campaign, sequence, trySeq, attempt>>
              \/ \E j \in 1..n : line[j].seq = trySeq /\ Return(line[j])
           /\ phase = "wait" /\ Len(line) \in Nat
    BY <1>3, ReadFacts
  <2>2. CASE UNCHANGED <<campaign, sequence, trySeq, attempt>>
    BY <1>1, <2>2 DEF campaign
  <2>3. CASE \E j \in 1..n : line[j].seq = trySeq /\ Return(line[j])
    <3>1. PICK j \in 1..n : line[j].seq = trySeq /\ Return(line[j])
      BY <2>3
    <3>2. CASE ~ownBasis
      BY <1>1, <3>1, <3>2 DEF Return
    <3>3. CASE ownBasis
      <4>1. Running /\ line[j].shot \in 0..Shots /\ NextSeq(trySeq) \in 1..MaxSeq
        <5>1. line \in Seq(Replies) /\ j \in DOMAIN line /\ trySeq \in 1..MaxSeq
          BY <2>1 DEF LinkTypeOK
        <5>2. line[j] \in Replies
          BY <5>1
        <5> QED
          BY <2>1, <5>1, <5>2, NextSeqFacts DEF Replies, Running
      <4>2. NextShot(line[j].shot, NextSeq(trySeq)) /\ transportErrors' = transportErrors
        BY <3>1, <3>3 DEF Return
      <4>3. /\ results'[Shot] = line[j].shot /\ DOMAIN results' = 1..Shot /\ Shot = Len(results) + 1
            /\ Len(results) \in Nat /\ DOMAIN results = 1..Len(results)
            /\ \A i \in 1..Len(results) : results'[i] = results[i]
        BY <4>1, <4>2, NextShotFacts
      <4>4. Clean => line[j].shot = Shot
        BY <3>1, <4>1, OwnReturn
      <4>5. \A i \in DOMAIN results' : i = Shot \/ i \in DOMAIN results
        BY <4>3
      <4>6. \A i \in DOMAIN results : 1..(i - 1) \subseteq DOMAIN results
        BY <4>3
      <4>7. 1..(Shot - 1) = DOMAIN results /\ Shot # 0
        BY <4>3
      <4>8. OwnUntilExhausted'
        <5> SUFFICES ASSUME NEW i \in DOMAIN results', results'[i] \notin {0, i}
                     PROVE  \E k \in 1..(i - 1) : results'[k] = 0
          BY DEF OwnUntilExhausted
        <5>1. CASE i \in DOMAIN results
          BY <4>3, <4>6, <5>1 DEF ResultsExplained, OwnUntilExhausted
        <5>2. CASE i = Shot
          <6>1. ~Clean
            BY <4>3, <4>4, <5>2
          <6>2. PICK k \in DOMAIN results : results[k] = 0
            BY <6>1 DEF Clean
          <6> QED
            BY <4>3, <4>7, <5>2, <6>2
        <5> QED
          BY <4>5, <5>1, <5>2
      <4>9. transportErrors' = 0 => Clean'
        BY <4>2, <4>3, <4>4, <4>5, <4>7 DEF ResultsExplained, Clean
      <4> QED
        BY <4>8, <4>9 DEF ResultsExplained
    <3> QED
      BY <3>2, <3>3
  <2> QED
    BY <2>1, <2>2, <2>3
<1>4. Write \/ WriteFails \/ WaitFails \/ Reconnect => UNCHANGED <<results, transportErrors>>
  BY DEF Write, WriteFails, WaitFails, Reconnect
<1>5. Answer => UNCHANGED <<results, transportErrors>>
  BY AnswerFacts DEF campaign
<1>6. UNCHANGED vars => UNCHANGED <<results, transportErrors>>
  BY DEF vars, campaign
<1> QED
  BY <1>1, <1>2, <1>3, <1>4, <1>5, <1>6 DEF Next, Host

-----------------------------------------------------------------------------
(* What a lost shot costs.                                                 *)

\* An attempt that nothing has happened to: its request or its answer is on its way.
Calm ==
  /\ ~fragment /\ \A i \in DOMAIN line : line[i].form = "whole"
  /\ phase # "failed"
  /\ phase = "wait" => Underway

\* Until a shot is lost or the framer left inside a request, a second attempt has cost a
\* fault, and one that is not calm another.
Charged ==
  (Clean /\ Running /\ ~desynced) =>
    /\ ~midFrame /\ faults >= attempt
    /\ faults > attempt \/ Calm

\* A fault charges the attempt.
LEMMA FaultCharges ==
  ASSUME LinkTypeOK, Fault, faults >= attempt
  PROVE  faults' > attempt
BY FaultFacts DEF LinkTypeOK

\* Underway, by positions.
LEMMA UnderwayAt ==
  /\ (\E i \in DOMAIN queue : queue[i].seq = trySeq /\ queue[i].shot = Shot) => Underway
  /\ (\E i \in DOMAIN line :
        line[i].seq = trySeq /\ line[i].shot = Shot /\ line[i].form = "whole") => Underway
  /\ Underway =>
       \/ \E i \in DOMAIN queue : queue[i].seq = trySeq /\ queue[i].shot = Shot
       \/ \E i \in DOMAIN line :
            line[i].seq = trySeq /\ line[i].shot = Shot /\ line[i].form = "whole"
BY DEF Underway, ToSet

\* The same of the next state.
LEMMA UnderwayNext ==
  /\ (\E i \in DOMAIN queue' : queue'[i].seq = trySeq' /\ queue'[i].shot = Shot') => Underway'
  /\ (\E i \in DOMAIN line' :
        line'[i].seq = trySeq' /\ line'[i].shot = Shot' /\ line'[i].form = "whole") => Underway'
BY DEF Underway, ToSet

\* Every step of the clean part pays for what it spoils.
LEMMA ChargedStep ==
  ASSUME LinkTypeOK, OwnMessages, Charged, [Next]_vars
  PROVE  Charged'
<1> USE DEF Running
<1> SUFFICES ASSUME Clean', Running', ~desynced'
             PROVE  ~midFrame' /\ faults' >= attempt' /\ (faults' > attempt' \/ Calm')
  BY DEF Charged
<1>0. faults \in 0..2 /\ attempt \in {0, 1} /\ faults \in Int /\ attempt \in Int
  BY DEF LinkTypeOK
<1>1. CASE UNCHANGED vars
  <2>1. Clean /\ ~desynced /\ Calm' = Calm /\ UNCHANGED <<phase, midFrame, faults, attempt>>
    BY <1>1 DEF vars, campaign, board, link, history, Clean, Calm, Underway, Shot
  <2> QED
    BY <2>1 DEF Charged
<1>2. CASE Write \/ WriteFails
  <2>1. /\ Running /\ Clean /\ phase = "write" /\ ~desynced /\ ~midFrame'
        /\ UNCHANGED <<results, sequence, trySeq, attempt, portOpen, fragment, line>>
        /\ Shot' = Shot
    BY <1>2 DEF Write, WriteFails, board, Clean, Shot
  <2>2. portOpen /\ Len(queue) <= attempt
    BY <2>1, <1>0 DEF OwnMessages
  <2>3. ~midFrame /\ faults >= attempt /\ (faults > attempt \/ Calm)
    BY <2>1 DEF Charged
  <2>4. CASE ArriveDamaged
    <3>1. faults' > attempt
      BY <2>3, <2>4, FaultCharges DEF ArriveDamaged
    <3>2. faults' \in 0..2
      BY <1>0, <2>4, FaultFacts DEF ArriveDamaged
    <3> QED
      BY <1>0, <2>1, <3>1, <3>2
  <2>5. CASE Write /\ Arrive
    <3>1. Len(queue) \in Nat /\ queue \in Seq(Requests)
      BY DEF LinkTypeOK
    <3>2. ~Deaf
      BY <1>0, <2>2, <3>1 DEF Deaf
    <3>3. queue' = Append(queue, [seq |-> trySeq, shot |-> Shot]) /\ faults' = faults
      BY <2>1, <2>3, <2>5, <3>2, ArriveFacts
    <3>4. Len(queue) + 1 \in DOMAIN queue'
          /\ queue'[Len(queue) + 1] = [seq |-> trySeq, shot |-> Shot]
      BY <3>1, <3>3
    <3>5. Underway'
      BY <2>1, <3>4, UnderwayNext
    <3>6. phase' = "wait"
      BY <2>5 DEF Write
    <3> QED
      BY <2>1, <2>3, <3>3, <3>5, <3>6 DEF Calm
  <2> QED
    BY <1>2, <2>2, <2>4, <2>5 DEF Write, WriteFails
<1>3. CASE WaitFails
  <2>1. /\ Running /\ Clean /\ phase = "wait" /\ ~desynced
        /\ UNCHANGED <<midFrame, attempt>>
    BY <1>3 DEF WaitFails, board, link, Clean
  <2>2. ~midFrame /\ faults >= attempt /\ (faults > attempt \/ Calm)
    BY <2>1 DEF Charged
  <2>3. CASE Fault
    <3>1. faults' > attempt
      BY <2>2, <2>3, FaultCharges
    <3>2. faults' \in 0..2
      BY <1>0, <2>3, FaultFacts
    <3> QED
      BY <1>0, <2>1, <2>2, <3>1, <3>2
  <2>4. CASE ~Fault
    <3>1. ~Underway /\ faults' = faults
      BY <1>3, <2>4 DEF WaitFails, NoFault
    <3>2. faults > attempt
      BY <2>1, <2>2, <3>1 DEF Calm
    <3> QED
      BY <2>1, <2>2, <3>1, <3>2
  <2> QED
    BY <2>3, <2>4
<1>4. CASE Reconnect
  <2>1. /\ Running /\ Clean /\ phase = "failed" /\ ~desynced /\ attempt = 0
        /\ UNCHANGED <<midFrame, faults>> /\ attempt' = 1 /\ phase' = "write"
        /\ line' = <<>> /\ fragment' = FALSE
    BY <1>4 DEF Reconnect, history, Clean
  <2>2. ~midFrame /\ faults > 0
    BY <2>1 DEF Charged, Calm
  <2>3. Calm'
    BY <2>1 DEF Calm
  <2> QED
    BY <1>0, <2>1, <2>2, <2>3
<1>5. CASE ReconnectFails
  BY <1>5, FailShotUnclean DEF ReconnectFails
<1>6. CASE GiveUp
  BY <1>6, FailShotUnclean DEF GiveUp
<1>7. CASE Read
  <2>1. PICK n \in 1..Len(line) :
           /\ Len(line) \in Nat /\ line' \in Seq(Replies) /\ Len(line') = Len(line) - n
           /\ DOMAIN line = 1..Len(line) /\ DOMAIN line' = 1..(Len(line) - n)
           /\ \A i \in 1..(Len(line) - n) : line'[i] = line[n + i]
           /\ ~fragment /\ (\A i \in DOMAIN line : line[i].form = "whole") => ~fragment'
           /\ \/ /\ UNCHANGED <<campaign, sequence, trySeq, attempt>>
                 /\ ~fragment /\ (\A i \in DOMAIN line : line[i].form = "whole") =>
                      \A j \in 1..n : line[j].seq # trySeq
              \/ \E j \in 1..n : line[j].seq = trySeq /\ Return(line[j])
           /\ phase = "wait"
           /\ UNCHANGED <<portOpen, queue, midFrame, ownBasis, faults, desynced>>
    BY <1>7, ReadFacts
  <2>2. CASE /\ UNCHANGED <<campaign, sequence, trySeq, attempt>>
             /\ ~fragment /\ (\A i \in DOMAIN line : line[i].form = "whole") =>
                  \A j \in 1..n : line[j].seq # trySeq
    <3>1. /\ Running /\ Clean /\ ~desynced /\ Shot' = Shot /\ phase' = "wait"
          /\ trySeq' = trySeq /\ attempt' = attempt
      BY <2>1, <2>2 DEF campaign, Clean, Shot
    <3>2. ~midFrame /\ faults >= attempt /\ (faults > attempt \/ Calm)
      BY <3>1 DEF Charged
    <3>3. ASSUME Calm PROVE Calm'
      <4>1. \A j \in 1..n : line[j].seq # trySeq
        BY <2>2, <3>3 DEF Calm
      <4>2. ~fragment' /\ \A i \in DOMAIN line' : line'[i].form = "whole"
        <5>1. \A i \in DOMAIN line' : n + i \in DOMAIN line /\ line'[i] = line[n + i]
          BY <2>1
        <5> QED
          BY <2>1, <3>3, <5>1 DEF Calm
      <4>3. Underway
        BY <2>1, <3>3 DEF Calm
      <4>4. CASE \E i \in DOMAIN queue : queue[i].seq = trySeq /\ queue[i].shot = Shot
        <5>1. Underway'
          BY <2>1, <3>1, <4>4, UnderwayNext
        <5> QED
          BY <3>1, <4>2, <5>1 DEF Calm
      <4>5. CASE \E i \in DOMAIN line :
                   line[i].seq = trySeq /\ line[i].shot = Shot /\ line[i].form = "whole"
        <5>1. PICK i \in DOMAIN line :
                line[i].seq = trySeq /\ line[i].shot = Shot /\ line[i].form = "whole"
          BY <4>5
        <5>2. i \notin 1..n
          BY <4>1, <5>1
        <5>3. i - n \in DOMAIN line' /\ n + (i - n) = i
          BY <2>1, <5>2
        <5>4. line'[i - n] = line[i]
          BY <2>1, <5>3
        <5>5. Underway'
          BY <3>1, <5>1, <5>3, <5>4, UnderwayNext
        <5> QED
          BY <3>1, <4>2, <5>5 DEF Calm
      <4> QED
        BY <4>3, <4>4, <4>5, UnderwayAt
    <3> QED
      BY <2>1, <3>1, <3>2, <3>3
  <2>3. CASE \E j \in 1..n : line[j].seq = trySeq /\ Return(line[j])
    <3>1. PICK j \in 1..n : line[j].seq = trySeq /\ Return(line[j])
      BY <2>3
    <3>2. Running /\ line[j].shot \in 0..Shots /\ NextSeq(trySeq) \in 1..MaxSeq
      <4>1. line \in Seq(Replies) /\ j \in DOMAIN line /\ trySeq \in 1..MaxSeq
        BY <2>1 DEF LinkTypeOK
      <4>2. line[j] \in Replies
        BY <4>1
      <4>3. line[j].shot \in 0..Shots
        BY <4>2 DEF Replies
      <4> QED
        BY <2>1, <4>1, <4>3, NextSeqFacts
    <3>3. ownBasis /\ NextShot(line[j].shot, NextSeq(trySeq))
      BY <3>1 DEF Return
    <3>4. /\ \A i \in 1..Len(results) : results'[i] = results[i]
          /\ DOMAIN results = 1..Len(results) /\ DOMAIN results' = 1..Shot
          /\ Shot = Len(results) + 1 /\ Len(results) \in Nat
          /\ attempt' = 0 /\ phase' \in {"write", "done"}
      BY <3>2, <3>3, NextShotFacts
    <3>5. Clean /\ ~desynced /\ phase' = "write"
      BY <2>1, <3>4 DEF Clean
    <3>6. n = Len(line)
      BY <3>1, <3>2, <3>5, OwnReturn
    <3>7. DOMAIN line' = {}
      BY <2>1, <3>6
    <3>8. ~midFrame /\ faults >= attempt /\ (faults > attempt \/ Calm)
      BY <3>2, <3>5 DEF Charged
    <3>9. Calm => Calm'
      BY <2>1, <3>5, <3>7 DEF Calm
    <3> QED
      BY <1>0, <2>1, <3>4, <3>8, <3>9
  <2> QED
    BY <2>1, <2>2, <2>3
<1>8. CASE Answer
  <2>1. /\ Running /\ Clean /\ ~desynced /\ Shot' = Shot /\ DOMAIN queue = 1..Len(queue)
        /\ Len(queue) \in Nat /\ Len(queue) >= 1
        /\ DOMAIN queue' = 1..(Len(queue) - 1)
        /\ \A i \in 1..(Len(queue) - 1) : queue'[i] = queue[i + 1]
        /\ DOMAIN line = 1..Len(line) /\ Len(line) \in Nat
        /\ UNCHANGED <<phase, trySeq, attempt, midFrame, fragment>>
        /\ faults' \in 0..2 /\ faults' >= faults
    <3>1. /\ UNCHANGED <<campaign, board, midFrame, ownBasis, desynced, crcSeen>>
          /\ Running /\ faults' \in 0..2 /\ faults' >= faults
      BY <1>8, AnswerFacts
    <3>2. /\ UNCHANGED <<phase, results, trySeq, attempt, midFrame, fragment, desynced>>
          /\ Shot' = Shot /\ Clean /\ ~desynced
      BY <3>1 DEF Clean, Shot, campaign, board
    <3>3. /\ DOMAIN queue = 1..Len(queue) /\ Len(queue) \in Nat /\ Len(queue) >= 1
          /\ DOMAIN queue' = 1..(Len(queue) - 1)
          /\ \A i \in 1..(Len(queue) - 1) : queue'[i] = queue[i + 1]
          /\ DOMAIN line = 1..Len(line) /\ Len(line) \in Nat
      BY <1>8, AnswerFacts
    <3> QED
      BY <3>1, <3>2, <3>3
  <2>2. ~midFrame /\ faults >= attempt /\ (faults > attempt \/ Calm) /\ portOpen
    BY <2>1 DEF Charged, OwnMessages
  <2>3. CASE Fault
    <3>1. faults' > attempt
      BY <2>2, <2>3, FaultCharges
    <3> QED
      BY <1>0, <2>1, <2>2, <3>1
  <2>4. CASE /\ DOMAIN line' = 1..(Len(line) + 1)
             /\ \A i \in 1..Len(line) : line'[i] = line[i]
             /\ line'[Len(line) + 1].seq = queue[1].seq
             /\ line'[Len(line) + 1].shot = queue[1].shot
             /\ faults' = faults /\ line'[Len(line) + 1].form = "whole"
    <3>1. ASSUME Calm PROVE Calm'
      <4>1. \A i \in DOMAIN line' : i \in DOMAIN line \/ i = Len(line) + 1
        BY <2>1, <2>4
      <4>2. \A i \in DOMAIN line : i \in DOMAIN line' /\ line'[i] = line[i]
        BY <2>1, <2>4
      <4>3. ~fragment' /\ \A i \in DOMAIN line' : line'[i].form = "whole"
        BY <2>1, <2>4, <3>1, <4>1, <4>2 DEF Calm
      <4>4. ASSUME Underway PROVE Underway'
        <5>1. CASE \E i \in DOMAIN line :
                     line[i].seq = trySeq /\ line[i].shot = Shot /\ line[i].form = "whole"
          BY <2>1, <4>2, <5>1, UnderwayNext
        <5>2. CASE \E i \in DOMAIN queue : queue[i].seq = trySeq /\ queue[i].shot = Shot
          <6>1. PICK i \in DOMAIN queue : queue[i].seq = trySeq /\ queue[i].shot = Shot
            BY <5>2
          <6>2. CASE i = 1
            <7>1. Len(line) + 1 \in DOMAIN line'
              BY <2>1, <2>4
            <7> QED
              BY <2>1, <2>4, <6>1, <6>2, <7>1, UnderwayNext
          <6>3. CASE i # 1
            <7>1. i - 1 \in DOMAIN queue' /\ (i - 1) + 1 = i
              BY <2>1, <6>3
            <7>2. queue'[i - 1] = queue[i]
              BY <2>1, <7>1
            <7> QED
              BY <2>1, <6>1, <7>1, <7>2, UnderwayNext
          <6> QED
            BY <6>2, <6>3
        <5> QED
          BY <4>4, <5>1, <5>2, UnderwayAt
      <4> QED
        BY <2>1, <3>1, <4>3, <4>4 DEF Calm
    <3> QED
      BY <2>1, <2>2, <2>4, <3>1
  <2> QED
    BY <1>8, <2>2, <2>3, <2>4, AnswerFacts
<1> QED
  BY <1>1, <1>2, <1>3, <1>4, <1>5, <1>6, <1>7, <1>8 DEF Next, Host

\* Every step that counts a transport error has its two faults, or the framer out of step.
LEMMA FirstErrorStep ==
  ASSUME LinkTypeOK, ResultsExplained, Charged, FirstErrorNeedsTwoFaults, [Next]_vars
  PROVE  FirstErrorNeedsTwoFaults'
<1>0. faults \in 0..2 /\ attempt \in {0, 1} /\ transportErrors \in Nat
  BY DEF LinkTypeOK
<1>1. ASSUME transportErrors' = transportErrors, faults' \in 0..2, faults' >= faults,
             desynced => desynced'
      PROVE  FirstErrorNeedsTwoFaults'
  BY <1>0, <1>1 DEF FirstErrorNeedsTwoFaults
<1>2. ASSUME phase = "failed", transportErrors = 0, ~desynced PROVE faults > attempt
  <2>1. Clean /\ Running
    BY <1>2 DEF ResultsExplained, Running
  <2> QED
    BY <1>2, <2>1 DEF Charged, Calm
<1>3. CASE GiveUp
  <2>1. phase = "failed" /\ attempt = 1 /\ faults' = faults /\ desynced' = desynced
    BY <1>3 DEF GiveUp, history
  <2>2. transportErrors = 0 /\ ~desynced => faults = 2
    BY <1>0, <1>2, <2>1
  <2> QED
    BY <1>0, <2>1, <2>2 DEF FirstErrorNeedsTwoFaults
<1>4. CASE ReconnectFails
  <2>1. phase = "failed" /\ attempt = 0 /\ Fault /\ desynced' = desynced
    BY <1>4 DEF ReconnectFails
  <2>2. faults >= 1 => faults' = 2
    BY <1>0, <2>1, FaultFacts
  <2>3. transportErrors = 0 /\ ~desynced => faults >= 1
    BY <1>0, <1>2, <2>1
  <2>4. transportErrors > 0 \/ transportErrors = 0
    BY <1>0
  <2> QED
    BY <1>0, <2>1, <2>2, <2>3, <2>4 DEF FirstErrorNeedsTwoFaults
<1>5. CASE Write \/ WriteFails
  <2>1. Running /\ transportErrors' = transportErrors /\ (desynced => desynced')
    BY <1>5 DEF Write, WriteFails, Running
  <2>2. Arrive \/ ArriveDamaged \/ NoFault
    BY <1>5 DEF Write, WriteFails
  <2>3. faults' \in 0..2 /\ faults' >= faults
    BY <1>0, <2>1, <2>2, ArriveFacts, FaultFacts
  <2> QED
    BY <1>1, <2>1, <2>3
<1>6. CASE WaitFails
  <2>1. faults' \in 0..2 /\ faults' >= faults
    BY <1>0, <1>6, FaultFacts DEF WaitFails
  <2> QED
    BY <1>1, <1>6, <2>1 DEF WaitFails
<1>7. CASE Reconnect
  BY <1>0, <1>1, <1>7 DEF Reconnect, history
<1>8. CASE Answer
  <2>1. /\ UNCHANGED <<campaign, board, midFrame, ownBasis, desynced, crcSeen>>
        /\ faults' \in 0..2 /\ faults' >= faults
    BY <1>8, AnswerFacts
  <2> QED
    BY <1>1, <2>1 DEF campaign
<1>9. CASE Read
  <2>1. PICK n \in 1..Len(line) :
          /\ \/ UNCHANGED <<campaign, sequence, trySeq, attempt>>
             \/ \E j \in 1..n : line[j].seq = trySeq /\ Return(line[j])
          /\ UNCHANGED <<faults, desynced>>
    BY <1>9, ReadFacts
  <2>2. transportErrors' = transportErrors
    BY <2>1 DEF Return, campaign
  <2> QED
    BY <1>0, <1>1, <2>1, <2>2
<1>10. CASE UNCHANGED vars
  BY <1>0, <1>1, <1>10 DEF vars, campaign, history
<1> QED
  BY <1>3, <1>4, <1>5, <1>6, <1>7, <1>8, <1>9, <1>10 DEF Next, Host

-----------------------------------------------------------------------------
(* The theorems.                                                           *)

\* The inductive invariant.
LinkInv ==
  LinkTypeOK /\ OwnMessages /\ ResultsExplained /\ Charged /\ FirstErrorNeedsTwoFaults

\* A campaign begins with nothing sent.
LEMMA LinkInvInit ==
  ASSUME Init
  PROVE  LinkInv
<1>1. /\ results = <<>> /\ Len(results) = 0 /\ DOMAIN results = {}
      /\ line = <<>> /\ DOMAIN line = {} /\ queue = <<>> /\ DOMAIN queue = {} /\ Len(queue) = 0
      /\ results \in Seq(0..Shots) /\ line \in Seq(Replies) /\ queue \in Seq(Requests)
  BY DEF Init
<1>2. LinkTypeOK
  <2>1. /\ 0 <= Shots /\ 0 < Shots /\ 1 \in 1..MaxSeq
    BY LinkAssumption
  <2>2. /\ transportErrors \in Nat /\ decoderErrors \in Nat /\ basisMismatches \in Nat
        /\ sequence \in 1..MaxSeq /\ trySeq \in 1..MaxSeq /\ attempt \in {0, 1}
        /\ parserErrors \in Nat /\ faults \in 0..2 /\ phase = "write"
    BY <2>1 DEF Init
  <2>3. /\ portOpen \in BOOLEAN /\ fragment \in BOOLEAN /\ midFrame \in BOOLEAN
        /\ ownBasis \in BOOLEAN /\ desynced \in BOOLEAN /\ crcSeen \in BOOLEAN
    BY Zenon DEF Init
  <2> QED
    BY <1>1, <2>1, <2>2, <2>3 DEF LinkTypeOK
<1>3. OwnMessages
  BY <1>1 DEF Init, OwnMessages
<1>4. ResultsExplained /\ FirstErrorNeedsTwoFaults
  BY <1>1 DEF Init, ResultsExplained, OwnUntilExhausted, FirstErrorNeedsTwoFaults, Clean
<1>5. Charged
  BY <1>1 DEF Init, Charged, Calm
<1> QED
  BY <1>2, <1>3, <1>4, <1>5 DEF LinkInv

\* The invariant holds throughout.
THEOREM LinkInvariant == Spec => []LinkInv
<1>1. Init => LinkInv
  BY LinkInvInit
<1>2. LinkInv /\ [Next]_vars => LinkInv'
  BY LinkTypeStep, OwnMessagesStep, ResultsStep, ChargedStep, FirstErrorStep DEF LinkInv
<1> QED
  BY <1>1, <1>2, PTL DEF Spec

\* The variables keep their types; the board never holds more than two requests.
THEOREM LinkTypes == Spec => []LinkTypeOK
<1>1. LinkInv => LinkTypeOK
  BY DEF LinkInv
<1> QED
  BY <1>1, LinkInvariant, PTL

\* Late, lost, damaged and repeated messages never give a shot the decode of another one
\* before some shot has used up both of its attempts, for every number of shots and every
\* width of the sequence number.
THEOREM DecodesAreOwn == Spec => []OwnUntilExhausted
<1>1. LinkInv => OwnUntilExhausted
  BY DEF LinkInv, ResultsExplained
<1> QED
  BY <1>1, LinkInvariant, PTL

\* A campaign that passes has returned for every shot the decode of that shot.
THEOREM PassesAreOwn == Spec => []PassMeansOwn
<1>1. LinkInv => PassMeansOwn
  <2> SUFFICES ASSUME LinkInv, TransportPass PROVE results = [i \in 1..Shots |-> i]
    BY DEF PassMeansOwn
  <2>1. /\ results \in Seq(0..Shots) /\ Len(results) = Shots /\ Clean /\ OwnUntilExhausted
    BY DEF LinkInv, LinkTypeOK, ResultsExplained, TransportPass
  <2>2. DOMAIN results = 1..Shots
    BY <2>1
  <2>3. ASSUME NEW i \in 1..Shots PROVE results[i] = i
    <3>1. 1..(i - 1) \subseteq DOMAIN results
      BY <2>2, LinkAssumption
    <3> QED
      BY <2>1, <2>2, <3>1 DEF Clean, OwnUntilExhausted
  <2> QED
    BY <2>1, <2>2, <2>3
<1> QED
  BY <1>1, LinkInvariant, PTL

\* The first shot lost to the transport has cost two faults, or one that left the framer
\* inside a request.
THEOREM ErrorsArePaidFor == Spec => []FirstErrorNeedsTwoFaults
<1>1. LinkInv => FirstErrorNeedsTwoFaults
  BY DEF LinkInv
<1> QED
  BY <1>1, LinkInvariant, PTL
=============================================================================
