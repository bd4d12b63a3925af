---------------------------- MODULE Queues_proofs ----------------------------
(***************************************************************************)
(* Proofs about the two queues that are kept on disk.  About ListenQueue:  *)
(* its type invariant; that no listen the queue file has taken is lost     *)
(* while neither the cap nor a fault costs lines; that the server gets the *)
(* listens oldest first, none twice without a fault; and that the client   *)
(* implements ListenOutbox.  About VideoJobs, for any names, bounds and    *)
(* number of crashes: an upload that was taken is never lost and becomes   *)
(* one video, of its name, and no hidden file is left over.  These rest on *)
(* the names of two uploads being different, which takes a process id that *)
(* doesn't come round again (~SamePid).                                    *)
(***************************************************************************)
EXTENDS ListenQueue, VideoJobs, TLAPS, SequenceTheorems, FiniteSetTheorems

(***************************************************************************)
(* The listens.                                                            *)
(***************************************************************************)
\* Which fields go with which places of the two threads.
PlacesOK ==
  /\ worker = "ping" => Len(batch) = 1
  /\ worker = "post" => sent < Len(batch)
  /\ worker = "remove" => sent > 0 /\ sent <= Len(batch)
  /\ worker # "off" => enabled
  /\ enabled => token # NoToken
  /\ ui = "down" => ~enabled
  /\ worker \in {"ping", "post"} => wtoken # NoToken

\* Until the file loses lines, the copy a flush posts from is a prefix of it,
\* and the lines counted as sent are with the server.
FlushOK ==
  worker \in {"post", "remove"} =>
    /\ \A i \in 1..sent : batch[i] \in Range(server)
    /\ Whole => /\ Len(batch) <= Len(file)
                /\ \A i \in 1..Len(batch) : batch[i] = file[i]
-----------------------------------------------------------------------------
(* What the operators on lines return. *)

\* DropFirst keeps every line after the first n.
LEMMA DropFirstLines ==
  ASSUME NEW lines \in Seq(Nat), NEW n \in 0..Len(lines)
  PROVE  /\ DropFirst(lines, n) \in Seq(Nat)
         /\ Len(DropFirst(lines, n)) = Len(lines) - n
         /\ \A i \in 1..Len(lines) - n : DropFirst(lines, n)[i] = lines[n + i]
<1> DEFINE m == Len(lines)
<1>1. m \in Nat /\ \A i \in 1..m : lines[i] \in Nat
  BY LenProperties, ElementOfSeq
<1>2. \A i \in n+1..m : lines[i] \in Nat
  BY <1>1
<1>3. /\ SubSeq(lines, n+1, m) \in Seq(Nat)
      /\ Len(SubSeq(lines, n+1, m)) = IF n+1 <= m THEN m-(n+1)+1 ELSE 0
      /\ \A i \in 1..m-(n+1)+1 : SubSeq(lines, n+1, m)[i] = lines[(n+1)+i-1]
  <2> HIDE DEF m
  <2>1. n+1 \in Int /\ m \in Int
    BY <1>1
  <2> QED
    BY <2>1, <1>2, SubSeqProperties
<1>4. \A i \in 1..m-n : (n+1)+i-1 = n+i
  BY <1>1
<1>5. m-(n+1)+1 = m-n /\ (IF n+1 <= m THEN m-(n+1)+1 ELSE 0) = m-n
  BY <1>1
<1>6. DropFirst(lines, n) = SubSeq(lines, n+1, m)
  BY DEF DropFirst
<1>7. \A i \in 1..m-n : SubSeq(lines, n+1, m)[i] = lines[n+i]
  BY <1>3, <1>4, <1>5
<1> QED
  BY <1>3, <1>5, <1>6, <1>7

\* An append keeps the file within its cap, and below the cap it only adds.
LEMMA AppendedLines ==
  ASSUME NEW lines \in Seq(Nat), NEW l \in Nat
  PROVE  /\ Append(lines, l) \in Seq(Nat)
         /\ Excess(Append(lines, l)) \in 0..Len(Append(lines, l))
         /\ Appended(lines, l) \in Seq(Nat)
         /\ Len(Appended(lines, l)) <= FileCap
         /\ Excess(Append(lines, l)) = 0 =>
              /\ Len(Appended(lines, l)) = Len(lines) + 1
              /\ \A i \in 1..Len(lines) : Appended(lines, l)[i] = lines[i]
              /\ Appended(lines, l)[Len(lines) + 1] = l
<1> DEFINE grown == Append(lines, l)
<1>1. /\ grown \in Seq(Nat) /\ Len(grown) = Len(lines) + 1
      /\ \A i \in 1..Len(lines) : grown[i] = lines[i]
      /\ grown[Len(lines) + 1] = l
  BY AppendProperties
<1>2. Len(lines) \in Nat /\ Len(grown) \in Nat
  BY <1>1, LenProperties
<1>3. Excess(grown) \in 0..Len(grown) /\ Len(grown) - Excess(grown) <= FileCap
  BY <1>2, CapAssumption DEF Excess
<1> HIDE DEF grown
<1>4. /\ DropFirst(grown, Excess(grown)) \in Seq(Nat)
      /\ Len(DropFirst(grown, Excess(grown))) = Len(grown) - Excess(grown)
      /\ \A i \in 1..Len(grown) - Excess(grown) :
           DropFirst(grown, Excess(grown))[i] = grown[Excess(grown) + i]
  BY <1>1, <1>3, DropFirstLines
<1>5. Appended(lines, l) = DropFirst(grown, Excess(grown))
  BY DEF Appended, grown
<1>6. ASSUME Excess(grown) = 0
      PROVE  /\ Len(Appended(lines, l)) = Len(lines) + 1
             /\ \A i \in 1..Len(lines) : Appended(lines, l)[i] = lines[i]
             /\ Appended(lines, l)[Len(lines) + 1] = l
  <2>1. \A i \in 1..Len(grown) : Appended(lines, l)[i] = grown[i]
    BY <1>2, <1>4, <1>5, <1>6
  <2> QED
    BY <2>1, <1>1, <1>2, <1>4, <1>5, <1>6
<1> QED
  BY <1>1, <1>2, <1>3, <1>4, <1>5, <1>6 DEF grown

\* A removal leaves the lines after the first n, and no more lines than before.
LEMMA RemovedLines ==
  ASSUME NEW lines \in Seq(Nat), NEW n \in Nat
  PROVE  /\ Removed(lines, n) \in Seq(Nat)
         /\ Len(Removed(lines, n)) <= Len(lines)
         /\ \A i \in n+1..Len(lines) : lines[i] \in Range(Removed(lines, n))
<1> DEFINE k == IF n < Len(lines) THEN n ELSE Len(lines)
<1>1. Len(lines) \in Nat /\ k \in 0..Len(lines)
  BY LenProperties
<1>2. Removed(lines, n) = DropFirst(lines, k)
  BY DEF Removed
<1> HIDE DEF k
<1>3. /\ DropFirst(lines, k) \in Seq(Nat)
      /\ Len(DropFirst(lines, k)) = Len(lines) - k
      /\ \A i \in 1..Len(lines) - k : DropFirst(lines, k)[i] = lines[k + i]
  BY <1>1, DropFirstLines
<1>4. Range(DropFirst(lines, k))
        = {DropFirst(lines, k)[i] : i \in 1..Len(DropFirst(lines, k))}
  BY <1>3, RangeEquality
<1>5. ASSUME NEW i \in n+1..Len(lines)
      PROVE  lines[i] \in Range(DropFirst(lines, k))
  <2>1. k = n /\ i - k \in 1..Len(lines) - k /\ k + (i - k) = i
    BY <1>1, <1>5 DEF k
  <2> QED
    BY <2>1, <1>3, <1>4
<1> QED
  BY <1>1, <1>2, <1>3, <1>5

\* What a rewrite cut short leaves is a file no longer than the whole one.
LEMMA CutLines ==
  ASSUME NEW lines \in Seq(Nat), NEW c \in Cut(lines)
  PROVE  c \in Seq(Nat) /\ Len(c) <= Len(lines)
<1>1. Len(lines) \in Nat /\ \A i \in 1..Len(lines) : lines[i] \in Nat
  BY LenProperties, ElementOfSeq
<1>2. PICK k \in 0..Len(lines) - 1 :
        c \in {SubSeq(lines, 1, k), Append(SubSeq(lines, 1, k), Torn)}
  BY DEF Cut
<1>3. SubSeq(lines, 1, k) \in Seq(Nat) /\ Len(SubSeq(lines, 1, k)) = k
  <2>1. k \in Nat /\ \A i \in 1..k : lines[i] \in Nat
    BY <1>1
  <2>2. /\ SubSeq(lines, 1, k) \in Seq(Nat)
        /\ Len(SubSeq(lines, 1, k)) = IF 1 <= k THEN k-1+1 ELSE 0
    BY <2>1, SubSeqProperties
  <2> QED
    BY <2>1, <2>2
<1>4. Torn \in Nat
  BY DEF Torn
<1>5. /\ Append(SubSeq(lines, 1, k), Torn) \in Seq(Nat)
      /\ Len(Append(SubSeq(lines, 1, k), Torn)) = k + 1
  BY <1>3, <1>4, AppendProperties
<1>6. CASE c = SubSeq(lines, 1, k)
  BY <1>1, <1>3, <1>6
<1>7. CASE c = Append(SubSeq(lines, 1, k), Torn)
  BY <1>1, <1>5, <1>7
<1> QED
  BY <1>2, <1>6, <1>7

\* Appending to the server's history keeps what it has and adds the line.
LEMMA Delivered ==
  ASSUME NEW s \in Seq(Nat), NEW l \in Nat
  PROVE  /\ Append(s, l) \in Seq(Nat)
         /\ Range(s) \subseteq Range(Append(s, l))
         /\ l \in Range(Append(s, l))
<1>1. /\ Append(s, l) \in Seq(Nat) /\ Len(Append(s, l)) = Len(s) + 1
      /\ \A i \in 1..Len(s) : Append(s, l)[i] = s[i]
      /\ Append(s, l)[Len(s) + 1] = l
  BY AppendProperties
<1>2. Len(s) \in Nat
  BY LenProperties
<1>3. /\ Range(s) = {s[i] : i \in 1..Len(s)}
      /\ Range(Append(s, l)) = {Append(s, l)[i] : i \in 1..Len(Append(s, l))}
  BY <1>1, RangeEquality
<1> QED
  BY <1>1, <1>2, <1>3
-----------------------------------------------------------------------------
(* The two threads agree on their fields, and every variable has its type. *)

\* The ring the next drain step leaves, and what it puts in the worker's hands.
LEMMA DrainStep ==
  ASSUME TypeOK, PlacesOK, enabled, Drain
  PROVE  /\ ring' \in Seq(Line) /\ Len(ring') <= RingCap
         /\ batch' \in Seq(Line) /\ sent' \in Nat
         /\ wtoken' \in Tokens \union {NoToken}
         /\ worker' \in {"ping", "flush", "wait"}
         /\ worker' = "ping" => Len(batch') = 1 /\ wtoken' # NoToken
<1>1. CASE ring # <<>>
  <2>1. /\ Head(ring) \in Nat /\ Tail(ring) \in Seq(Nat)
        /\ Len(Tail(ring)) = Len(ring) - 1 /\ Len(ring) \in Nat
    BY <1>1, HeadTailProperties, LenProperties DEF TypeOK, Line
  <2>2. RingCap \in Nat /\ Len(Tail(ring)) <= RingCap
    BY <2>1, CapAssumption DEF TypeOK
  <2>3. /\ batch' = <<Head(ring)>> /\ ring' = Tail(ring) /\ wtoken' = token
        /\ sent' = 0 /\ worker' = "ping"
    BY <1>1 DEF Drain
  <2>4. batch' \in Seq(Nat) /\ Len(batch') = 1
    BY <2>1, <2>3
  <2> QED
    BY <2>1, <2>2, <2>3, <2>4 DEF Line, TypeOK, PlacesOK
<1>2. CASE ring = <<>>
  BY <1>2 DEF Drain, TypeOK, PlacesOK, locals
<1> QED
  BY <1>1, <1>2

\* Every variable keeps its type, each queue its cap, and the fields of the
\* two threads go together.
THEOREM TypesInvariant == Spec => [](TypeOK /\ PlacesOK)
<1> USE TokenAssumption DEF Line
<1>1. Init => TypeOK /\ PlacesOK
  <2>1. <<>> \in Seq(Nat) /\ Len(<<>>) = 0
    BY EmptySeq
  <2> SUFFICES ASSUME Init PROVE TypeOK /\ PlacesOK
    OBVIOUS
  <2>2. refused \subseteq Nat
    BY RefusableAssumption DEF Init
  <2>3. /\ file \in Seq(Nat) /\ Len(file) <= FileCap
        /\ ring \in Seq(Nat) /\ Len(ring) <= RingCap
        /\ batch \in Seq(Nat) /\ server \in Seq(Nat)
    BY <2>1, CapAssumption DEF Init
  <2>4. /\ durable \in BOOLEAN /\ damaged \in BOOLEAN
        /\ shutdown \in BOOLEAN /\ enabled \in BOOLEAN
    BY DEF Init
  <2>5. /\ ui \in {"down", "idle", "join"} /\ worker = "off"
        /\ token \in Tokens \union {NoToken} /\ wtoken \in Tokens \union {NoToken}
        /\ accepted \subseteq Nat \ {0}
        /\ sent \in Nat /\ drops \in Nat /\ faults \in Nat /\ next \in Nat \ {0}
    BY DEF Init
  <2>6. PlacesOK
    BY DEF Init, PlacesOK
  <2> QED
    BY <2>2, <2>3, <2>4, <2>5, <2>6 DEF TypeOK
<1>2. TypeOK /\ PlacesOK /\ [Next]_vars => (TypeOK /\ PlacesOK)'
  <2> SUFFICES ASSUME TypeOK, PlacesOK, [Next]_vars PROVE TypeOK' /\ PlacesOK'
    OBVIOUS
  <2>1. CASE Boot
    BY <2>1 DEF Boot, Start, TypeOK, PlacesOK, disk, locals
  <2>2. CASE TurnOff
    BY <2>2 DEF TurnOff, TypeOK, PlacesOK, disk, locals
  <2>3. CASE Join
    BY <2>3 DEF Join, TypeOK, PlacesOK, disk, locals
  <2>4. ASSUME NEW t \in Tokens, SetToken(t) PROVE TypeOK' /\ PlacesOK'
    BY <2>4 DEF SetToken, Start, TypeOK, PlacesOK, disk, locals
  <2>5. ASSUME NEW e \in Nat, Enqueue(e)
        PROVE  ring' \in Seq(Nat) /\ Len(ring') <= RingCap
    <3>1. /\ Append(ring, e) \in Seq(Nat) /\ Len(Append(ring, e)) = Len(ring) + 1
          /\ Len(ring) \in Nat
      BY AppendProperties, LenProperties DEF TypeOK
    <3> QED
      BY <3>1, <2>5, CapAssumption DEF Enqueue, TypeOK
  <2>6. CASE NowPlaying
    BY <2>5, <2>6 DEF NowPlaying, Ping, TypeOK, PlacesOK, disk, locals, settings
  <2>7. CASE SubmitListen
    <3>1. next \in Nat \ {0} /\ FileCap \in Nat \ {0}
      BY CapAssumption DEF TypeOK
    <3>2. ASSUME AppendCapped(next)
          PROVE  /\ file' \in Seq(Nat) /\ Len(file') <= FileCap
                 /\ accepted' \subseteq Nat \ {0} /\ drops' \in Nat
                 /\ damaged' \in BOOLEAN /\ faults' \in Nat
      <4> DEFINE new == Appended(file, next)
      <4>1. /\ new \in Seq(Nat) /\ Len(new) <= FileCap /\ Len(new) \in Nat
            /\ Excess(Append(file, next)) \in Nat
        BY <3>1, AppendedLines, LenProperties DEF TypeOK
      <4> HIDE DEF new
      <4>2. \A c \in Cut(new) : c \in Seq(Nat) /\ Len(c) \in Nat /\ Len(c) <= FileCap
        BY <3>1, <4>1, CutLines, LenProperties
      <4>3. <<next>> \in Seq(Nat) /\ Len(<<next>>) = 1
        BY <3>1
      <4>4. /\ file' \in {file, new, <<next>>} \/ file' \in Cut(new)
            /\ accepted' \in {accepted, accepted \union {next}}
            /\ drops' \in {drops, drops + Excess(Append(file, next))}
            /\ damaged' \in {damaged, TRUE} /\ faults' \in {faults, faults + 1}
        BY <3>2 DEF AppendCapped, Fault, disk, new
      <4>5. file \in Seq(Nat) /\ Len(file) <= FileCap /\ 1 <= FileCap
        BY <3>1 DEF TypeOK
      <4>6. file' \in Seq(Nat) /\ Len(file') <= FileCap
        BY <4>1, <4>2, <4>3, <4>4, <4>5
      <4>7. accepted' \subseteq Nat \ {0}
        BY <3>1, <4>4 DEF TypeOK
      <4>8. drops' \in Nat /\ faults' \in Nat
        BY <4>1, <4>4 DEF TypeOK
      <4>9. damaged' \in BOOLEAN
        BY <4>4 DEF TypeOK
      <4> QED
        BY <4>6, <4>7, <4>8, <4>9
    <3>3. /\ ring' \in Seq(Nat) /\ Len(ring') <= RingCap
          /\ file' \in Seq(Nat) /\ Len(file') <= FileCap
          /\ accepted' \subseteq Nat \ {0} /\ drops' \in Nat
          /\ damaged' \in BOOLEAN /\ faults' \in Nat
      <4>1. CASE durable
        BY <2>7, <3>2, <4>1 DEF SubmitListen, TypeOK
      <4>2. CASE ~durable
        BY <2>5, <2>7, <3>1, <4>2 DEF SubmitListen, disk, TypeOK
      <4> QED
        BY <4>1, <4>2
    <3>4. next' \in Nat \ {0}
      BY <2>7, <3>1 DEF SubmitListen
    <3>5. UNCHANGED <<durable, ui, worker, settings, locals, refused, server>>
      BY <2>7 DEF SubmitListen
    <3> QED
      BY <3>3, <3>4, <3>5 DEF TypeOK, PlacesOK, locals, settings
  <2>8. CASE Wake
    BY <2>8, DrainStep DEF Wake, TypeOK, PlacesOK, disk, locals, settings
  <2>9. ASSUME NEW l \in Nat, Deliver(l) PROVE server' \in Seq(Nat)
    BY <2>9, Delivered DEF Deliver, TypeOK
  <2>10. CASE PingDone
    <3>0. worker = "ping"
      BY <2>10 DEF PingDone
    <3>1. batch \in Seq(Nat) /\ 1 \in 1..Len(batch)
      <4>1. Len(batch) = 1 /\ batch \in Seq(Nat)
        BY <3>0 DEF TypeOK, PlacesOK
      <4> QED
        BY <4>1
    <3>5. enabled
      BY <3>0 DEF PlacesOK
    <3>2. batch[1] \in Nat
      BY <3>1, ElementOfSeq
    <3>3. server' \in Seq(Nat)
      BY <2>9, <2>10, <3>2 DEF PingDone, TypeOK
    <3>4. Drain
      BY <2>10 DEF PingDone
    <3> QED
      BY <2>10, <3>3, <3>4, <3>5, DrainStep DEF PingDone, TypeOK, PlacesOK, disk, settings
  <2>11. CASE FlushStart
    <3>1. file # <<>> => Len(file) > 0
      BY EmptySeq, LenProperties DEF TypeOK
    <3> QED
      BY <2>11, <3>1 DEF FlushStart, Fault, TypeOK, PlacesOK, disk, locals, settings
  <2>12. ASSUME worker = "post"
         PROVE  sent + 1 \in 1..Len(batch) /\ batch[sent + 1] \in Nat
    BY <2>12, ElementOfSeq, LenProperties DEF TypeOK, PlacesOK
  <2>13. CASE PostOk
    BY <2>9, <2>12, <2>13 DEF PostOk, TypeOK, PlacesOK, disk, settings
  <2>14. CASE PostFail
    <3>1. server' \in Seq(Nat) /\ faults' \in Nat
      BY <2>9, <2>12, <2>14 DEF PostFail, Fault, TypeOK
    <3>2. worker = "post" /\ worker' = IF sent = 0 THEN "wait" ELSE "remove"
      BY <2>14 DEF PostFail
    <3>3. UNCHANGED <<durable, disk, ui, settings, ring, locals, refused, next>>
      BY <2>14 DEF PostFail
    <3>4. sent # 0 => sent > 0 /\ sent <= Len(batch)
      BY <2>12, <3>2, LenProperties DEF TypeOK
    <3> QED
      BY <3>1, <3>2, <3>3, <3>4 DEF TypeOK, PlacesOK, disk, settings, locals
  <2>15. Removed(file, sent) \in Seq(Nat) /\ Len(Removed(file, sent)) <= FileCap
    BY RemovedLines, LenProperties, CapAssumption DEF TypeOK
  <2>16. \A c \in Cut(Removed(file, sent)) : c \in Seq(Nat) /\ Len(c) <= FileCap
    BY <2>15, CutLines, LenProperties, CapAssumption
  <2>17. CASE RemoveSent
    <3>1. <<>> \in Seq(Nat) /\ Len(<<>>) <= FileCap
      BY EmptySeq, CapAssumption
    <3>2. file' \in Seq(Nat) /\ Len(file') <= FileCap
      BY <2>15, <2>16, <2>17, <3>1 DEF RemoveSent, TypeOK
    <3>3. damaged' \in BOOLEAN /\ faults' \in Nat
      <4>1. damaged' = damaged \/ damaged' = TRUE
        BY <2>17 DEF RemoveSent
      <4>2. faults' = faults \/ faults' = faults + 1
        BY <2>17 DEF RemoveSent, Fault
      <4>3. damaged' \in BOOLEAN
        BY <4>1 DEF TypeOK
      <4>4. faults' \in Nat
        BY <4>2 DEF TypeOK
      <4> QED
        BY <4>3, <4>4
    <3>4. /\ worker = "remove" /\ worker' = "wait"
          /\ UNCHANGED <<durable, accepted, drops, ui, settings, ring, locals, refused,
                         server, next>>
      BY <2>17 DEF RemoveSent
    <3> QED
      BY <3>2, <3>3, <3>4 DEF TypeOK, PlacesOK, settings, locals
  <2>18. CASE Crash
    <3>1. \A lines \in Rewrites : \A c \in Cut(lines) :
            c \in Seq(Nat) /\ Len(c) <= FileCap
      <4>1. next \in Nat /\ Appended(file, next) \in Seq(Nat)
            /\ Len(Appended(file, next)) <= FileCap
        BY AppendedLines DEF TypeOK
      <4>2. \A c \in Cut(Appended(file, next)) : c \in Seq(Nat) /\ Len(c) <= FileCap
        BY <4>1, CutLines, LenProperties, CapAssumption
      <4> QED
        BY <4>2, <2>16 DEF Rewrites
    <3>2. /\ file' \in Seq(Nat) /\ Len(file') <= FileCap /\ damaged' \in BOOLEAN
          /\ faults' \in Nat
      <4>1. \/ UNCHANGED <<file, damaged>>
            \/ \E lines \in Rewrites : file' \in Cut(lines) /\ damaged' = TRUE
        BY <2>18 DEF Crash
      <4>2. file' \in Seq(Nat) /\ Len(file') <= FileCap /\ damaged' \in BOOLEAN
        BY <3>1, <4>1 DEF TypeOK
      <4>3. faults' \in Nat
        BY <2>18 DEF Crash, Fault, TypeOK
      <4> QED
        BY <4>2, <4>3
    <3>3. /\ ui' = "down" /\ worker' = "off" /\ shutdown' = FALSE /\ enabled' = FALSE
          /\ token' = NoToken /\ ring' = <<>> /\ batch' = <<>> /\ sent' = 0
          /\ wtoken' = NoToken
          /\ UNCHANGED <<durable, accepted, drops, refused, server, next>>
      BY <2>18 DEF Crash
    <3>4. <<>> \in Seq(Nat) /\ Len(<<>>) = 0 /\ 0 <= RingCap
      BY EmptySeq, CapAssumption
    <3> QED
      BY <3>2, <3>3, <3>4 DEF TypeOK, PlacesOK
  <2>19. CASE UNCHANGED vars
    BY <2>19 DEF vars, TypeOK, PlacesOK
  <2> QED
    BY <2>1, <2>2, <2>3, <2>4, <2>6, <2>7, <2>8, <2>10, <2>11, <2>13, <2>14, <2>17,
       <2>18, <2>19 DEF Next, Ui, Worker
<1> QED
  BY <1>1, <1>2, PTL DEF Spec

\* No POST is in flight without a token or with scrobbling off.
THEOREM TokenInvariant == Spec => []PostsHaveToken
<1>1. PlacesOK => PostsHaveToken
  BY DEF PlacesOK, PostsHaveToken
<1> QED
  BY <1>1, TypesInvariant, PTL
-----------------------------------------------------------------------------
(* No listen is lost. *)

\* FlushOK and NothingLost look at nothing but these.
LEMMA SameQueue ==
  ASSUME FlushOK, NothingLost,
         UNCHANGED <<file, server, accepted, drops, damaged>>,
         \/ UNCHANGED <<worker, batch, sent>>
         \/ worker' \notin {"post", "remove"}
         \/ worker = "post" /\ worker' = "remove" /\ UNCHANGED <<batch, sent>>
  PROVE  FlushOK' /\ NothingLost'
BY DEF FlushOK, NothingLost, Whole, Safe

\* A delivery leaves what was safe safe.
LEMMA DeliverKeepsSafe ==
  ASSUME TypeOK, NothingLost, NEW l \in Nat, server' = Append(server, l),
         UNCHANGED <<file, accepted, drops, damaged>>
  PROVE  NothingLost' /\ Range(server) \subseteq Range(server')
<1>1. Range(server) \subseteq Range(server')
  BY Delivered DEF TypeOK, Line
<1> QED
  BY <1>1 DEF NothingLost, Whole, Safe

\* Below the cap an append leaves every line of the file where it was.
LEMMA AppendKeepsQueue ==
  ASSUME TypeOK, FlushOK, NothingLost, AppendCapped(next),
         UNCHANGED <<server, worker, batch, sent>>
  PROVE  FlushOK' /\ NothingLost'
<1> USE DEF Line
<1> DEFINE new == Appended(file, next)
<1>1. file \in Seq(Nat) /\ next \in Nat /\ drops \in Nat /\ Len(file) \in Nat
  BY LenProperties DEF TypeOK
<1>2. /\ new \in Seq(Nat) /\ Len(new) \in Nat /\ Excess(Append(file, next)) \in Nat
      /\ Excess(Append(file, next)) = 0 =>
           /\ Len(new) = Len(file) + 1
           /\ \A i \in 1..Len(file) : new[i] = file[i]
           /\ new[Len(file) + 1] = next
  BY <1>1, AppendedLines, LenProperties
<1> HIDE DEF new
<1>3. ASSUME damaged' = TRUE PROVE FlushOK' /\ NothingLost'
  BY <1>3 DEF FlushOK, NothingLost, Whole
<1>4. ASSUME UNCHANGED disk PROVE FlushOK' /\ NothingLost'
  BY <1>4, SameQueue DEF disk
<1>5. ASSUME file' = new, accepted' = accepted \union {next},
             drops' = drops + Excess(Append(file, next)), UNCHANGED damaged
      PROVE  FlushOK' /\ NothingLost'
  <2>1. CASE ~Whole'
    BY <1>5, <2>1 DEF FlushOK, NothingLost
  <2>2. CASE Whole'
    <3>1. Whole /\ Excess(Append(file, next)) = 0
      BY <1>1, <1>2, <1>5, <2>2 DEF Whole
    <3>2. /\ Len(file') = Len(file) + 1
          /\ \A i \in 1..Len(file) : file'[i] = file[i]
          /\ file'[Len(file) + 1] = next
      BY <3>1, <1>2, <1>5
    <3>3. /\ Range(file) = {file[i] : i \in 1..Len(file)}
          /\ Range(file') = {file'[i] : i \in 1..Len(file')}
      <4>1. /\ Range(file) = {file[i] : i \in 1..Len(file)}
            /\ Range(new) = {new[i] : i \in 1..Len(new)}
        BY <1>1, <1>2, RangeEquality
      <4> QED
        BY <4>1, <1>5
    <3>4. Range(file) \subseteq Range(file') /\ next \in Range(file')
      BY <1>1, <3>2, <3>3
    <3>5. NothingLost'
      BY <1>5, <3>1, <3>4 DEF NothingLost, Safe
    <3>6. ASSUME worker \in {"post", "remove"}
          PROVE  Len(batch) <= Len(file') /\ \A i \in 1..Len(batch) : batch[i] = file'[i]
      <4>1. /\ Len(batch) \in Nat /\ Len(batch) <= Len(file)
            /\ \A i \in 1..Len(batch) : batch[i] = file[i]
        BY <3>1, <3>6, LenProperties DEF FlushOK, TypeOK
      <4> QED
        BY <4>1, <3>2, <1>1
    <3> QED
      BY <3>5, <3>6 DEF FlushOK
  <2> QED
    BY <2>1, <2>2
<1> QED
  BY <1>3, <1>4, <1>5 DEF AppendCapped, new

\* A removal by count takes out lines of the copy that were sent, as long as
\* the copy is still a prefix of the file.
LEMMA RemoveKeepsSafe ==
  ASSUME TypeOK, PlacesOK, FlushOK, NothingLost, worker = "remove",
         file' = Removed(file, sent), UNCHANGED <<server, accepted, drops, damaged>>
  PROVE  NothingLost'
<1> USE DEF Line
<1>1. /\ file \in Seq(Nat) /\ batch \in Seq(Nat) /\ sent \in Nat
      /\ Len(file) \in Nat /\ Len(batch) \in Nat /\ sent <= Len(batch)
  BY LenProperties DEF TypeOK, PlacesOK
<1>2. \A i \in sent+1..Len(file) : file[i] \in Range(file')
  BY <1>1, RemovedLines
<1>3. Range(file) = {file[i] : i \in 1..Len(file)}
  BY <1>1, RangeEquality
<1> SUFFICES ASSUME Whole', NEW l \in accepted, l \in Range(file)
             PROVE  l \in Range(file') \/ l \in Range(server)
  BY DEF NothingLost, Safe, Whole
<1>4. PICK i \in 1..Len(file) : l = file[i]
  BY <1>3
<1>5. CASE i <= sent
  <2>1. Whole /\ i \in 1..Len(batch)
    BY <1>1, <1>5 DEF Whole
  <2>2. batch[i] = file[i] /\ batch[i] \in Range(server)
    BY <1>1, <1>5, <2>1 DEF FlushOK
  <2> QED
    BY <1>4, <2>2
<1>6. CASE i > sent
  BY <1>1, <1>2, <1>4, <1>6
<1> QED
  BY <1>1, <1>5, <1>6

\* The queue invariant is inductive, given the types.
LEMMA QueueStep ==
  ASSUME TypeOK, PlacesOK, FlushOK, NothingLost, [Next]_vars
  PROVE  FlushOK' /\ NothingLost'
<1> USE DEF Line
<1>1. CASE Boot
  BY <1>1, SameQueue DEF Boot, Start, disk, locals, PlacesOK
<1>2. CASE TurnOff
  BY <1>2, SameQueue DEF TurnOff, disk, locals
<1>3. CASE Join
  BY <1>3, SameQueue DEF Join, disk
<1>4. ASSUME NEW t \in Tokens, SetToken(t) PROVE FlushOK' /\ NothingLost'
  BY <1>4, SameQueue DEF SetToken, Start, disk, locals
<1>5. CASE NowPlaying
  BY <1>5, SameQueue DEF NowPlaying, disk, locals
<1>6. CASE SubmitListen
  BY <1>6, SameQueue, AppendKeepsQueue DEF SubmitListen, disk, locals
<1>7. CASE Wake
  BY <1>7, SameQueue DEF Wake, Drain, disk
<1>8. CASE PingDone
  <2>1. worker' \notin {"post", "remove"} /\ UNCHANGED disk
    BY <1>8 DEF PingDone, Drain
  <2>2. worker = "ping" /\ batch[1] \in Nat
    <3>1. worker = "ping"
      BY <1>8 DEF PingDone
    <3>2. Len(batch) = 1 /\ batch \in Seq(Nat)
      BY <3>1 DEF TypeOK, PlacesOK
    <3>3. 1 \in 1..Len(batch)
      BY <3>2
    <3> QED
      BY <3>1, <3>2, <3>3, ElementOfSeq
  <2>3. FlushOK'
    BY <2>1 DEF FlushOK
  <2>4. UNCHANGED server \/ server' = Append(server, batch[1])
    BY <1>8 DEF PingDone, Deliver
  <2> QED
    BY <2>1, <2>2, <2>3, <2>4, SameQueue, DeliverKeepsSafe DEF disk
<1>9. CASE FlushStart
  <2>1. CASE worker' = "post"
    <3>1. /\ batch' = file /\ sent' = 0
          /\ UNCHANGED <<file, server, accepted, drops, damaged>>
      BY <1>9, <2>1 DEF FlushStart, disk
    <3>2. NothingLost'
      BY <3>1 DEF NothingLost, Whole, Safe
    <3>3. Len(file) \in Nat
      BY LenProperties DEF TypeOK
    <3> QED
      BY <3>1, <3>2, <3>3 DEF FlushOK
  <2>2. CASE worker' # "post"
    BY <1>9, <2>2, SameQueue DEF FlushStart, disk
  <2> QED
    BY <2>1, <2>2
<1>10. ASSUME worker = "post"
       PROVE  sent + 1 \in 1..Len(batch) /\ batch[sent + 1] \in Nat
  BY <1>10, ElementOfSeq, LenProperties DEF TypeOK, PlacesOK
<1>11. ASSUME worker = "post", server' = Append(server, batch[sent + 1]),
              UNCHANGED <<disk, batch>>, sent' \in {sent, sent + 1}
       PROVE  FlushOK' /\ NothingLost'
  <2>1. NothingLost' /\ Range(server) \subseteq Range(server')
    BY <1>10, <1>11, DeliverKeepsSafe DEF disk
  <2>2. batch[sent + 1] \in Range(server')
    BY <1>10, <1>11, Delivered DEF TypeOK
  <2>3. \A i \in 1..sent' : batch'[i] \in Range(server')
    <3>1. \A i \in 1..sent : batch[i] \in Range(server)
      BY <1>11 DEF FlushOK
    <3>2. \A i \in 1..sent' : i \in 1..sent \/ i = sent + 1
      BY <1>11 DEF TypeOK
    <3> QED
      BY <1>11, <2>1, <2>2, <3>1, <3>2
  <2>4. Whole' => /\ Len(batch') <= Len(file')
                  /\ \A i \in 1..Len(batch') : batch'[i] = file'[i]
    BY <1>11 DEF FlushOK, Whole, disk
  <2> QED
    BY <2>1, <2>3, <2>4 DEF FlushOK
<1>12. CASE PostOk
  BY <1>11, <1>12 DEF PostOk, Deliver
<1>13. CASE PostFail
  <2>1. CASE UNCHANGED server
    BY <1>13, <2>1, SameQueue DEF PostFail, disk, locals
  <2>2. CASE Deliver(batch[sent + 1])
    BY <1>11, <1>13, <2>2 DEF PostFail, Deliver, locals
  <2> QED
    BY <1>13, <2>1, <2>2 DEF PostFail
<1>14. CASE RemoveSent
  <2>1. FlushOK' /\ worker = "remove" /\ UNCHANGED <<server, accepted, drops>>
    BY <1>14 DEF RemoveSent, FlushOK
  <2>2. CASE damaged' = TRUE
    BY <2>1, <2>2 DEF NothingLost, Whole
  <2>3. CASE UNCHANGED <<file, damaged>>
    BY <2>1, <2>3 DEF NothingLost, Whole, Safe
  <2>4. CASE file' = Removed(file, sent) /\ UNCHANGED damaged
    BY <2>1, <2>4, RemoveKeepsSafe
  <2> QED
    BY <1>14, <2>1, <2>2, <2>3, <2>4 DEF RemoveSent
<1>15. CASE Crash
  <2>1. FlushOK' /\ UNCHANGED <<server, accepted, drops>>
    BY <1>15 DEF Crash, FlushOK
  <2>2. CASE damaged' = TRUE
    BY <2>1, <2>2 DEF NothingLost, Whole
  <2>3. CASE UNCHANGED <<file, damaged>>
    BY <2>1, <2>3 DEF NothingLost, Whole, Safe
  <2> QED
    BY <1>15, <2>1, <2>2, <2>3 DEF Crash
<1>16. CASE UNCHANGED vars
  BY <1>16, SameQueue DEF vars
<1> QED
  BY <1>1, <1>2, <1>3, <1>4, <1>5, <1>6, <1>7, <1>8, <1>9, <1>12, <1>13, <1>14, <1>15,
     <1>16 DEF Next, Ui, Worker

\* A listen the queue file took is in the file or with the server, for any
\* cap and any number of listens and faults.
THEOREM NothingLostInvariant == Spec => []NothingLost
<1>1. Init => FlushOK /\ NothingLost
  BY DEF Init, FlushOK, NothingLost
<1>2. TypeOK /\ PlacesOK /\ (FlushOK /\ NothingLost) /\ [Next]_vars
        => (FlushOK /\ NothingLost)'
  BY QueueStep
<1> QED
  BY <1>1, <1>2, TypesInvariant, PTL DEF Spec
-----------------------------------------------------------------------------
(* Where the lines of a rewritten file come from. *)

\* `new' is a stretch of `old', but for lines cut short.
PieceAt(new, old, a) ==
  \A i \in 1..Len(new) : new[i] = Torn \/ (i + a \in 1..Len(old) /\ new[i] = old[i + a])
Piece(new, old) == \E a \in Nat : PieceAt(new, old, a)

\* A sequence of numbers by its indices.
LEMMA DomainLen ==
  ASSUME NEW s \in Seq(Nat)
  PROVE  /\ DOMAIN s = 1..Len(s) /\ Len(s) \in Nat
         /\ \A i \in 1..Len(s) : s[i] \in Nat
         /\ Range(s) = {s[i] : i \in 1..Len(s)}
<1>1. Len(s) \in Nat /\ DOMAIN s = 1..Len(s)
  BY LenProperties
<1>2. \A i \in 1..Len(s) : s[i] \in Nat
  BY ElementOfSeq
<1>3. Range(s) = {s[i] : i \in 1..Len(s)}
  BY RangeEquality
<1> QED
  BY <1>1, <1>2, <1>3

\* Each line of a sequence that has grown by one.
LEMMA GrownLines ==
  ASSUME NEW lines \in Seq(Nat), NEW l \in Nat
  PROVE  /\ Append(lines, l) \in Seq(Nat) /\ Len(lines) \in Nat
         /\ Len(Append(lines, l)) = Len(lines) + 1
         /\ \A i \in 1..Len(lines) : Append(lines, l)[i] = lines[i] /\ lines[i] \in Nat
         /\ Append(lines, l)[Len(lines) + 1] = l
         /\ \A i \in 1..Len(Append(lines, l)) :
              \/ i \in 1..Len(lines) /\ Append(lines, l)[i] = lines[i]
              \/ i = Len(lines) + 1 /\ Append(lines, l)[i] = l
<1>1. /\ Append(lines, l) \in Seq(Nat) /\ Len(lines) \in Nat
      /\ Len(Append(lines, l)) = Len(lines) + 1
      /\ \A i \in 1..Len(lines) : Append(lines, l)[i] = lines[i]
      /\ Append(lines, l)[Len(lines) + 1] = l
  BY AppendProperties, LenProperties
<1>2. \A i \in 1..Len(lines) : lines[i] \in Nat
  BY ElementOfSeq
<1>3. ASSUME NEW i \in 1..Len(Append(lines, l))
      PROVE  \/ i \in 1..Len(lines) /\ Append(lines, l)[i] = lines[i]
             \/ i = Len(lines) + 1 /\ Append(lines, l)[i] = l
  <2>1. i \in 1..Len(lines) \/ i = Len(lines) + 1
    BY <1>1
  <2> QED
    BY <1>1, <2>1
<1> QED
  BY <1>1, <1>2, <1>3

\* The tail is the lines from the second on.
LEMMA TailLines ==
  ASSUME NEW lines \in Seq(Nat), lines # <<>>
  PROVE  /\ 1 \in 1..Len(lines) /\ Head(lines) = lines[1]
         /\ Tail(lines) \in Seq(Nat) /\ Tail(lines) # lines
         /\ \A i \in 1..Len(Tail(lines)) : i + 1 \in 1..Len(lines) /\ Tail(lines)[i] = lines[i + 1]
<1>1. /\ Head(lines) \in Nat /\ Tail(lines) \in Seq(Nat)
      /\ Len(Tail(lines)) = Len(lines) - 1 /\ Len(lines) \in Nat
      /\ \A i \in 1..Len(Tail(lines)) : Tail(lines)[i] = lines[i + 1]
  BY HeadTailProperties, LenProperties
<1>2. Len(lines) # 0
  BY EmptySeq
<1>3. Head(lines) = lines[1]
  OBVIOUS
<1>4. \A i \in 1..Len(Tail(lines)) : i + 1 \in 1..Len(lines)
  BY <1>1
<1>5. 1 \in 1..Len(lines)
  BY <1>1, <1>2
<1>6. Tail(lines) # lines
  <2>1. SUFFICES ASSUME Tail(lines) = lines PROVE FALSE
    OBVIOUS
  <2>2. Len(Tail(lines)) = Len(lines)
    BY <2>1, Zenon
  <2> QED
    BY <1>1, <2>2
<1> QED
  BY <1>1, <1>3, <1>4, <1>5, <1>6

\* Where the lines of a rewritten file come from.
LEMMA AppendedFrom ==
  ASSUME NEW lines \in Seq(Nat), NEW l \in Nat
  PROVE  LET x == Excess(Append(lines, l)) IN
         /\ x \in 0..Len(lines) + 1
         /\ Len(Appended(lines, l)) = Len(lines) + 1 - x
         /\ \A i \in 1..Len(lines) + 1 - x :
              Appended(lines, l)[i] = IF i + x = Len(lines) + 1 THEN l ELSE lines[i + x]
<1> DEFINE grown == Append(lines, l)
           x == Excess(grown)
<1>1. /\ grown \in Seq(Nat) /\ Len(grown) = Len(lines) + 1 /\ Len(lines) \in Nat
      /\ \A i \in 1..Len(lines) : grown[i] = lines[i]
      /\ grown[Len(lines) + 1] = l
  BY GrownLines
<1>2. x \in 0..Len(grown)
  BY <1>1, CapAssumption DEF Excess
<1> HIDE DEF grown, x
<1>3. /\ Len(DropFirst(grown, x)) = Len(grown) - x
      /\ \A i \in 1..Len(grown) - x : DropFirst(grown, x)[i] = grown[x + i]
  BY <1>1, <1>2, DropFirstLines
<1>4. Appended(lines, l) = DropFirst(grown, x)
  BY DEF Appended, grown, x
<1>5. ASSUME NEW i \in 1..Len(lines) + 1 - x
      PROVE  Appended(lines, l)[i] = IF i + x = Len(lines) + 1 THEN l ELSE lines[i + x]
  <2>1. Appended(lines, l)[i] = grown[x + i] /\ x + i = i + x /\ i + x \in 1..Len(lines) + 1
    BY <1>1, <1>2, <1>3, <1>4
  <2> QED
    BY <2>1, <1>1
<1> QED
  BY <1>1, <1>2, <1>3, <1>4, <1>5 DEF grown, x

\* After a removal each line is one of before, moved up by those removed.
LEMMA RemovedFrom ==
  ASSUME NEW lines \in Seq(Nat), NEW n \in Nat
  PROVE  \E k \in 0..Len(lines) :
           /\ k = IF n < Len(lines) THEN n ELSE Len(lines)
           /\ Len(Removed(lines, n)) = Len(lines) - k
           /\ \A i \in 1..Len(lines) - k : Removed(lines, n)[i] = lines[k + i]
<1> DEFINE k == IF n < Len(lines) THEN n ELSE Len(lines)
<1>1. Len(lines) \in Nat /\ k \in 0..Len(lines)
  BY LenProperties
<1>2. Removed(lines, n) = DropFirst(lines, k)
  BY DEF Removed
<1>3. k = IF n < Len(lines) THEN n ELSE Len(lines)
  OBVIOUS
<1> HIDE DEF k
<1>4. /\ Len(DropFirst(lines, k)) = Len(lines) - k
      /\ \A i \in 1..Len(lines) - k : DropFirst(lines, k)[i] = lines[k + i]
  BY <1>1, DropFirstLines
<1> QED
  BY <1>1, <1>2, <1>3, <1>4

\* What is cut short begins like the whole.
LEMMA CutFrom ==
  ASSUME NEW lines \in Seq(Nat), NEW c \in Cut(lines)
  PROVE  \A i \in 1..Len(c) : c[i] = Torn \/ (i \in 1..Len(lines) - 1 /\ c[i] = lines[i])
<1>1. Len(lines) \in Nat /\ \A i \in 1..Len(lines) : lines[i] \in Nat
  BY LenProperties, ElementOfSeq
<1>2. PICK k \in 0..Len(lines) - 1 :
        c \in {SubSeq(lines, 1, k), Append(SubSeq(lines, 1, k), Torn)}
  BY DEF Cut
<1> DEFINE h == SubSeq(lines, 1, k)
<1>3. h \in Seq(Nat) /\ Len(h) = k /\ \A i \in 1..k : h[i] = lines[i]
  <2>1. k \in Nat /\ \A i \in 1..k : lines[i] \in Nat
    BY <1>1
  <2>2. /\ h \in Seq(Nat)
        /\ Len(h) = IF 1 <= k THEN k-1+1 ELSE 0
        /\ \A i \in 1..k-1+1 : h[i] = lines[1+i-1]
    BY <2>1, SubSeqProperties
  <2>3. \A i \in 1..k : 1+i-1 = i
    OBVIOUS
  <2> QED
    BY <2>1, <2>2, <2>3
<1> HIDE DEF h
<1>4. CASE c = h
  BY <1>1, <1>3, <1>4
<1>5. CASE c = Append(h, Torn)
  <2>1. /\ Len(c) = k + 1 /\ \A i \in 1..k : c[i] = h[i]
        /\ c[k + 1] = Torn
    BY <1>3, <1>5, GrownLines DEF Torn
  <2> QED
    BY <2>1, <1>1, <1>3
<1> QED
  BY <1>2, <1>4, <1>5 DEF h

\* What becomes of the file: a piece of it, or of it and the new line.
LEMMA FilePieces ==
  ASSUME TypeOK
  PROVE  /\ Piece(file, file) /\ Piece(<<>>, file)
         /\ Piece(Appended(file, next), Append(file, next))
         /\ Piece(<<next>>, Append(file, next))
         /\ \A c \in Cut(Appended(file, next)) : Piece(c, file)
         /\ Piece(Removed(file, sent), file)
         /\ \A c \in Cut(Removed(file, sent)) : Piece(c, file)
<1> USE DEF Line
<1> DEFINE n == Len(file)
           x == Excess(Append(file, next))
<1>1. file \in Seq(Nat) /\ n \in Nat /\ next \in Nat /\ sent \in Nat
  BY LenProperties DEF TypeOK
<1>2. /\ Append(file, next) \in Seq(Nat)
      /\ Len(Append(file, next)) = n + 1
      /\ \A i \in 1..n : Append(file, next)[i] = file[i]
      /\ Append(file, next)[n + 1] = next
  BY <1>1, GrownLines
<1>3. /\ x \in 0..n + 1 /\ Len(Appended(file, next)) = n + 1 - x
      /\ \A i \in 1..n + 1 - x :
           Appended(file, next)[i] = IF i + x = n + 1 THEN next ELSE file[i + x]
  BY <1>1, AppendedFrom
<1>4. PICK k \in 0..n : /\ Len(Removed(file, sent)) = n - k
                        /\ \A i \in 1..n - k : Removed(file, sent)[i] = file[k + i]
  BY <1>1, RemovedFrom
<1> HIDE DEF n, x
<1>5. Piece(file, file)
  <2>1. PieceAt(file, file, 0)
    BY <1>1 DEF PieceAt, n
  <2> QED
    BY <2>1 DEF Piece
<1>6. Piece(<<>>, file)
  <2>1. PieceAt(<<>>, file, 0)
    BY DEF PieceAt
  <2> QED
    BY <2>1 DEF Piece
<1>7. Piece(Appended(file, next), Append(file, next))
  <2>1. PieceAt(Appended(file, next), Append(file, next), x)
    BY <1>1, <1>2, <1>3 DEF PieceAt
  <2> QED
    BY <2>1, <1>3 DEF Piece
<1>8. Piece(<<next>>, Append(file, next))
  <2>1. PieceAt(<<next>>, Append(file, next), n)
    BY <1>1, <1>2 DEF PieceAt
  <2> QED
    BY <2>1, <1>1 DEF Piece
<1>9. ASSUME NEW c \in Cut(Appended(file, next)) PROVE Piece(c, file)
  <2>1. Appended(file, next) \in Seq(Nat)
    BY <1>1, AppendedLines
  <2>2. \A i \in 1..Len(c) : \/ c[i] = Torn
                             \/ /\ i \in 1..Len(Appended(file, next)) - 1
                                /\ c[i] = Appended(file, next)[i]
    BY <2>1, CutFrom
  <2>3. ASSUME NEW i \in 1..Len(c) PROVE c[i] = Torn \/ (i + x \in 1..n /\ c[i] = file[i + x])
    <3>1. CASE i \in 1..Len(Appended(file, next)) - 1 /\ c[i] = Appended(file, next)[i]
      <4>1. i \in 1..n + 1 - x /\ i + x \in 1..n /\ i + x # n + 1
        BY <1>1, <1>3, <3>1
      <4> QED
        BY <1>3, <3>1, <4>1
    <3> QED
      BY <2>2, <3>1
  <2>4. PieceAt(c, file, x) /\ x \in Nat
    BY <1>3, <2>3, <1>1 DEF PieceAt, n
  <2> QED
    BY <2>4 DEF Piece
<1>10. Piece(Removed(file, sent), file)
  <2>1. PieceAt(Removed(file, sent), file, k)
    BY <1>1, <1>4 DEF PieceAt, n
  <2> QED
    BY <2>1, <1>4 DEF Piece
<1>11. ASSUME NEW c \in Cut(Removed(file, sent)) PROVE Piece(c, file)
  <2>1. Removed(file, sent) \in Seq(Nat)
    BY <1>1, RemovedLines
  <2>2. \A i \in 1..Len(c) : \/ c[i] = Torn
                             \/ /\ i \in 1..Len(Removed(file, sent)) - 1
                                /\ c[i] = Removed(file, sent)[i]
    BY <2>1, CutFrom
  <2>3. ASSUME NEW i \in 1..Len(c) PROVE c[i] = Torn \/ (i + k \in 1..n /\ c[i] = file[i + k])
    <3>1. CASE i \in 1..Len(Removed(file, sent)) - 1 /\ c[i] = Removed(file, sent)[i]
      <4>1. i \in 1..n - k /\ i + k \in 1..n /\ k + i = i + k
        BY <1>1, <1>4, <3>1
      <4> QED
        BY <1>4, <3>1, <4>1
    <3> QED
      BY <2>2, <3>1
  <2>4. PieceAt(c, file, k) /\ k \in Nat
    BY <1>4, <2>3, <1>1 DEF PieceAt, n
  <2> QED
    BY <2>4 DEF Piece
<1> QED
  BY <1>5, <1>6, <1>7, <1>8, <1>9, <1>10, <1>11
-----------------------------------------------------------------------------
(* The numbers of the listens, and the steps of each queue. *)

Flushing == worker \in {"post", "remove"}

\* Listens are numbered in the order they were submitted.
NumbersOK ==
  /\ \A i \in 1..Len(file) : file[i] < next
  /\ \A i \in 1..Len(ring) : ring[i] < next
  /\ \A i \in 1..Len(server) : server[i] < next /\ server[i] # Torn
  /\ accepted \subseteq 1..next-1
  /\ worker \in {"ping", "post", "remove"} => \A i \in 1..Len(batch) : batch[i] < next

\* The lines are in that order, but for those cut short.
Rising(lines) ==
  \A i, j \in 1..Len(lines) : i < j /\ lines[j] # Torn => lines[i] < lines[j]

\* With a queue file the ring holds pings only; without one it holds listens, in
\* order, and the server has none from the ring's first on.
RingOK ==
  /\ durable => /\ \A i \in 1..Len(ring) : ring[i] = Ping
                /\ worker = "ping" => batch[1] = Ping
  /\ ~durable =>
       /\ file = <<>> /\ accepted = {} /\ worker \notin {"flush", "post", "remove"}
       /\ Rising(ring)
       /\ \A i \in 1..Len(server), j \in 1..Len(ring) : ring[j] # Ping => server[i] < ring[j]
       /\ worker = "ping" =>
            /\ batch[1] # Ping => \A i \in 1..Len(server) : server[i] < batch[1]
            /\ \A j \in 1..Len(ring) : ring[j] # Ping => batch[1] < ring[j]

\* A piece of lines in order is in order.
LEMMA RisingPiece ==
  ASSUME NEW old \in Seq(Nat), NEW new \in Seq(Nat), Rising(old), Piece(new, old)
  PROVE  Rising(new)
<1>1. PICK a \in Nat : PieceAt(new, old, a)
  BY DEF Piece
<1>2. Len(new) \in Nat /\ Len(old) \in Nat
  BY LenProperties
<1> SUFFICES ASSUME NEW i \in 1..Len(new), NEW j \in 1..Len(new), i < j, new[j] # Torn
             PROVE  new[i] < new[j]
  BY DEF Rising
<1>3. j + a \in 1..Len(old) /\ new[j] = old[j + a]
  BY <1>1 DEF PieceAt
<1>4. CASE new[i] = Torn
  BY <1>4, DomainLen DEF Torn
<1>5. CASE new[i] # Torn
  <2>1. i + a \in 1..Len(old) /\ new[i] = old[i + a]
    BY <1>1, <1>5 DEF PieceAt
  <2>2. i + a < j + a
    BY <1>2
  <2> QED
    BY <1>3, <2>1, <2>2 DEF Rising
<1> QED
  BY <1>4, <1>5

\* Lines in order stay so when a younger one joins, or a ping.
LEMMA RisingAppend ==
  ASSUME NEW lines \in Seq(Nat), NEW l \in Nat, Rising(lines),
         \A i \in 1..Len(lines) : l # Torn => lines[i] < l
  PROVE  Rising(Append(lines, l))
<1>1. /\ Len(Append(lines, l)) = Len(lines) + 1 /\ Len(lines) \in Nat
      /\ \A i \in 1..Len(lines) : Append(lines, l)[i] = lines[i]
      /\ Append(lines, l)[Len(lines) + 1] = l
  BY GrownLines
<1> SUFFICES ASSUME NEW i \in 1..Len(lines) + 1, NEW j \in 1..Len(lines) + 1, i < j,
                    Append(lines, l)[j] # Torn
             PROVE  Append(lines, l)[i] < Append(lines, l)[j]
  BY <1>1 DEF Rising
<1>2. i \in 1..Len(lines)
  BY <1>1
<1>3. CASE j = Len(lines) + 1
  BY <1>1, <1>2, <1>3
<1>4. CASE j # Len(lines) + 1
  <2>1. j \in 1..Len(lines)
    BY <1>1, <1>4
  <2> QED
    BY <1>1, <1>2, <2>1 DEF Rising
<1> QED
  BY <1>3, <1>4

\* What is done to the file: a piece of it stays, or of it with the new line.
LEMMA FileStep ==
  ASSUME TypeOK, PlacesOK, [Next]_vars
  PROVE  \/ Piece(file', file) /\ (next' = next \/ next' = next + 1)
         \/ /\ Piece(file', Append(file, next)) /\ next' = next + 1 /\ durable
            /\ SubmitListen
<1> USE FilePieces
<1>1. CASE SubmitListen
  <2>1. CASE durable
    BY <1>1, <2>1 DEF SubmitListen, AppendCapped, disk
  <2>2. CASE ~durable
    BY <1>1, <2>2 DEF SubmitListen, disk
  <2> QED
    BY <2>1, <2>2
<1>2. CASE RemoveSent
  BY <1>2 DEF RemoveSent
<1>3. CASE Crash
  BY <1>3 DEF Crash, Rewrites
<1>4. CASE UNCHANGED <<file, next>>
  BY <1>4
<1>5. CASE Worker /\ ~RemoveSent
  BY <1>4, <1>5 DEF Worker, Wake, PingDone, FlushStart, PostOk, PostFail, disk
<1>6. CASE Ui /\ ~SubmitListen
  BY <1>4, <1>6 DEF Ui, TurnOff, Join, NowPlaying, SetToken, disk
<1>7. CASE Boot
  BY <1>4, <1>7 DEF Boot, disk
<1>8. CASE UNCHANGED vars
  BY <1>4, <1>8 DEF vars
<1> QED
  BY <1>1, <1>2, <1>3, <1>5, <1>6, <1>7, <1>8 DEF Next

\* What is done to the ring.
LEMMA RingStep ==
  ASSUME TypeOK, [Next]_vars
  PROVE  \/ UNCHANGED ring
         \/ ring' = <<>> /\ worker' = "off"
         \/ ring' = Append(ring, Ping) /\ UNCHANGED <<worker, batch, server, file, accepted, next>>
         \/ ring' = Append(ring, next) /\ ~durable /\ next' = next + 1
              /\ UNCHANGED <<worker, batch, server, file, accepted>>
         \/ /\ ring # <<>> /\ ring' = Tail(ring) /\ batch' = <<Head(ring)>> /\ worker' = "ping"
            /\ worker \in {"wait", "ping"}
<1>1. CASE SubmitListen
  BY <1>1 DEF SubmitListen, Enqueue, disk, locals
<1>2. CASE NowPlaying
  BY <1>2 DEF NowPlaying, Enqueue, disk, locals
<1>3. CASE Wake
  BY <1>3 DEF Wake, Drain
<1>4. CASE PingDone
  BY <1>4 DEF PingDone, Drain
<1>5. CASE Crash
  BY <1>5 DEF Crash
<1>6. CASE Worker /\ ~Wake /\ ~PingDone
  BY <1>6 DEF Worker, FlushStart, PostOk, PostFail, RemoveSent
<1>7. CASE Ui /\ ~SubmitListen /\ ~NowPlaying
  BY <1>7 DEF Ui, TurnOff, Join, SetToken
<1>8. CASE Boot \/ UNCHANGED vars
  BY <1>8 DEF Boot, vars
<1> QED
  BY <1>1, <1>2, <1>3, <1>4, <1>5, <1>6, <1>7, <1>8 DEF Next

\* What the server gets is a line of the worker's.
LEMMA ServerStep ==
  ASSUME TypeOK, PlacesOK, [Next]_vars
  PROVE  \/ UNCHANGED server
         \/ /\ worker = "ping" /\ batch[1] # Torn /\ server' = Append(server, batch[1])
            /\ 1 \in 1..Len(batch) /\ PingDone
         \/ /\ worker = "post" /\ batch[sent + 1] # Torn
            /\ server' = Append(server, batch[sent + 1])
            /\ sent + 1 \in 1..Len(batch)
            /\ UNCHANGED <<file, batch, accepted, next, drops, damaged>>
            /\ \/ sent' = sent + 1 /\ worker' \in {"post", "remove"} /\ UNCHANGED faults
               \/ sent' = sent /\ worker' \in {"wait", "remove"} /\ faults' = faults + 1
<1> USE DEF Line
<1>1. ASSUME worker = "post" PROVE sent + 1 \in 1..Len(batch)
  BY <1>1, LenProperties DEF TypeOK, PlacesOK
<1>2. CASE PingDone
  <2>1. UNCHANGED server \/ (Takes(1) /\ server' = Append(server, batch[1]))
    BY <1>2 DEF PingDone, Deliver
  <2>2. worker = "ping" /\ Len(batch) = 1
    BY <1>2 DEF PingDone, PlacesOK
  <2> QED
    BY <2>1, <2>2, <1>2 DEF Takes
<1>3. CASE PostOk
  BY <1>1, <1>3 DEF PostOk, Takes, Deliver, disk
<1>4. CASE PostFail
  <2>1. worker = "post"
    BY <1>4 DEF PostFail
  <2>2. \/ UNCHANGED <<server, faults>>
        \/ Takes(sent + 1) /\ Deliver(batch[sent + 1]) /\ Fault
    BY <1>4 DEF PostFail
  <2>3. worker' = (IF sent = 0 THEN "wait" ELSE "remove")
        /\ UNCHANGED <<disk, locals, next>>
    BY <1>4 DEF PostFail
  <2> QED
    BY <1>1, <2>1, <2>2, <2>3 DEF Takes, Deliver, Fault, disk, locals
<1>5. CASE Worker /\ ~PingDone /\ ~PostOk /\ ~PostFail
  BY <1>5 DEF Worker, Wake, FlushStart, RemoveSent
<1>6. CASE Ui
  BY <1>6 DEF Ui, TurnOff, Join, SetToken, NowPlaying, SubmitListen
<1>7. CASE Boot \/ Crash \/ UNCHANGED vars
  BY <1>7 DEF Boot, Crash, vars
<1> QED
  BY <1>2, <1>3, <1>4, <1>5, <1>6, <1>7 DEF Next

\* What becomes of the worker's lines.
LEMMA BatchStep ==
  ASSUME TypeOK, [Next]_vars
  PROVE  \/ worker' \notin {"ping", "post", "remove"}
         \/ /\ worker \in {"post", "remove"} /\ worker' \in {"post", "remove"}
            /\ UNCHANGED batch /\ (UNCHANGED sent \/ PostOk)
         \/ worker = "ping" /\ worker' = "ping" /\ UNCHANGED batch
         \/ ring # <<>> /\ batch' = <<Head(ring)>> /\ worker' = "ping"
         \/ /\ FlushStart /\ batch' = file /\ sent' = 0 /\ worker' = "post"
            /\ UNCHANGED <<file, server, faults, accepted, damaged, drops>>
<1>1. CASE Wake
  BY <1>1 DEF Wake, Drain
<1>2. CASE PingDone
  BY <1>2 DEF PingDone, Drain
<1>3. CASE FlushStart
  BY <1>3 DEF FlushStart, disk
<1>4. CASE PostOk
  BY <1>4 DEF PostOk
<1>5. CASE PostFail \/ RemoveSent
  BY <1>5 DEF PostFail, RemoveSent, locals
<1>6. CASE Crash
  BY <1>6 DEF Crash
<1>7. CASE Boot
  BY <1>7 DEF Boot, Start, locals
<1>8. CASE Ui
  BY <1>8 DEF Ui, TurnOff, Join, SetToken, Start, NowPlaying, SubmitListen, locals
<1>9. CASE UNCHANGED vars
  BY <1>9 DEF vars
<1> QED
  BY <1>1, <1>2, <1>3, <1>4, <1>5, <1>6, <1>7, <1>8, <1>9 DEF Next, Worker

\* Only a listen submitted joins those accepted.
LEMMA AcceptedStep ==
  ASSUME TypeOK, [Next]_vars
  PROVE  /\ UNCHANGED durable
         /\ \/ accepted' = accepted /\ (next' = next \/ next' = next + 1)
            \/ accepted' = accepted \union {next} /\ next' = next + 1 /\ SubmitListen /\ durable
<1>1. CASE SubmitListen
  BY <1>1 DEF SubmitListen, AppendCapped, disk
<1>2. CASE Worker
  BY <1>2 DEF Worker, Wake, PingDone, FlushStart, PostOk, PostFail, RemoveSent, disk
<1>3. CASE Ui /\ ~SubmitListen
  BY <1>3 DEF Ui, TurnOff, Join, SetToken, NowPlaying, disk
<1>4. CASE Boot \/ Crash \/ UNCHANGED vars
  BY <1>4 DEF Boot, Crash, vars, disk
<1> QED
  BY <1>1, <1>2, <1>3, <1>4 DEF Next

\* A piece of the file, grown or not, has lines numbered below the next one.
LEMMA PieceBelow ==
  ASSUME NEW old \in Seq(Nat), NEW new, NEW n \in Nat \ {0}, Piece(new, old),
         \A i \in 1..Len(old) : old[i] < n
  PROVE  \A i \in 1..Len(new) : new[i] < n
  BY DEF Piece, PieceAt, Torn

\* A number below n is one of those up to n - 1.
LEMMA UpTo ==
  \A n \in Nat : \A l \in Nat \ {0} : l < n => l \in 1..n-1
  OBVIOUS

\* Every step keeps the numbers below the next one.
LEMMA NumbersStep ==
  ASSUME TypeOK, PlacesOK, NumbersOK, [Next]_vars
  PROVE  NumbersOK'
<1> USE DEF Line
<1>1. /\ file \in Seq(Nat) /\ ring \in Seq(Nat) /\ batch \in Seq(Nat) /\ server \in Seq(Nat)
      /\ next \in Nat \ {0} /\ next' \in {next, next + 1}
      /\ Len(file) \in Nat /\ Len(ring) \in Nat /\ Len(batch) \in Nat /\ Len(server) \in Nat
      /\ next' \in Nat \ {0}
  <2>1. next \in Nat \ {0} /\ next' \in {next, next + 1}
    BY AcceptedStep DEF TypeOK
  <2>2. next' \in Nat \ {0}
    BY <2>1
  <2> QED
    BY <2>1, <2>2, LenProperties DEF TypeOK
<1>0. /\ \A i \in 1..Len(file) : file[i] \in Nat
      /\ \A i \in 1..Len(ring) : ring[i] \in Nat
      /\ \A i \in 1..Len(batch) : batch[i] \in Nat
      /\ \A i \in 1..Len(server) : server[i] \in Nat
  BY <1>1, ElementOfSeq
<1>7. \A x \in Nat : x < next => x < next'
  <2>1. CASE next' = next
    BY <2>1
  <2>2. CASE next' = next + 1
    BY <1>1, <2>2
  <2> QED
    BY <1>1, <2>1, <2>2
<1>8. /\ \A i \in 1..Len(ring) : ring[i] < next
      /\ \A i \in 1..Len(server) : server[i] < next /\ server[i] # Torn
      /\ \A l \in accepted : l \in Nat \ {0} /\ l < next
  BY <1>1 DEF NumbersOK
<1>2. \A i \in 1..Len(file') : file'[i] < next'
  <2>1. CASE Piece(file', file) /\ (next' = next \/ next' = next + 1)
    <3>1. \A i \in 1..Len(file) : file[i] < next'
      BY <1>0, <1>1, <2>1 DEF NumbersOK
    <3> QED
      BY <1>1, <2>1, <3>1, PieceBelow
  <2>2. CASE Piece(file', Append(file, next)) /\ next' = next + 1
    <3>1. Append(file, next) \in Seq(Nat) /\ \A i \in 1..Len(Append(file, next)) :
            (i \in 1..Len(file) /\ Append(file, next)[i] = file[i]) \/ Append(file, next)[i] = next
      BY <1>1, GrownLines
    <3>2. \A i \in 1..Len(Append(file, next)) : Append(file, next)[i] < next + 1
      BY <1>0, <1>1, <3>1 DEF NumbersOK
    <3> QED
      BY <1>1, <2>2, <3>1, <3>2, PieceBelow
  <2> QED
    BY <2>1, <2>2, FileStep
<1>3. \A i \in 1..Len(ring') : ring'[i] < next'
  <2>1. ASSUME NEW e \in Nat, e < next', ring' = Append(ring, e)
        PROVE  \A i \in 1..Len(ring') : ring'[i] < next'
    <3>1. \A i \in 1..Len(Append(ring, e)) :
            (i \in 1..Len(ring) /\ Append(ring, e)[i] = ring[i]) \/ Append(ring, e)[i] = e
      BY <1>1, <2>1, GrownLines
    <3> QED
      BY <1>0, <1>7, <1>8, <2>1, <3>1
  <2>2. CASE ring # <<>> /\ ring' = Tail(ring)
    <3>1. \A i \in 1..Len(ring') : i + 1 \in 1..Len(ring) /\ ring'[i] = ring[i + 1]
      BY <1>1, <2>2, TailLines
    <3> QED
      BY <1>0, <1>7, <1>8, <3>1
  <2>3. CASE UNCHANGED ring \/ ring' = <<>>
    BY <2>3, <1>0, <1>1 DEF NumbersOK
  <2> QED
    BY <1>1, <2>1, <2>2, <2>3, RingStep DEF Ping
<1>4. \A i \in 1..Len(server') : server'[i] < next' /\ server'[i] # Torn
  <2>1. ASSUME NEW e \in Nat, e < next, e # Torn, server' = Append(server, e)
        PROVE  \A i \in 1..Len(server') : server'[i] < next' /\ server'[i] # Torn
    <3>0. e < next'
      BY <1>7, <2>1
    <3>1. \A i \in 1..Len(Append(server, e)) :
            (i \in 1..Len(server) /\ Append(server, e)[i] = server[i]) \/ Append(server, e)[i] = e
      BY <1>1, GrownLines
    <3>2. ASSUME NEW i \in 1..Len(Append(server, e))
          PROVE  Append(server, e)[i] < next' /\ Append(server, e)[i] # Torn
      <4>1. CASE i \in 1..Len(server) /\ Append(server, e)[i] = server[i]
        <5>1. server[i] < next' /\ server[i] # Torn
          BY <1>0, <1>7, <1>8, <4>1
        <5> QED
          BY <4>1, <5>1
      <4> QED
        BY <2>1, <3>0, <3>1, <4>1
    <3> QED
      BY <2>1, <3>2
  <2>2. CASE UNCHANGED server
    BY <2>2, <1>0, <1>1 DEF NumbersOK
  <2>3. CASE /\ worker = "ping" /\ batch[1] # Torn /\ server' = Append(server, batch[1])
             /\ 1 \in 1..Len(batch)
    <3>1. batch[1] \in Nat /\ batch[1] < next
      BY <1>0, <2>3 DEF NumbersOK
    <3> QED
      BY <2>1, <2>3, <3>1
  <2>4. CASE /\ worker = "post" /\ batch[sent + 1] # Torn
             /\ server' = Append(server, batch[sent + 1])
             /\ sent + 1 \in 1..Len(batch)
    <3>1. batch[sent + 1] \in Nat /\ batch[sent + 1] < next
      BY <1>0, <2>4 DEF NumbersOK
    <3> QED
      BY <2>1, <2>4, <3>1
  <2> QED
    BY <2>2, <2>3, <2>4, ServerStep
<1>5. accepted' \subseteq 1..next'-1
  <2>1. \A l \in Nat \ {0} : l < next' => l \in 1..next'-1
    BY <1>1, UpTo
  <2>2. \A l \in accepted : l \in 1..next'-1
    BY <1>7, <1>8, <2>1
  <2>3. accepted' = accepted \/ (accepted' = accepted \union {next} /\ next' = next + 1)
    BY AcceptedStep
  <2>4. next' = next + 1 => next \in 1..next'-1
    BY <1>1
  <2> QED
    BY <2>2, <2>3, <2>4
<1>6. ASSUME worker' \in {"ping", "post", "remove"}
      PROVE  \A i \in 1..Len(batch') : batch'[i] < next'
  <2>1. CASE UNCHANGED batch /\ worker \in {"ping", "post", "remove"}
    BY <2>1, <1>0, <1>1 DEF NumbersOK
  <2>2. CASE ring # <<>> /\ batch' = <<Head(ring)>>
    <3>1. 1 \in 1..Len(ring) /\ Head(ring) = ring[1]
      BY <1>1, <2>2, TailLines
    <3> QED
      BY <1>0, <1>1, <2>2, <3>1 DEF NumbersOK
  <2>3. CASE batch' = file
    BY <2>3, <1>0, <1>1 DEF NumbersOK
  <2> QED
    BY <1>6, <2>1, <2>2, <2>3, BatchStep
<1> QED
  BY <1>2, <1>3, <1>4, <1>5, <1>6 DEF NumbersOK

\* Without a queue file there is no outbox.
LEMMA NoFileStep ==
  ASSUME TypeOK, [Next]_vars, ~durable, file = <<>>, accepted = {},
         worker \notin {"flush", "post", "remove"}
  PROVE  file' = <<>> /\ accepted' = {} /\ worker' \notin {"flush", "post", "remove"}
<1>1. CASE SubmitListen
  BY <1>1 DEF SubmitListen, disk
<1>2. CASE Wake \/ PingDone
  BY <1>2 DEF Wake, PingDone, Drain, disk
<1>3. CASE Worker /\ ~Wake /\ ~PingDone
  BY <1>3 DEF Worker, FlushStart, PostOk, PostFail, RemoveSent
<1>4. CASE Ui /\ ~SubmitListen
  BY <1>4 DEF Ui, TurnOff, Join, SetToken, Start, NowPlaying, disk
<1>5. CASE Boot \/ UNCHANGED vars
  BY <1>5 DEF Boot, Start, vars, disk
<1>6. CASE Crash
  BY <1>6 DEF Crash, Rewrites
<1> QED
  BY <1>1, <1>2, <1>3, <1>4, <1>5, <1>6 DEF Next

\* A ring entry comes into the worker's hands only by leaving the ring.
LEMMA DrainOnly ==
  ASSUME TypeOK, [Next]_vars, worker' = "ping"
  PROVE  (UNCHANGED batch /\ worker = "ping") \/ (ring # <<>> /\ ring' = Tail(ring))
<1>1. CASE Wake \/ PingDone
  BY <1>1 DEF Wake, PingDone, Drain
<1>2. CASE Worker /\ ~Wake /\ ~PingDone
  BY <1>2 DEF Worker, FlushStart, PostOk, PostFail, RemoveSent
<1>3. CASE Ui
  BY <1>3 DEF Ui, TurnOff, Join, SetToken, Start, NowPlaying, SubmitListen, locals
<1>4. CASE Boot \/ Crash \/ UNCHANGED vars
  BY <1>4 DEF Boot, Crash, Start, vars, locals
<1> QED
  BY <1>1, <1>2, <1>3, <1>4 DEF Next

\* Every step keeps what the ring holds.
LEMMA RingInvStep ==
  ASSUME TypeOK, TypeOK', PlacesOK, NumbersOK, RingOK, [Next]_vars
  PROVE  RingOK'
<1> USE DEF Line
<1>1. /\ ring \in Seq(Nat) /\ batch \in Seq(Nat) /\ server \in Seq(Nat) /\ next \in Nat \ {0}
      /\ Len(ring) \in Nat /\ Len(server) \in Nat
      /\ UNCHANGED durable
  BY AcceptedStep, LenProperties DEF TypeOK
<1>0. /\ \A i \in 1..Len(ring) : ring[i] \in Nat
      /\ \A i \in 1..Len(server) : server[i] \in Nat
  BY <1>1, ElementOfSeq
<1>2. ring # <<>> => /\ Head(ring) = ring[1] /\ 1 \in 1..Len(ring) /\ Tail(ring) # ring
                     /\ \A i \in 1..Len(Tail(ring)) :
                          i + 1 \in 1..Len(ring) /\ Tail(ring)[i] = ring[i + 1]
  BY <1>1, TailLines
<1>3. \A e \in Nat : \A i \in 1..Len(Append(ring, e)) :
        (i \in 1..Len(ring) /\ Append(ring, e)[i] = ring[i]) \/ Append(ring, e)[i] = e
  BY <1>1, GrownLines
<1>4. ASSUME durable
      PROVE  /\ \A i \in 1..Len(ring') : ring'[i] = Ping
             /\ worker' = "ping" => batch'[1] = Ping
  <2>0. \A i \in 1..Len(ring) : ring[i] = Ping
    BY <1>4 DEF RingOK
  <2>1. \A i \in 1..Len(ring') : ring'[i] = Ping
    <3>1. CASE ring' = Append(ring, Ping)
      BY <2>0, <3>1, <1>1, <1>3 DEF Ping
    <3>2. CASE ring # <<>> /\ ring' = Tail(ring)
      BY <2>0, <3>2, <1>1, <1>2
    <3> QED
      BY <2>0, <3>1, <3>2, <1>4, RingStep
  <2>2. worker' = "ping" => batch'[1] = Ping
    BY <2>0, <1>2, <1>4, BatchStep DEF RingOK
  <2> QED
    BY <2>1, <2>2
<1>5. ASSUME ~durable
      PROVE  /\ Rising(ring')
             /\ \A i \in 1..Len(server'), j \in 1..Len(ring') :
                  ring'[j] # Ping => server'[i] < ring'[j]
             /\ worker' = "ping" =>
                  /\ batch'[1] # Ping => \A i \in 1..Len(server') : server'[i] < batch'[1]
                  /\ \A j \in 1..Len(ring') : ring'[j] # Ping => batch'[1] < ring'[j]
  <2> USE DEF Ping, Torn
  <2>0. /\ Rising(ring) /\ worker \notin {"flush", "post", "remove"}
        /\ \A i \in 1..Len(server), j \in 1..Len(ring) : ring[j] # Ping => server[i] < ring[j]
        /\ worker = "ping" =>
             /\ batch[1] # Ping => \A i \in 1..Len(server) : server[i] < batch[1]
             /\ \A j \in 1..Len(ring) : ring[j] # Ping => batch[1] < ring[j]
        /\ worker' \notin {"flush", "post", "remove"}
    BY <1>5, NoFileStep DEF RingOK
  <2>1. CASE UNCHANGED server
    <3>1. CASE UNCHANGED ring
      <4>1. (UNCHANGED batch /\ worker = "ping") \/ worker' # "ping"
        BY <1>2, <2>0, <3>1, DrainOnly
      <4> QED
        BY <1>2, <2>0, <2>1, <3>1, <4>1
    <3>2. CASE ring' = <<>> /\ worker' = "off"
      BY <3>2 DEF Rising
    <3>3. CASE ring' = Append(ring, Ping) /\ UNCHANGED <<worker, batch>>
      <4>1. Rising(ring')
        BY <1>1, <2>0, <3>3, RisingAppend
      <4>2. \A j \in 1..Len(ring') : ring'[j] # Ping => j \in 1..Len(ring) /\ ring'[j] = ring[j]
        BY <1>1, <1>3, <3>3
      <4> QED
        BY <2>0, <2>1, <3>3, <4>1, <4>2
    <3>4. CASE ring' = Append(ring, next) /\ UNCHANGED <<worker, batch>>
      <4>1. Rising(ring')
        BY <1>1, <2>0, <3>4, RisingAppend DEF NumbersOK
      <4>2. \A j \in 1..Len(ring') : \/ j \in 1..Len(ring) /\ ring'[j] = ring[j]
                                     \/ ring'[j] = next
        BY <1>1, <1>3, <3>4
      <4>3. worker = "ping" => batch[1] < next
        <5>1. worker = "ping" => 1 \in 1..Len(batch)
          BY DEF PlacesOK
        <5> QED
          BY <5>1 DEF NumbersOK
      <4> QED
        BY <2>0, <2>1, <3>4, <4>1, <4>2, <4>3 DEF NumbersOK
    <3>5. CASE ring # <<>> /\ ring' = Tail(ring) /\ batch' = <<Head(ring)>> /\ worker' = "ping"
      <4>1. \A j \in 1..Len(ring') : j + 1 \in 1..Len(ring) /\ ring'[j] = ring[j + 1] /\ 1 < j + 1
        BY <1>1, <1>2, <3>5
      <4>2. batch'[1] = ring[1] /\ 1 \in 1..Len(ring)
        BY <1>2, <3>5
      <4>3. Rising(ring')
        <5> SUFFICES ASSUME NEW i \in 1..Len(ring'), NEW j \in 1..Len(ring'), i < j, ring'[j] # Torn
                     PROVE  ring'[i] < ring'[j]
          BY DEF Rising
        <5>1. i + 1 < j + 1
          OBVIOUS
        <5> QED
          BY <2>0, <4>1, <5>1 DEF Rising
      <4>4. \A j \in 1..Len(ring') : ring'[j] # Ping => batch'[1] < ring'[j]
        BY <2>0, <4>1, <4>2 DEF Rising
      <4> QED
        BY <2>0, <2>1, <4>1, <4>2, <4>3, <4>4
    <3> QED
      BY <3>1, <3>2, <3>3, <3>4, <3>5, RingStep
  <2>2. CASE /\ worker = "ping" /\ batch[1] # Torn /\ server' = Append(server, batch[1])
             /\ 1 \in 1..Len(batch) /\ PingDone
    <3>1. batch[1] \in Nat
      BY <1>1, <2>2, ElementOfSeq
    <3>3. \A i \in 1..Len(server') :
            (i \in 1..Len(server) /\ server'[i] = server[i]) \/ server'[i] = batch[1]
      BY <1>1, <2>2, <3>1, GrownLines
    <3>4. CASE ring = <<>>
      <4>1. ring' = <<>> /\ worker' # "ping"
        BY <2>2, <3>4 DEF PingDone, Drain
      <4> QED
        BY <4>1 DEF Rising
    <3>5. CASE ring # <<>>
      <4>0. ring' = Tail(ring) /\ batch' = <<Head(ring)>>
        BY <2>2, <3>5 DEF PingDone, Drain
      <4>1. \A j \in 1..Len(ring') : j + 1 \in 1..Len(ring) /\ ring'[j] = ring[j + 1] /\ 1 < j + 1
        BY <1>1, <1>2, <3>5, <4>0
      <4>2. batch'[1] = ring[1] /\ 1 \in 1..Len(ring)
        BY <1>2, <3>5, <4>0
      <4>3. Rising(ring')
        <5> SUFFICES ASSUME NEW i \in 1..Len(ring'), NEW j \in 1..Len(ring'), i < j, ring'[j] # Torn
                     PROVE  ring'[i] < ring'[j]
          BY DEF Rising
        <5>1. i + 1 < j + 1
          OBVIOUS
        <5> QED
          BY <2>0, <4>1, <5>1 DEF Rising
      <4>4. \A j \in 1..Len(ring') : ring'[j] # Ping => batch'[1] < ring'[j]
        BY <2>0, <4>1, <4>2 DEF Rising
      <4>5. \A j \in 1..Len(ring) : ring[j] # Ping => batch[1] < ring[j]
        BY <2>0, <2>2
      <4>6. \A i \in 1..Len(server'), j \in 1..Len(ring) : ring[j] # Ping => server'[i] < ring[j]
        BY <2>0, <3>3, <4>5
      <4> QED
        BY <4>1, <4>2, <4>3, <4>4, <4>6
    <3> QED
      BY <3>4, <3>5
  <2>3. worker # "post"
    BY <2>0
  <2> QED
    BY <2>1, <2>2, <2>3, ServerStep
<1>6. ~durable => file' = <<>> /\ accepted' = {} /\ worker' \notin {"flush", "post", "remove"}
  BY NoFileStep DEF RingOK
<1> QED
  BY <1>1, <1>4, <1>5, <1>6 DEF RingOK
-----------------------------------------------------------------------------
(* Oldest first, and once. *)

\* What may be sent next: of a line that is due the server has nothing younger, but where it had the
\* line before.
Due == {l \in Nat : \A i \in 1..Len(server) : l < server[i] => \E k \in 1..i-1 : server[k] = l}

\* The file and a flush's copy of it are in order, and what is still to be sent is due;
\* a line of the file is one of the copy's or younger than all of them.
OrderOK ==
  /\ Rising(file)
  /\ \A i \in 1..Len(file) : file[i] # Torn => file[i] \in Due
  /\ Flushing =>
       /\ Rising(batch)
       /\ \A q \in sent+1..Len(batch) : batch[q] # Torn => batch[q] \in Due
       /\ \A i \in 1..Len(file) : file[i] # Torn =>
             \/ \E q \in 1..Len(batch) : batch[q] = file[i]
             \/ \A q \in 1..Len(batch) : batch[q] < file[i]

\* A delivery leaves a line due that is no younger, or that the server has.
LEMMA DueStep ==
  ASSUME server \in Seq(Nat), NEW m \in Nat, server' = Append(server, m),
         NEW l \in Nat, l \in Due, m <= l \/ l \in Range(server)
  PROVE  l \in Due'
<1>1. /\ Len(server) \in Nat /\ \A i \in 1..Len(server) : server[i] \in Nat
      /\ \A i \in 1..Len(server') : \/ i \in 1..Len(server) /\ server'[i] = server[i]
                                    \/ i = Len(server) + 1 /\ server'[i] = m
      /\ \A i \in 1..Len(server) : server'[i] = server[i]
      /\ Range(server) = {server[i] : i \in 1..Len(server)}
  BY GrownLines, DomainLen
<1> SUFFICES ASSUME NEW i \in 1..Len(server'), l < server'[i]
             PROVE  \E k \in 1..i-1 : server'[k] = l
  BY DEF Due
<1>2. CASE i \in 1..Len(server) /\ server'[i] = server[i]
  <2>1. PICK k \in 1..i-1 : server[k] = l
    BY <1>2 DEF Due
  <2>2. k \in 1..Len(server)
    BY <1>1, <1>2
  <2> QED
    BY <1>1, <2>1, <2>2
<1>3. CASE i = Len(server) + 1 /\ server'[i] = m
  <2>1. l \in Range(server)
    BY <1>3
  <2>2. PICK k \in 1..Len(server) : server[k] = l
    BY <1>1, <2>1
  <2>3. k \in 1..i-1 /\ server'[k] = l
    BY <1>1, <1>3, <2>2
  <2> QED
    BY <2>3
<1> QED
  BY <1>1, <1>2, <1>3

\* What the server gets is due, and with no fault so far new to it.
OnceOK ==
  faults = 0 =>
    /\ \A p \in 1..Len(file) : file[p] # Torn
    /\ Flushing =>
         /\ \A p \in 1..Len(file) : file[p] \in Range(server) => p <= sent
         /\ \A q \in sent+1..Len(batch) : batch[q] \notin Range(server)
         /\ \A p \in 1..Len(file), q \in 1..Len(batch) : file[p] = batch[q] => p <= q
    /\ ~Flushing => \A p \in 1..Len(file) : file[p] \notin Range(server)

\* Every step keeps OrderOK.
LEMMA OrderStep ==
  ASSUME TypeOK, TypeOK', PlacesOK, NumbersOK, NumbersOK', RingOK, FlushOK, OrderOK, [Next]_vars
  PROVE  OrderOK'
<1> USE DEF Line
<1>1. /\ file \in Seq(Nat) /\ batch \in Seq(Nat) /\ server \in Seq(Nat) /\ file' \in Seq(Nat)
      /\ next \in Nat \ {0} /\ sent \in Nat
      /\ Len(file) \in Nat /\ Len(batch) \in Nat /\ Len(server) \in Nat
      /\ \A i \in 1..Len(file) : file[i] \in Nat
      /\ \A i \in 1..Len(batch) : batch[i] \in Nat
      /\ \A i \in 1..Len(server) : server[i] \in Nat
      /\ Range(server) = {server[i] : i \in 1..Len(server)}
  BY DomainLen DEF TypeOK
<1>2. /\ Rising(file)
      /\ \A i \in 1..Len(file) : file[i] # Torn => file[i] \in Due
  BY DEF OrderOK
\* The lines of the file come from it or are the new one.
<1>3. /\ Rising(file')
      /\ \A i \in 1..Len(file') :
           \/ file'[i] = Torn
           \/ \E j \in 1..Len(file) : file'[i] = file[j]
           \/ file'[i] = next /\ durable /\ SubmitListen
  <2>1. CASE Piece(file', file)
    <3>1. Rising(file')
      BY <1>1, <1>2, <2>1, RisingPiece
    <3> QED
      BY <2>1, <3>1 DEF Piece, PieceAt
  <2>2. CASE Piece(file', Append(file, next)) /\ durable /\ SubmitListen
    <3>1. Append(file, next) \in Seq(Nat)
          /\ \A i \in 1..Len(Append(file, next)) :
            (i \in 1..Len(file) /\ Append(file, next)[i] = file[i]) \/ Append(file, next)[i] = next
      BY <1>1, GrownLines
    <3>2. Rising(Append(file, next))
      BY <1>1, <1>2, RisingAppend DEF NumbersOK
    <3>3. Rising(file')
      BY <1>1, <2>2, <3>1, <3>2, RisingPiece
    <3>4. \A i \in 1..Len(file') : file'[i] = Torn \/ \E j \in 1..Len(Append(file, next)) :
                                                         file'[i] = Append(file, next)[j]
      BY <2>2 DEF Piece, PieceAt
    <3> QED
      BY <2>2, <3>1, <3>3, <3>4
  <2> QED
    BY <2>1, <2>2, FileStep
<1>4. next \in Due
  BY <1>1 DEF Due, NumbersOK
<1>5. SubmitListen => UNCHANGED <<server, worker, batch, sent>>
  BY DEF SubmitListen, locals
<1>6. CASE UNCHANGED server
  <2>1. Due \subseteq Due'
    BY <1>6 DEF Due
  <2>2. \A i \in 1..Len(file') : file'[i] # Torn => file'[i] \in Due'
    BY <1>2, <1>3, <1>4, <2>1
  <2>3. ASSUME Flushing, UNCHANGED batch, sent' \in {sent, sent + 1}
        PROVE  /\ Rising(batch')
               /\ \A q \in sent'+1..Len(batch') : batch'[q] # Torn => batch'[q] \in Due'
               /\ \A i \in 1..Len(file') : file'[i] # Torn =>
                   \/ \E q \in 1..Len(batch') : batch'[q] = file'[i]
                   \/ \A q \in 1..Len(batch') : batch'[q] < file'[i]
    <3>1. /\ Rising(batch)
          /\ \A q \in sent+1..Len(batch) : batch[q] # Torn => batch[q] \in Due
          /\ \A i \in 1..Len(file) : file[i] # Torn =>
               \/ \E q \in 1..Len(batch) : batch[q] = file[i]
               \/ \A q \in 1..Len(batch) : batch[q] < file[i]
      BY <2>3 DEF OrderOK
    <3>2. \A q \in sent'+1..Len(batch) : q \in sent+1..Len(batch)
      <4>1. CASE sent' = sent
        BY <4>1
      <4>2. CASE sent' = sent + 1
        <5>1. \A q \in (sent+1)+1..Len(batch) : q \in sent+1..Len(batch)
          BY <1>1
        <5> QED
          BY <4>2, <5>1
      <4> QED
        BY <2>3, <4>1, <4>2
    <3>3. \A q \in 1..Len(batch) : batch[q] < next
      BY <2>3 DEF NumbersOK, Flushing
    <3>4. \A i \in 1..Len(file') : file'[i] # Torn =>
               \/ \E q \in 1..Len(batch) : batch[q] = file'[i]
               \/ \A q \in 1..Len(batch) : batch[q] < file'[i]
      BY <1>3, <3>1, <3>3
    <3> QED
      BY <2>1, <2>3, <3>1, <3>2, <3>4
  <2>4. CASE FlushStart /\ batch' = file /\ sent' = 0 /\ UNCHANGED file
    BY <1>1, <1>2, <2>1, <2>2, <2>4 DEF OrderOK
  <2>5. CASE ~Flushing'
    BY <1>3, <2>2, <2>5 DEF OrderOK
  <2>6. CASE Flushing /\ UNCHANGED batch /\ sent' \in {sent, sent + 1}
    BY <1>3, <2>2, <2>3, <2>6 DEF OrderOK
  <2>7. PostOk => sent' = sent + 1
    BY DEF PostOk
  <2> QED
    BY <2>4, <2>5, <2>6, <2>7, BatchStep DEF Flushing
<1>7. CASE worker = "ping" /\ batch[1] # Torn /\ PingDone
  <2>1. ~durable
    BY <1>7 DEF RingOK, Torn, Ping
  <2>2. file' = <<>> /\ ~Flushing'
    BY <2>1, NoFileStep DEF RingOK, Flushing
  <2> QED
    BY <2>2 DEF OrderOK, Rising
<1>8. CASE /\ worker = "post" /\ batch[sent + 1] # Torn /\ server' = Append(server, batch[sent + 1])
           /\ sent + 1 \in 1..Len(batch)
           /\ UNCHANGED <<file, batch>> /\ sent' \in {sent, sent + 1}
  <2> DEFINE m == batch[sent + 1]
  <2>1. m \in Nat /\ m # Torn /\ server' = Append(server, m) /\ Flushing
    BY <1>1, <1>8 DEF Flushing
  <2>2. /\ Rising(batch)
        /\ \A q \in sent+1..Len(batch) : batch[q] # Torn => batch[q] \in Due
        /\ \A i \in 1..Len(file) : file[i] # Torn =>
             \/ \E q \in 1..Len(batch) : batch[q] = file[i]
             \/ \A q \in 1..Len(batch) : batch[q] < file[i]
        /\ \A q \in 1..sent : batch[q] \in Range(server)
    BY <2>1 DEF OrderOK, FlushOK, Flushing
  <2>3. ASSUME NEW q \in sent+1..Len(batch), batch[q] # Torn PROVE m <= batch[q]
    <3>1. q \in 1..Len(batch) /\ batch[q] \in Nat
      BY <1>1
    <3>2. CASE q = sent + 1
      BY <3>1, <3>2
    <3>3. CASE q # sent + 1
      <4>1. sent + 1 < q
        BY <1>1, <3>3
      <4>2. m < batch[q]
        BY <1>8, <2>2, <2>3, <3>1, <4>1 DEF Rising
      <4> QED
        BY <2>1, <3>1, <4>2
    <3> QED
      BY <3>2, <3>3
  <2>4. ASSUME NEW i \in 1..Len(file), file[i] # Torn
        PROVE  m <= file[i] \/ file[i] \in Range(server)
    <3>1. CASE \A q \in 1..Len(batch) : batch[q] < file[i]
      BY <1>1, <1>8, <3>1
    <3>2. ASSUME NEW q \in 1..Len(batch), batch[q] = file[i]
          PROVE  m <= file[i] \/ file[i] \in Range(server)
      <4>1. q \in 1..sent \/ q \in sent+1..Len(batch)
        BY <1>1
      <4> QED
        BY <2>2, <2>3, <2>4, <3>2, <4>1
    <3> QED
      BY <2>2, <2>4, <3>1, <3>2
  <2> HIDE DEF m
  <2>5. \A i \in 1..Len(file) : file[i] # Torn => file[i] \in Due'
    BY <1>1, <1>2, <2>1, <2>4, DueStep
  <2>6. \A q \in sent+1..Len(batch) : q \in 1..Len(batch) /\ (batch[q] # Torn => batch[q] \in Due')
    <3>1. \A q \in sent+1..Len(batch) : q \in 1..Len(batch)
      BY <1>1
    <3> QED
      BY <1>1, <2>1, <2>2, <2>3, <3>1, DueStep
  <2>7. \A q \in sent'+1..Len(batch) : q \in sent+1..Len(batch)
    BY <1>1, <1>8
  <2> QED
    BY <1>2, <1>8, <2>2, <2>5, <2>6, <2>7 DEF OrderOK
<1> QED
  BY <1>6, <1>7, <1>8, ServerStep

\* The server gets what is due.
LEMMA InOrderStep ==
  ASSUME TypeOK, PlacesOK, NumbersOK, RingOK, OrderOK, InOrder, [Next]_vars
  PROVE  InOrder'
<1> USE DEF Line
<1>1. /\ batch \in Seq(Nat) /\ server \in Seq(Nat) /\ sent \in Nat
      /\ Len(batch) \in Nat /\ Len(server) \in Nat /\ DOMAIN server = 1..Len(server)
      /\ \A i \in 1..Len(batch) : batch[i] \in Nat
  BY DomainLen DEF TypeOK
<1>2. ASSUME NEW m \in Nat, m \in Due, server' = Append(server, m)
      PROVE  InOrder'
  <2>1. /\ \A i \in 1..Len(server') : \/ i \in 1..Len(server) /\ server'[i] = server[i]
                                      \/ i = Len(server) + 1 /\ server'[i] = m
        /\ \A i \in 1..Len(server) : server'[i] = server[i]
        /\ server' \in Seq(Nat) /\ Len(server') = Len(server) + 1
    BY <1>1, <1>2, GrownLines
  <2>2. DOMAIN server' = 1..Len(server')
    BY <2>1, DomainLen
  <2> SUFFICES ASSUME NEW i \in 1..Len(server'), NEW j \in 1..Len(server'),
                      i < j, server'[j] < server'[i]
               PROVE  \E k \in 1..i-1 : server'[k] = server'[j]
    BY <2>2 DEF InOrder
  <2>3. i \in 1..Len(server) /\ server'[i] = server[i]
    BY <1>1, <2>1
  <2>4. \A k \in 1..i-1 : server'[k] = server[k]
    <3>1. \A k \in 1..i-1 : k \in 1..Len(server)
      BY <1>1, <2>3
    <3> QED
      BY <2>1, <3>1
  <2>5. CASE j \in 1..Len(server) /\ server'[j] = server[j]
    <3>1. \E k \in 1..i-1 : server[k] = server[j]
      BY <1>1, <2>3, <2>5 DEF InOrder
    <3> QED
      BY <2>4, <2>5, <3>1
  <2>6. CASE server'[j] = m
    <3>1. \E k \in 1..i-1 : server[k] = m
      BY <1>2, <2>3, <2>6 DEF Due
    <3> QED
      BY <2>4, <2>6, <3>1
  <2> QED
    BY <2>1, <2>5, <2>6
<1>3. CASE UNCHANGED server
  BY <1>3 DEF InOrder
<1>4. CASE /\ worker = "ping" /\ batch[1] # Torn /\ server' = Append(server, batch[1])
           /\ 1 \in 1..Len(batch)
  <2>1. \A i \in 1..Len(server) : server[i] < batch[1]
    BY <1>4 DEF RingOK, Torn, Ping
  <2>2. \A i \in 1..Len(server) : server[i] \in Nat
    BY <1>1, ElementOfSeq
  <2>3. batch[1] \in Nat /\ batch[1] \in Due
    BY <1>1, <1>4, <2>1, <2>2 DEF Due
  <2> QED
    BY <1>2, <1>4, <2>3
<1>5. CASE /\ worker = "post" /\ batch[sent + 1] # Torn /\ server' = Append(server, batch[sent + 1])
           /\ sent + 1 \in 1..Len(batch)
  <2>1. sent + 1 \in sent+1..Len(batch)
    BY <1>1, <1>5
  <2>2. batch[sent + 1] \in Nat /\ batch[sent + 1] \in Due
    BY <1>1, <1>5, <2>1 DEF OrderOK, Flushing
  <2> QED
    BY <1>2, <1>5, <2>2
<1> QED
  BY <1>3, <1>4, <1>5, ServerStep

\* Without a fault, and without damage, a rewrite does what it is for.
LEMMA QuietStep ==
  ASSUME TypeOK, [Next]_vars, faults' = 0 \/ ~damaged'
  PROVE  \/ UNCHANGED <<file, accepted, drops, damaged>>
         \/ /\ file' = Appended(file, next) /\ accepted' = accepted \union {next}
            /\ drops' = drops + Excess(Append(file, next))
            /\ UNCHANGED <<server, worker, batch, sent, damaged>>
         \/ /\ file' = Removed(file, sent) /\ worker = "remove" /\ worker' = "wait"
            /\ UNCHANGED <<server, accepted, drops, damaged>>
<1>1. Fault => faults' # 0
  BY DEF Fault, TypeOK
<1>2. CASE SubmitListen
  BY <1>1, <1>2 DEF SubmitListen, AppendCapped, disk, locals
<1>3. CASE RemoveSent
  BY <1>1, <1>3 DEF RemoveSent
<1>4. CASE Crash
  BY <1>1, <1>4 DEF Crash
<1>5. CASE Worker /\ ~RemoveSent
  BY <1>5 DEF Worker, Wake, PingDone, FlushStart, PostOk, PostFail, disk
<1>6. CASE Ui /\ ~SubmitListen
  BY <1>6 DEF Ui, TurnOff, Join, SetToken, NowPlaying, disk
<1>7. CASE Boot \/ UNCHANGED vars
  BY <1>7 DEF Boot, vars, disk
<1> QED
  BY <1>2, <1>3, <1>4, <1>5, <1>6, <1>7 DEF Next

\* Leaving a flush without having delivered its next line.
LEMMA FlushEnds ==
  ASSUME TypeOK, PlacesOK, [Next]_vars, Flushing, ~Flushing', faults' = 0
  PROVE  UNCHANGED server /\ (RemoveSent \/ sent = 0)
<1>1. Fault => faults' # 0
  BY DEF Fault, TypeOK
<1>2. CASE PostFail
  BY <1>1, <1>2 DEF PostFail, Flushing
<1>3. CASE PostOk
  BY <1>3 DEF PostOk, Flushing
<1>4. CASE RemoveSent
  BY <1>4 DEF RemoveSent
<1>5. CASE Wake \/ PingDone \/ FlushStart
  BY <1>5 DEF Wake, PingDone, FlushStart, Flushing
<1>6. CASE Ui
  BY <1>6 DEF Ui, TurnOff, Join, SetToken, NowPlaying, SubmitListen, Flushing, PlacesOK
<1>7. CASE Boot \/ Crash \/ UNCHANGED vars
  BY <1>1, <1>7 DEF Boot, Crash, vars, Flushing, PlacesOK
<1> QED
  BY <1>2, <1>3, <1>4, <1>5, <1>6, <1>7 DEF Next, Worker

\* Faults are only counted up.
LEMMA FaultsGrow ==
  ASSUME [Next]_vars
  PROVE  faults' = faults \/ faults' = faults + 1
<1>1. CASE Worker
  BY <1>1 DEF Worker, Wake, PingDone, FlushStart, PostOk, PostFail, RemoveSent, Fault
<1>2. CASE Ui
  BY <1>2 DEF Ui, TurnOff, Join, SetToken, NowPlaying, SubmitListen, AppendCapped, Fault
<1>3. CASE Boot \/ Crash \/ UNCHANGED vars
  BY <1>3 DEF Boot, Crash, vars, Fault
<1> QED
  BY <1>1, <1>2, <1>3 DEF Next

\* Only the worker's posts reach the server.
LEMMA ServerSource ==
  ASSUME [Next]_vars
  PROVE  UNCHANGED server \/ PingDone \/ PostOk \/ PostFail
<1>1. CASE Wake \/ FlushStart \/ RemoveSent
  BY <1>1 DEF Wake, FlushStart, RemoveSent
<1>2. CASE Ui
  BY <1>2 DEF Ui, TurnOff, Join, SetToken, NowPlaying, SubmitListen
<1>3. CASE Boot \/ Crash \/ UNCHANGED vars
  BY <1>3 DEF Boot, Crash, vars
<1> QED
  BY <1>1, <1>2, <1>3 DEF Next, Worker

\* With no fault so far, every step keeps OnceOK.
LEMMA OnceStep ==
  ASSUME TypeOK, TypeOK', PlacesOK, PlacesOK', NumbersOK, RingOK, FlushOK, OrderOK, OnceOK,
         [Next]_vars
  PROVE  OnceOK'
<1> USE DEF Line
<1> SUFFICES ASSUME faults' = 0 PROVE OnceOK'
  BY DEF OnceOK
<1>1. /\ file \in Seq(Nat) /\ batch \in Seq(Nat) /\ server \in Seq(Nat) /\ file' \in Seq(Nat)
      /\ next \in Nat \ {0} /\ sent \in Nat
      /\ Len(file) \in Nat /\ Len(batch) \in Nat /\ Len(server) \in Nat
      /\ \A i \in 1..Len(file) : file[i] \in Nat
      /\ \A i \in 1..Len(batch) : batch[i] \in Nat
      /\ \A i \in 1..Len(server) : server[i] \in Nat
      /\ Range(server) = {server[i] : i \in 1..Len(server)}
  BY DomainLen DEF TypeOK
<1>2. faults = 0
  <2>1. faults' = faults \/ faults' = faults + 1
    BY FaultsGrow
  <2> QED
    BY <2>1 DEF TypeOK
<1>3. /\ \A p \in 1..Len(file) : file[p] # Torn
      /\ Flushing =>
           /\ \A p \in 1..Len(file) : file[p] \in Range(server) => p <= sent
           /\ \A q \in sent+1..Len(batch) : batch[q] \notin Range(server)
           /\ \A p \in 1..Len(file), q \in 1..Len(batch) : file[p] = batch[q] => p <= q
      /\ ~Flushing => \A p \in 1..Len(file) : file[p] \notin Range(server)
  BY <1>2 DEF OnceOK
<1>4. next \notin Range(server) /\ next # Torn
  BY <1>1 DEF NumbersOK, Torn
<1>5. CASE file' = Appended(file, next) /\ UNCHANGED <<server, worker, batch, sent>>
  <2> DEFINE e == Excess(Append(file, next))
  <2>1. /\ e \in Nat /\ Len(file') = Len(file) + 1 - e
        /\ \A i \in 1..Len(file) + 1 - e :
             file'[i] = IF i + e = Len(file) + 1 THEN next ELSE file[i + e]
    <3>1. e \in 0..Len(file) + 1
      BY <1>1, AppendedFrom
    <3>2. /\ Len(Appended(file, next)) = Len(file) + 1 - e
          /\ \A i \in 1..Len(file) + 1 - e :
               Appended(file, next)[i] = IF i + e = Len(file) + 1 THEN next ELSE file[i + e]
      BY <1>1, AppendedFrom
    <3> HIDE DEF e
    <3> QED
      BY <1>1, <1>5, <3>1, <3>2
  <2> HIDE DEF e
  <2>2. ASSUME NEW i \in 1..Len(file')
        PROVE  file'[i] = next \/ (i + e \in 1..Len(file) /\ file'[i] = file[i + e])
    <3>1. i \in 1..Len(file) + 1 - e
      BY <2>1
    <3>2. i + e = Len(file) + 1 \/ i + e \in 1..Len(file)
      <4>1. Len(file) \in Nat /\ e \in Nat
        BY <1>1, <2>1
      <4> QED
        BY <3>1, <4>1
    <3> QED
      BY <2>1, <3>1, <3>2
  <2>3. \A i \in 1..Len(file') : file'[i] # Torn
    BY <1>3, <1>4, <2>2
  <2>4. CASE Flushing
    <3>0. \A n \in Nat, i \in 1..Len(file') : i + e <= n => i <= n
      BY <2>1
    <3>1. ASSUME NEW i \in 1..Len(file'), file'[i] \in Range(server) PROVE i <= sent
      <4>1. i + e \in 1..Len(file) /\ file[i + e] \in Range(server)
        BY <1>4, <2>2, <3>1
      <4>2. i + e <= sent
        BY <1>3, <2>4, <4>1
      <4> QED
        BY <1>1, <3>0, <4>2
    <3>2. ASSUME NEW i \in 1..Len(file'), NEW q \in 1..Len(batch), file'[i] = batch[q] PROVE i <= q
      <4>1. batch[q] < next /\ batch[q] \in Nat
        BY <1>1, <2>4 DEF NumbersOK, Flushing
      <4>2. i + e \in 1..Len(file) /\ file[i + e] = batch[q]
        BY <1>1, <2>2, <3>2, <4>1
      <4>3. i + e <= q
        BY <1>3, <2>4, <4>2
      <4> QED
        BY <3>0, <4>3
    <3> QED
      BY <1>3, <1>5, <2>3, <2>4, <3>1, <3>2 DEF OnceOK, Flushing
  <2>5. CASE ~Flushing
    BY <1>3, <1>4, <1>5, <2>2, <2>3, <2>5 DEF OnceOK, Flushing
  <2> QED
    BY <2>4, <2>5
<1>6. CASE file' = Removed(file, sent) /\ worker = "remove" /\ worker' = "wait" /\ UNCHANGED server
  <2>1. PICK k \in 0..Len(file) :
           /\ k = IF sent < Len(file) THEN sent ELSE Len(file)
           /\ Len(file') = Len(file) - k
           /\ \A i \in 1..Len(file) - k : file'[i] = file[k + i]
    BY <1>1, <1>6, RemovedFrom
  <2>2. ASSUME NEW i \in 1..Len(file')
        PROVE  k + i \in 1..Len(file) /\ ~(k + i <= sent) /\ file'[i] = file[k + i]
    <3>1. i \in 1..Len(file) - k
      BY <2>1
    <3>2. k = sent \/ k = Len(file)
      BY <2>1
    <3>3. k + i \in 1..Len(file) /\ k # Len(file)
      BY <1>1, <3>1
    <3>4. ~(k + i <= sent)
      BY <1>1, <3>1, <3>2, <3>3
    <3> QED
      BY <2>1, <3>1, <3>3, <3>4
  <2>3. Flushing /\ ~Flushing'
    BY <1>6 DEF Flushing
  <2> QED
    BY <1>3, <1>6, <2>2, <2>3 DEF OnceOK
<1>7. CASE UNCHANGED file
  <2>1. CASE Flushing /\ ~Flushing' /\ ~RemoveSent
    <3>1. UNCHANGED server /\ sent = 0
      BY <2>1, FlushEnds
    <3>2. \A p \in 1..Len(file) : ~(p <= 0)
      OBVIOUS
    <3>3. \A p \in 1..Len(file) : file[p] \notin Range(server)
      BY <1>3, <2>1, <3>1, <3>2
    <3> QED
      BY <1>3, <1>7, <2>1, <3>1, <3>3 DEF OnceOK
  <2>2. CASE RemoveSent
    <3>1. CASE file' = Removed(file, sent)
      BY <1>6, <2>2, <3>1 DEF RemoveSent
    <3>2. Fault => faults' # 0
      BY DEF Fault, TypeOK
    <3> QED
      BY <2>2, <3>1, <3>2 DEF RemoveSent
  <2>3. CASE UNCHANGED server /\ ~Flushing /\ ~Flushing'
    BY <1>3, <1>7, <2>3 DEF OnceOK
  <2>4. CASE FlushStart /\ batch' = file /\ sent' = 0 /\ UNCHANGED server /\ worker' = "post"
    <3>1. ~Flushing /\ Flushing'
      BY <2>4 DEF FlushStart, Flushing
    <3>2. ASSUME NEW p \in 1..Len(file), NEW q \in 1..Len(file), file[p] = file[q] PROVE p <= q
      <4>1. CASE q < p
        <5>1. file[q] < file[p]
          BY <1>3, <4>1 DEF OrderOK, Rising
        <5> QED
          BY <1>1, <3>2, <5>1
      <4> QED
        BY <4>1
    <3>3. \A q \in 0+1..Len(file) : q \in 1..Len(file)
      OBVIOUS
    <3> QED
      BY <1>3, <1>7, <2>4, <3>1, <3>2, <3>3 DEF OnceOK
  <2>5. CASE UNCHANGED <<server, batch, sent>> /\ Flushing /\ Flushing'
    BY <1>3, <1>7, <2>5 DEF OnceOK
  <2>6. CASE PostOk
    <3> DEFINE m == batch[sent + 1]
    <3>1. /\ sent + 1 \in 1..Len(batch) /\ m # Torn /\ server' = Append(server, m)
          /\ sent' = sent + 1 /\ UNCHANGED batch /\ Flushing /\ Flushing'
      BY <1>1, <2>6 DEF PostOk, Takes, Deliver, Flushing, PlacesOK
    <3>2. m \in Nat
      BY <1>1, <3>1
    <3>3. Range(server') = Range(server) \union {m}
      <4>1. /\ server' \in Seq(Nat)
            /\ \A i \in 1..Len(server') : \/ i \in 1..Len(server) /\ server'[i] = server[i]
                                          \/ i = Len(server) + 1 /\ server'[i] = m
        BY <1>1, <3>1, <3>2, GrownLines
      <4>2. Range(server') = {server'[i] : i \in 1..Len(server')}
        BY <4>1, DomainLen
      <4>3. Range(server) \subseteq Range(server') /\ m \in Range(server')
        BY <1>1, <3>1, <3>2, Delivered
      <4> QED
        BY <1>1, <4>1, <4>2, <4>3
    <3> HIDE DEF m
    <3>4. ASSUME NEW p \in 1..Len(file), file[p] \in Range(server') PROVE p <= sent + 1
      <4>1. CASE file[p] \in Range(server)
        <5>1. p <= sent
          BY <1>3, <3>1, <4>1
        <5> QED
          BY <1>1, <5>1
      <4>2. CASE file[p] = m
        BY <1>3, <3>1, <4>2 DEF m
      <4> QED
        BY <3>3, <3>4, <4>1, <4>2
    <3>5. ASSUME NEW q \in sent+1+1..Len(batch) PROVE batch[q] \notin Range(server')
      <4>1. q \in sent+1..Len(batch) /\ q \in 1..Len(batch) /\ sent + 1 < q
        BY <1>1
      <4>2. batch[q] \notin Range(server)
        BY <1>3, <3>1, <4>1
      <4>3. batch[q] # Torn => m < batch[q]
        BY <3>1, <4>1 DEF OrderOK, Rising, m
      <4>4. batch[q] # m
        BY <1>1, <3>1, <3>2, <4>1, <4>3
      <4> QED
        BY <3>3, <4>2, <4>4
    <3> QED
      BY <1>3, <1>7, <3>1, <3>4, <3>5 DEF OnceOK
  <2>7. CASE PingDone
    <3>1. CASE UNCHANGED server
      <4>1. ~Flushing /\ ~Flushing'
        BY <2>7 DEF PingDone, Drain, Flushing
      <4> QED
        BY <2>3, <3>1, <4>1
    <3>2. CASE ~UNCHANGED server
      <4>1. worker = "ping" /\ batch[1] # Torn
        BY <2>7, <3>2 DEF PingDone, Takes
      <4>2. file = <<>>
        BY <4>1 DEF RingOK, Ping, Torn
      <4>3. ~Flushing /\ ~Flushing' /\ Len(file') = 0
        BY <1>7, <2>7, <4>2 DEF PingDone, Drain, Flushing
      <4> QED
        BY <4>3 DEF OnceOK
    <3> QED
      BY <3>1, <3>2
  <2>8. CASE PostFail /\ Flushing /\ Flushing'
    <3>1. Fault => faults' # 0
      BY DEF Fault, TypeOK
    <3> QED
      BY <2>5, <2>8, <3>1 DEF PostFail, locals
  <2>9. CASE UNCHANGED server /\ Flushing /\ Flushing' /\ ~PostOk /\ ~PostFail /\ ~RemoveSent
    <3>1. UNCHANGED <<batch, sent>>
      BY <2>9, BatchStep DEF Flushing, FlushStart
    <3> QED
      BY <2>5, <2>9, <3>1
  <2>10. ~UNCHANGED server => PingDone \/ PostOk \/ PostFail
    BY ServerSource
  <2>11. ~Flushing /\ Flushing' =>
           FlushStart /\ batch' = file /\ sent' = 0 /\ UNCHANGED server /\ worker' = "post"
    BY BatchStep DEF Flushing
  <2>12. PostFail \/ PostOk => Flushing
    BY DEF PostFail, PostOk, Flushing
  <2> QED
    BY <2>1, <2>2, <2>3, <2>4, <2>6, <2>7, <2>8, <2>9, <2>10, <2>11, <2>12
<1> QED
  BY <1>5, <1>6, <1>7, QuietStep

\* What the server gets with no fault so far is new to it.
LEMMA RepeatsStep ==
  ASSUME TypeOK, PlacesOK, RingOK, OnceOK, RepeatsNeedFault, [Next]_vars
  PROVE  RepeatsNeedFault'
<1> USE DEF Line
<1>1. /\ batch \in Seq(Nat) /\ server \in Seq(Nat) /\ sent \in Nat
      /\ Len(batch) \in Nat /\ Len(server) \in Nat /\ DOMAIN server = 1..Len(server)
      /\ \A i \in 1..Len(batch) : batch[i] \in Nat
      /\ \A i \in 1..Len(server) : server[i] \in Nat
      /\ Range(server) = {server[i] : i \in 1..Len(server)}
  BY DomainLen DEF TypeOK
<1>2. faults' = 0 => faults = 0
  <2>1. faults' = faults \/ faults' = faults + 1
    BY FaultsGrow
  <2> QED
    BY <2>1 DEF TypeOK
<1>3. ASSUME NEW m \in Nat, m \notin Range(server), server' = Append(server, m), faults = 0
      PROVE  \A i, j \in DOMAIN server' : server'[i] = server'[j] => i = j
  <2>1. /\ \A i \in 1..Len(server') : \/ i \in 1..Len(server) /\ server'[i] = server[i]
                                      \/ i = Len(server) + 1 /\ server'[i] = m
        /\ server' \in Seq(Nat)
    BY <1>1, <1>3, GrownLines
  <2>2. DOMAIN server' = 1..Len(server')
    BY <2>1, DomainLen
  <2>3. \A i, j \in 1..Len(server) : server[i] = server[j] => i = j
    BY <1>1, <1>3 DEF RepeatsNeedFault
  <2>4. \A i \in 1..Len(server) : server[i] # m
    BY <1>1, <1>3
  <2> QED
    BY <2>1, <2>2, <2>3, <2>4
<1>4. CASE UNCHANGED server
  BY <1>2, <1>4 DEF RepeatsNeedFault
<1>5. CASE /\ worker = "ping" /\ batch[1] # Torn /\ server' = Append(server, batch[1])
           /\ 1 \in 1..Len(batch)
  <2>1. \A i \in 1..Len(server) : server[i] < batch[1]
    BY <1>5 DEF RingOK, Torn, Ping
  <2>2. batch[1] \in Nat /\ batch[1] \notin Range(server)
    BY <1>1, <1>5, <2>1
  <2> QED
    BY <1>2, <1>3, <1>5, <2>2 DEF RepeatsNeedFault
<1>6. CASE /\ worker = "post" /\ server' = Append(server, batch[sent + 1])
           /\ sent + 1 \in 1..Len(batch)
  <2>1. sent + 1 \in sent+1..Len(batch)
    BY <1>1, <1>6
  <2>2. faults = 0 => batch[sent + 1] \in Nat /\ batch[sent + 1] \notin Range(server)
    BY <1>1, <1>6, <2>1 DEF OnceOK, Flushing
  <2> QED
    BY <1>2, <1>3, <1>6, <2>2 DEF RepeatsNeedFault
<1> QED
  BY <1>4, <1>5, <1>6, ServerStep
-----------------------------------------------------------------------------
(* What the cap of the file costs. *)

\* The listens taken that are neither in the file nor with the server.
Unsafe == {l \in accepted : ~Safe(l)}

\* After d of the lines a flush has in its copy were dropped from the file, the copy
\* and the file are this far apart, and those of the d that it has yet to send are
\* not lost for that.
Aligned(d) ==
  /\ \A p \in 1..Len(file) : p + d <= Len(batch) => file[p] = batch[p + d]
  /\ Len(batch) <= Len(file) + d
Ahead(d) == {batch[q] : q \in sent+1..d}

\* A drop costs a listen at most, now or when the flush takes d lines too many.
LossOK ==
  ~damaged =>
    IF Flushing
    THEN \E d \in 0..Len(batch) : Aligned(d) /\ Cardinality(Unsafe \ Ahead(d)) + d <= drops
    ELSE Cardinality(Unsafe) <= drops

\* As many indices name no more values.
LEMMA ImageBound ==
  ASSUME NEW a \in Nat, NEW n \in Nat, NEW f, DOMAIN f = a+1..a+n
  PROVE  LET S == {f[x] : x \in a+1..a+n} IN IsFiniteSet(S) /\ Cardinality(S) <= n
<1> DEFINE S == {f[x] : x \in a+1..a+n}
           g == [x \in a+1..a+n |-> f[x]]
<1>1. g \in Surjection(a+1..a+n, S)
  BY DEF Surjection
<1>2. IsFiniteSet(a+1..a+n) /\ Cardinality(a+1..a+n) = n
  <2>1. a+1 \in Int /\ a+n \in Int
    OBVIOUS
  <2>2. (IF a+1 > a+n THEN 0 ELSE a+n-(a+1)+1) = n
    OBVIOUS
  <2> QED
    BY <2>1, <2>2, FS_Interval
<1> HIDE DEF g, S
<1>3. IsFiniteSet(S) /\ Cardinality(S) <= Cardinality(a+1..a+n)
  BY <1>1, <1>2, FS_Surjection
<1> QED
  BY <1>2, <1>3 DEF S

\* A union has no more elements than its parts together.
LEMMA UnionBound ==
  ASSUME NEW S, NEW T, IsFiniteSet(S), IsFiniteSet(T), NEW n \in Nat, Cardinality(T) <= n
  PROVE  /\ IsFiniteSet(S \cup T) /\ Cardinality(S \cup T) \in Nat
         /\ Cardinality(S \cup T) <= Cardinality(S) + n
<1>1. IsFiniteSet(S \cup T)
      /\ Cardinality(S \cup T) = Cardinality(S) + Cardinality(T) - Cardinality(S \cap T)
  BY FS_Union
<1>2. IsFiniteSet(S \cap T)
  BY FS_Intersection
<1>3. /\ Cardinality(S) \in Nat /\ Cardinality(T) \in Nat /\ Cardinality(S \cap T) \in Nat
      /\ Cardinality(S \cup T) \in Nat
  BY <1>1, <1>2, FS_CardinalityType
<1> QED
  BY <1>1, <1>3

\* The sets counted are finite, and one within another is no larger.
LEMMA UnsafeFinite ==
  ASSUME TypeOK, NumbersOK
  PROVE  /\ IsFiniteSet(accepted)
         /\ \A S : S \subseteq accepted => IsFiniteSet(S) /\ Cardinality(S) \in Nat
         /\ \A S, T : S \subseteq T /\ T \subseteq accepted => Cardinality(S) <= Cardinality(T)
<1>1. IsFiniteSet(accepted)
  <2>1. next - 1 \in Int /\ accepted \in SUBSET (1..next-1)
    BY DEF TypeOK, NumbersOK
  <2>2. IsFiniteSet(1..next-1)
    BY <2>1, FS_Interval
  <2> QED
    BY <2>1, <2>2, FS_Subset
<1>2. \A S : S \subseteq accepted => IsFiniteSet(S)
  BY <1>1, FS_Subset
<1> QED
  BY <1>1, <1>2, FS_Subset, FS_CardinalityType

\* What a flush has yet to take out wrongly counts already.
LEMMA LossIsBounded ==
  ASSUME TypeOK, NumbersOK, LossOK
  PROVE  LossBounded
<1> USE DEF Line
<1> SUFFICES ASSUME ~damaged PROVE Cardinality(Unsafe) <= drops
  BY DEF LossBounded, Unsafe
<1>1. CASE ~Flushing
  BY <1>1 DEF LossOK
<1>2. CASE Flushing
  <2>1. PICK d \in 0..Len(batch) : Cardinality(Unsafe \ Ahead(d)) + d <= drops
    BY <1>2 DEF LossOK
  <2>2. d \in Nat /\ sent \in Nat /\ drops \in Nat
    BY LenProperties DEF TypeOK
  <2> DEFINE f == [x \in 0+1..0+d |-> batch[x]]
             S == {f[x] : x \in 0+1..0+d}
  <2>3. IsFiniteSet(S) /\ Cardinality(S) <= d
    <3>1. DOMAIN f = 0+1..0+d /\ 0 \in Nat
      OBVIOUS
    <3> HIDE DEF f
    <3> QED
      BY <2>2, <3>1, ImageBound
  <2>4. Ahead(d) \subseteq S
    <3>1. \A q \in sent+1..d : q \in 0+1..0+d
      BY <2>2
    <3> QED
      BY <3>1 DEF Ahead
  <2> HIDE DEF S, f
  <2>5. IsFiniteSet(Unsafe \ Ahead(d)) /\ Cardinality(Unsafe \ Ahead(d)) \in Nat
        /\ IsFiniteSet(Unsafe) /\ Cardinality(Unsafe) \in Nat
    BY UnsafeFinite DEF Unsafe
  <2>6. /\ IsFiniteSet((Unsafe \ Ahead(d)) \cup S)
        /\ Cardinality((Unsafe \ Ahead(d)) \cup S) <= Cardinality(Unsafe \ Ahead(d)) + d
        /\ Cardinality((Unsafe \ Ahead(d)) \cup S) \in Nat
    BY <2>2, <2>3, <2>5, UnionBound
  <2>7. Unsafe \in SUBSET ((Unsafe \ Ahead(d)) \cup S)
    BY <2>4
  <2>8. Cardinality(Unsafe) <= Cardinality((Unsafe \ Ahead(d)) \cup S)
    BY <2>6, <2>7, FS_Subset
  <2> QED
    BY <2>1, <2>2, <2>5, <2>6, <2>8
<1> QED
  BY <1>1, <1>2

\* What an append at the cap costs: the first of the lines.
LEMMA AppendLoss ==
  ASSUME NEW lines \in Seq(Nat), NEW l \in Nat, Len(lines) <= FileCap
  PROVE  LET e == Excess(Append(lines, l)) IN
         /\ e \in {0, 1}
         /\ l \in Range(Appended(lines, l))
         /\ e = 0 => /\ Range(lines) \subseteq Range(Appended(lines, l))
                     /\ Len(Appended(lines, l)) = Len(lines) + 1
                     /\ \A i \in 1..Len(lines) : Appended(lines, l)[i] = lines[i]
         /\ e = 1 => /\ 1 \in 1..Len(lines) /\ Len(Appended(lines, l)) = Len(lines)
                     /\ \A i \in 1..Len(lines) :
                          i + 1 \in 1..Len(lines) => Appended(lines, l)[i] = lines[i + 1]
                     /\ Range(lines) \ {lines[1]} \subseteq Range(Appended(lines, l))
<1> DEFINE e == Excess(Append(lines, l))
           new == Appended(lines, l)
<1>1. Len(lines) \in Nat /\ Len(Append(lines, l)) = Len(lines) + 1
  BY GrownLines
<1>2. e \in {0, 1} /\ (e = 1 => Len(lines) = FileCap /\ FileCap \in Nat \ {0})
  BY <1>1, CapAssumption DEF Excess
<1>3. /\ Len(new) = Len(lines) + 1 - e
      /\ \A i \in 1..Len(lines) + 1 - e :
           new[i] = IF i + e = Len(lines) + 1 THEN l ELSE lines[i + e]
  BY AppendedFrom
<1>4. new \in Seq(Nat)
  BY AppendedLines
<1> HIDE DEF e, new
<1>5. /\ Range(new) = {new[i] : i \in 1..Len(new)}
      /\ Range(lines) = {lines[i] : i \in 1..Len(lines)}
  BY <1>4, DomainLen
<1>6. Len(lines) + 1 - e \in 1..Len(new) /\ new[Len(lines) + 1 - e] = l
  <2>1. CASE e = 0
    BY <1>1, <1>3, <2>1
  <2>2. CASE e = 1
    BY <1>1, <1>2, <1>3, <2>2
  <2> QED
    BY <1>2, <2>1, <2>2
<1>7. ASSUME e = 0
      PROVE  /\ Range(lines) \subseteq Range(new) /\ Len(new) = Len(lines) + 1
             /\ \A i \in 1..Len(lines) : new[i] = lines[i]
  <2>1. Len(new) = Len(lines) + 1
    BY <1>1, <1>3, <1>7
  <2>2. ASSUME NEW i \in 1..Len(lines) PROVE new[i] = lines[i] /\ i \in 1..Len(new)
    <3>1. i \in 1..Len(lines) + 1 - e /\ i + e = i /\ i # Len(lines) + 1
      BY <1>1, <1>7
    <3> QED
      BY <1>1, <1>3, <3>1
  <2> QED
    BY <1>5, <2>1, <2>2
<1>8. ASSUME e = 1
      PROVE  /\ 1 \in 1..Len(lines) /\ Len(new) = Len(lines)
             /\ \A i \in 1..Len(lines) : i + 1 \in 1..Len(lines) => new[i] = lines[i + 1]
             /\ Range(lines) \ {lines[1]} \subseteq Range(new)
  <2>1. Len(new) = Len(lines) /\ 1 \in 1..Len(lines)
    BY <1>1, <1>2, <1>3, <1>8
  <2>2. ASSUME NEW i \in 1..Len(lines), i + 1 \in 1..Len(lines) PROVE new[i] = lines[i + 1]
    <3>1. i \in 1..Len(lines) + 1 - e /\ i + e = i + 1 /\ i + 1 # Len(lines) + 1
      BY <1>1, <1>8, <2>2
    <3> QED
      BY <1>3, <3>1
  <2>3. ASSUME NEW x \in Range(lines), x # lines[1] PROVE x \in Range(new)
    <3>1. PICK i \in 1..Len(lines) : x = lines[i]
      BY <1>5
    <3>2. i - 1 \in 1..Len(lines) /\ (i - 1) + 1 = i
      BY <1>1, <2>3, <3>1
    <3>3. new[i - 1] = lines[(i - 1) + 1]
      BY <2>2, <3>2
    <3> QED
      BY <1>5, <2>1, <3>1, <3>2, <3>3
  <2> QED
    BY <2>1, <2>2, <2>3
<1>9. l \in Range(new)
  BY <1>5, <1>6
<1> QED
  BY <1>2, <1>7, <1>8, <1>9 DEF e, new

\* A listen joins the file: the cap may push out the oldest line.
LEMMA LossAppend ==
  ASSUME TypeOK, NumbersOK, NumbersOK', TypeOK', FlushOK, LossOK,
         file' = Appended(file, next), accepted' = accepted \union {next},
         drops' = drops + Excess(Append(file, next)),
         UNCHANGED <<server, worker, batch, sent, damaged>>
  PROVE  LossOK'
<1> USE DEF Line
<1> SUFFICES ASSUME ~damaged PROVE LossOK'
  BY DEF LossOK
<1> DEFINE e == Excess(Append(file, next))
<1>1. /\ file \in Seq(Nat) /\ batch \in Seq(Nat) /\ next \in Nat /\ Len(file) <= FileCap
      /\ Len(file) \in Nat /\ Len(batch) \in Nat /\ sent \in Nat /\ drops \in Nat
      /\ Range(file) = {file[i] : i \in 1..Len(file)}
  BY DomainLen DEF TypeOK
<1>2. e \in {0, 1} /\ next \in Range(file') /\ drops' = drops + e
  BY <1>1, AppendLoss
<1>3. e = 0 => /\ Range(file) \subseteq Range(file')
               /\ Len(file') = Len(file) + 1
               /\ \A i \in 1..Len(file) : file'[i] = file[i]
  BY <1>1, AppendLoss
<1>4. e = 1 => /\ 1 \in 1..Len(file) /\ Len(file') = Len(file)
               /\ \A i \in 1..Len(file) : i + 1 \in 1..Len(file) => file'[i] = file[i + 1]
               /\ Range(file) \ {file[1]} \subseteq Range(file')
  BY <1>1, AppendLoss
<1> HIDE DEF e
<1>5. Unsafe' \subseteq Unsafe \cup (IF e = 0 THEN {} ELSE {file[1]})
  BY <1>2, <1>3, <1>4 DEF Unsafe, Safe
<1>6. /\ Unsafe' \subseteq accepted' /\ Unsafe \subseteq accepted
      /\ \A S : S \subseteq accepted => IsFiniteSet(S) /\ Cardinality(S) \in Nat
      /\ \A S, T : S \subseteq T /\ T \subseteq accepted => Cardinality(S) <= Cardinality(T)
  BY UnsafeFinite DEF Unsafe
\* A set that grows by the line dropped, if at all, is counted by the drop.
<1>7. ASSUME NEW S, NEW T, T \subseteq accepted,
             S \subseteq T \cup (IF e = 0 THEN {} ELSE {file[1]})
      PROVE  /\ Cardinality(S) <= Cardinality(T) + e
             /\ Cardinality(S) \in Nat /\ Cardinality(T) \in Nat
  <2>1. IsFiniteSet(T) /\ Cardinality(T) \in Nat
    BY <1>6, <1>7
  <2>2. CASE e = 0
    <3>1. S \subseteq T /\ T \subseteq accepted /\ S \subseteq accepted
      BY <1>7, <2>2
    <3>2. Cardinality(S) <= Cardinality(T) /\ Cardinality(S) \in Nat
      BY <1>6, <3>1
    <3> QED
      BY <2>1, <2>2, <3>2
  <2>3. CASE e = 1
    <3>1. S \in SUBSET (T \cup {file[1]})
      BY <1>7, <2>3
    <3>2. IsFiniteSet(T \cup {file[1]}) /\ Cardinality(T \cup {file[1]}) <= Cardinality(T) + 1
      BY <2>1, FS_AddElement
    <3>3. IsFiniteSet(S) /\ Cardinality(S) <= Cardinality(T \cup {file[1]})
      BY <3>1, <3>2, FS_Subset
    <3>4. Cardinality(S) \in Nat /\ Cardinality(T \cup {file[1]}) \in Nat
      BY <3>2, <3>3, FS_CardinalityType
    <3> QED
      BY <2>1, <2>3, <3>2, <3>3, <3>4
  <2> QED
    BY <1>2, <2>2, <2>3
<1>8. CASE ~Flushing
  <2>1. Cardinality(Unsafe) <= drops
    BY <1>8 DEF LossOK
  <2>2. Cardinality(Unsafe') <= Cardinality(Unsafe) + e
        /\ Cardinality(Unsafe') \in Nat /\ Cardinality(Unsafe) \in Nat
    BY <1>5, <1>6, <1>7
  <2>3. Cardinality(Unsafe') <= drops'
    BY <1>1, <1>2, <2>1, <2>2
  <2> QED
    BY <1>8, <2>3 DEF LossOK, Flushing
<1>9. CASE Flushing
  <2>1. PICK d \in 0..Len(batch) : Aligned(d) /\ Cardinality(Unsafe \ Ahead(d)) + d <= drops
    BY <1>9 DEF LossOK
  <2>2. /\ \A p \in 1..Len(file) : p + d <= Len(batch) => file[p] = batch[p + d]
        /\ Len(batch) <= Len(file) + d /\ d \in Nat /\ Len(file') \in Nat
    BY <2>1, LenProperties DEF Aligned, TypeOK
  <2>3. Ahead(d)' = Ahead(d) /\ Ahead(d + 1)' = Ahead(d + 1)
    BY DEF Ahead
  <2>4. CASE e = 0
    <3>1. Aligned(d)'
      <4>1. ASSUME NEW p \in 1..Len(file'), p + d <= Len(batch) PROVE file'[p] = batch[p + d]
        <5>1. p \in 1..Len(file)
          BY <1>1, <2>2, <4>1
        <5> QED
          BY <1>3, <2>2, <2>4, <4>1, <5>1
      <4>2. Len(batch) <= Len(file') + d
        BY <1>1, <1>3, <2>2, <2>4
      <4> QED
        BY <4>1, <4>2 DEF Aligned
    <3>2. Cardinality((Unsafe \ Ahead(d))') <= Cardinality(Unsafe \ Ahead(d)) + e
          /\ Cardinality((Unsafe \ Ahead(d))') \in Nat /\ Cardinality(Unsafe \ Ahead(d)) \in Nat
      BY <1>5, <1>6, <1>7, <2>3
    <3>3. Cardinality((Unsafe \ Ahead(d))') + d <= drops'
      BY <1>1, <1>2, <2>1, <2>2, <2>4, <3>2
    <3> QED
      BY <1>9, <2>1, <3>1, <3>3 DEF LossOK, Flushing
  <2>5. CASE e = 1 /\ d = Len(batch)
    <3>1. Aligned(d)'
      <4>1. ASSUME NEW p \in 1..Len(file') PROVE ~(p + d <= Len(batch))
        BY <1>1, <2>5
      <4>2. Len(batch) <= Len(file') + d
        BY <1>1, <2>2, <2>5
      <4> QED
        BY <4>1, <4>2 DEF Aligned
    <3>2. Cardinality((Unsafe \ Ahead(d))') <= Cardinality(Unsafe \ Ahead(d)) + e
          /\ Cardinality((Unsafe \ Ahead(d))') \in Nat /\ Cardinality(Unsafe \ Ahead(d)) \in Nat
      BY <1>5, <1>6, <1>7, <2>3
    <3>3. Cardinality((Unsafe \ Ahead(d))') + d <= drops'
      BY <1>1, <1>2, <2>1, <2>2, <2>5, <3>2
    <3> QED
      BY <1>9, <2>1, <3>1, <3>3 DEF LossOK, Flushing
  <2>6. CASE e = 1 /\ d # Len(batch)
    <3>0. /\ d + 1 \in 0..Len(batch) /\ d + 1 \in 1..Len(batch)
          /\ 1 \in 1..Len(file) /\ Len(file') = Len(file)
      BY <1>1, <1>4, <2>1, <2>6
    <3>1. Aligned(d + 1)'
      <4>1. ASSUME NEW p \in 1..Len(file'), p + (d + 1) <= Len(batch)
            PROVE  file'[p] = batch[p + (d + 1)]
        <5>1. p \in 1..Len(file) /\ p + 1 \in 1..Len(file) /\ (p + 1) + d = p + (d + 1)
          BY <1>1, <2>2, <3>0, <4>1
        <5>2. file'[p] = file[p + 1]
          BY <1>4, <2>6, <5>1
        <5> QED
          BY <2>2, <4>1, <5>1, <5>2
      <4>2. Len(batch) <= Len(file') + (d + 1)
        BY <1>1, <2>2, <3>0
      <4> QED
        BY <4>1, <4>2 DEF Aligned
    <3>2. file[1] = batch[d + 1]
      <4>1. 1 + d = d + 1 /\ 1 + d <= Len(batch)
        BY <2>2, <3>0
      <4> QED
        BY <2>2, <3>0, <4>1
    <3>3. (Unsafe \ Ahead(d + 1))' \subseteq Unsafe \ Ahead(d)
      <4>1. CASE d + 1 \in 1..sent
        <5>1. batch[d + 1] \in Range(server)
          BY <1>9, <4>1 DEF FlushOK, Flushing
        <5>2. Ahead(d) = {} /\ Unsafe' \subseteq Unsafe
          <6>1. sent+1..d = {}
            BY <1>1, <2>2, <4>1
          <6>2. batch[d + 1] \notin Unsafe'
            BY <5>1 DEF Unsafe, Safe
          <6> QED
            BY <1>5, <3>2, <6>1, <6>2 DEF Ahead
        <5> QED
          BY <5>2
      <4>2. CASE d + 1 \notin 1..sent
        <5>1. d + 1 \in sent+1..d+1 /\ \A q \in sent+1..d : q \in sent+1..d+1
          BY <1>1, <2>2, <4>2
        <5>2. Ahead(d) \cup {batch[d + 1]} \subseteq Ahead(d + 1)
          BY <5>1 DEF Ahead
        <5> QED
          BY <1>5, <2>3, <3>2, <5>2
      <4> QED
        BY <4>1, <4>2
    <3>4. Cardinality((Unsafe \ Ahead(d + 1))') <= Cardinality(Unsafe \ Ahead(d))
          /\ Cardinality((Unsafe \ Ahead(d + 1))') \in Nat /\ Cardinality(Unsafe \ Ahead(d)) \in Nat
      <4>1. Unsafe \ Ahead(d) \subseteq accepted
        BY <1>6
      <4> QED
        BY <1>6, <3>3, <4>1
    <3>5. Cardinality((Unsafe \ Ahead(d + 1))') + (d + 1) <= drops'
      BY <1>1, <1>2, <2>1, <2>2, <2>6, <3>4
    <3> QED
      BY <1>9, <3>0, <3>1, <3>5 DEF LossOK, Flushing
  <2> QED
    BY <1>2, <2>4, <2>5, <2>6
<1> QED
  BY <1>8, <1>9

\* A flush takes its lines out of the front of the file: where the cap took d lines out
\* first, d others go with them.
LEMMA LossRemove ==
  ASSUME TypeOK, NumbersOK, PlacesOK, FlushOK, LossOK,
         file' = Removed(file, sent), worker = "remove", worker' = "wait",
         UNCHANGED <<server, accepted, drops, damaged>>
  PROVE  LossOK'
<1> USE DEF Line
<1> SUFFICES ASSUME ~damaged PROVE Cardinality(Unsafe') <= drops
  BY DEF LossOK, Flushing
<1>1. /\ file \in Seq(Nat) /\ batch \in Seq(Nat) /\ sent \in Nat /\ drops \in Nat
      /\ Len(file) \in Nat /\ Len(batch) \in Nat /\ sent <= Len(batch)
      /\ Range(file) = {file[i] : i \in 1..Len(file)}
      /\ \A i \in 1..sent : batch[i] \in Range(server)
  BY DomainLen DEF TypeOK, PlacesOK, FlushOK
<1>2. PICK d \in 0..Len(batch) : Aligned(d) /\ Cardinality(Unsafe \ Ahead(d)) + d <= drops
  BY DEF LossOK, Flushing
<1>3. /\ \A p \in 1..Len(file) : p + d <= Len(batch) => file[p] = batch[p + d]
      /\ Len(batch) <= Len(file) + d /\ d \in Nat
  BY <1>2 DEF Aligned
<1> DEFINE f == [x \in sent+1..sent+d |-> IF x <= d THEN batch[x] ELSE file[x - d]]
           S == {f[x] : x \in sent+1..sent+d}
<1>4. IsFiniteSet(S) /\ Cardinality(S) <= d
  <2>1. DOMAIN f = sent+1..sent+d
    OBVIOUS
  <2>2. sent \in Nat /\ d \in Nat
    BY <1>1, <1>3
  <2> HIDE DEF f
  <2> QED
    BY <2>1, <2>2, ImageBound
<1>5. Unsafe' \subseteq (Unsafe \ Ahead(d)) \cup S
  <2> SUFFICES ASSUME NEW l \in accepted, l \notin Range(file'), l \notin Range(server),
                      ~(l \in Unsafe /\ l \notin Ahead(d))
               PROVE  l \in S
    BY DEF Unsafe, Safe
  <2>1. CASE l \notin Range(file)
    <3>1. l \in Ahead(d)
      BY <2>1 DEF Unsafe, Safe
    <3>2. PICK q \in sent+1..d : l = batch[q]
      BY <3>1 DEF Ahead
    <3>3. q \in sent+1..sent+d /\ q <= d
      BY <1>1, <1>3, <3>2
    <3> QED
      BY <3>2, <3>3
  <2>2. CASE l \in Range(file)
    <3>1. PICK i \in 1..Len(file) : l = file[i]
      BY <1>1, <2>2
    <3>2. i <= sent
      <4>1. \A j \in sent+1..Len(file) : file[j] \in Range(file')
        BY <1>1, RemovedLines
      <4>2. i \in 1..sent \/ i \in sent+1..Len(file)
        BY <1>1
      <4> QED
        BY <3>1, <4>1, <4>2
    <3>3. i + d > sent
      <4> SUFFICES ASSUME i + d <= sent PROVE FALSE
        BY <1>1, <1>3
      <4>1. i + d <= Len(batch) /\ i + d \in 1..sent
        BY <1>1, <1>3
      <4>2. l = batch[i + d] /\ batch[i + d] \in Range(server)
        BY <1>1, <1>3, <3>1, <4>1
      <4> QED
        BY <4>2
    <3>4. i + d \in sent+1..sent+d /\ ~(i + d <= d) /\ (i + d) - d = i
      BY <1>1, <1>3, <3>2, <3>3
    <3>5. f[i + d] = l
      BY <3>1, <3>4
    <3> QED
      BY <3>4, <3>5
  <2> QED
    BY <2>1, <2>2
<1> HIDE DEF S, f
<1>6. /\ IsFiniteSet(Unsafe \ Ahead(d)) /\ Cardinality(Unsafe \ Ahead(d)) \in Nat
  BY UnsafeFinite DEF Unsafe
<1>7. /\ IsFiniteSet((Unsafe \ Ahead(d)) \cup S)
      /\ Cardinality((Unsafe \ Ahead(d)) \cup S) \in Nat
      /\ Cardinality((Unsafe \ Ahead(d)) \cup S) <= Cardinality(Unsafe \ Ahead(d)) + d
  BY <1>3, <1>4, <1>6, UnionBound
<1>8. /\ Cardinality(Unsafe') <= Cardinality((Unsafe \ Ahead(d)) \cup S)
      /\ IsFiniteSet(Unsafe')
  BY <1>5, <1>7, FS_Subset
<1>9. Cardinality(Unsafe') \in Nat
  BY <1>8, FS_CardinalityType
<1> QED
  BY <1>1, <1>2, <1>3, <1>6, <1>7, <1>8, <1>9

\* Every step keeps what is lost within what was dropped.
LEMMA LossStep ==
  ASSUME TypeOK, TypeOK', PlacesOK, PlacesOK', NumbersOK, NumbersOK', FlushOK, LossOK, [Next]_vars
  PROVE  LossOK'
<1> USE DEF Line
<1> SUFFICES ASSUME ~damaged' PROVE LossOK'
  BY DEF LossOK
<1>1. CASE /\ file' = Appended(file, next) /\ accepted' = accepted \union {next}
           /\ drops' = drops + Excess(Append(file, next))
           /\ UNCHANGED <<server, worker, batch, sent, damaged>>
  BY <1>1, LossAppend
<1>2. CASE /\ file' = Removed(file, sent) /\ worker = "remove" /\ worker' = "wait"
           /\ UNCHANGED <<server, accepted, drops, damaged>>
  BY <1>2, LossRemove
<1>3. CASE UNCHANGED <<file, accepted, drops, damaged>>
  <2>1. /\ \A S : S \subseteq accepted => IsFiniteSet(S) /\ Cardinality(S) \in Nat
        /\ \A S, T : S \subseteq T /\ T \subseteq accepted => Cardinality(S) <= Cardinality(T)
        /\ Unsafe \subseteq accepted /\ Len(batch) \in Nat /\ drops \in Nat /\ sent \in Nat
    BY UnsafeFinite, LenProperties DEF Unsafe, TypeOK
  <2>2. Range(server) \subseteq Range(server')
    <3>1. UNCHANGED server \/ \E l \in Nat : server' = Append(server, l)
      BY ServerStep, ElementOfSeq DEF TypeOK
    <3> QED
      BY <3>1, Delivered DEF TypeOK
  <2>3. Unsafe' \subseteq Unsafe
    BY <1>3, <2>2 DEF Unsafe, Safe
  <2>4. ~damaged
    BY <1>3
  <2>5. ASSUME NEW S, NEW T, T \subseteq Unsafe, S \subseteq T, NEW d \in Nat,
               Cardinality(T) + d <= drops
        PROVE  Cardinality(S) + d <= drops'
    <3>1. T \subseteq accepted /\ S \subseteq accepted
      BY <2>1, <2>5
    <3>2. Cardinality(S) <= Cardinality(T) /\ Cardinality(S) \in Nat /\ Cardinality(T) \in Nat
      BY <2>1, <2>5, <3>1
    <3>3. drops' = drops
      BY <1>3
    <3> QED
      BY <2>1, <2>5, <3>2, <3>3
  <2>6. CASE ~Flushing'
    <3>1. Cardinality(Unsafe) <= drops
      BY <2>4, LossIsBounded DEF LossBounded, Unsafe
    <3>2. Cardinality(Unsafe') <= Cardinality(Unsafe) /\ drops' = drops
          /\ Cardinality(Unsafe') \in Nat /\ Cardinality(Unsafe) \in Nat
      <4>1. Unsafe' \subseteq accepted
        BY <2>1, <2>3
      <4> QED
        BY <1>3, <2>1, <2>3, <4>1
    <3>3. Cardinality(Unsafe') <= drops'
      BY <2>1, <3>1, <3>2
    <3> QED
      BY <2>6, <3>3 DEF LossOK
  <2>7. CASE FlushStart /\ batch' = file /\ sent' = 0 /\ worker' = "post" /\ UNCHANGED file
    <3>1. Flushing' /\ ~Flushing
      BY <2>7 DEF FlushStart, Flushing
    <3>2. Aligned(0)'
      <4>1. Len(file) \in Nat
        BY LenProperties DEF TypeOK
      <4>2. \A p \in 1..Len(file) : p + 0 = p
        OBVIOUS
      <4>3. /\ \A p \in 1..Len(file') : p + 0 <= Len(batch') => file'[p] = batch'[p + 0]
            /\ Len(batch') <= Len(file') + 0
        BY <2>7, <4>1, <4>2
      <4> QED
        BY <4>3 DEF Aligned
    <3>3. (Unsafe \ Ahead(0))' \subseteq Unsafe
      BY <2>3
    <3>4. Cardinality(Unsafe) + 0 <= drops
      BY <2>1, <2>4, <3>1 DEF LossOK
    <3>5. Cardinality((Unsafe \ Ahead(0))') + 0 <= drops'
      BY <2>5, <3>3, <3>4
    <3>6. Len(batch') \in Nat
      BY LenProperties DEF TypeOK
    <3>7. 0 \in 0..Len(batch')
      BY <3>6
    <3> QED
      BY <3>1, <3>2, <3>5, <3>7 DEF LossOK
  <2>8. CASE Flushing /\ Flushing' /\ UNCHANGED batch /\ (UNCHANGED sent \/ PostOk)
    <3>1. PICK d \in 0..Len(batch) : Aligned(d) /\ Cardinality(Unsafe \ Ahead(d)) + d <= drops
      BY <2>4, <2>8 DEF LossOK
    <3>2. Aligned(d)'
      BY <1>3, <2>8, <3>1 DEF Aligned
    <3>3. (Unsafe \ Ahead(d))' \subseteq Unsafe \ Ahead(d)
      <4>1. CASE UNCHANGED sent
        <5>1. Ahead(d)' = Ahead(d)
          BY <2>8, <4>1 DEF Ahead
        <5> QED
          BY <2>3, <5>1
      <4>2. CASE PostOk
        <5>1. sent' = sent + 1 /\ batch' = batch /\ server' = Append(server, batch[sent + 1])
              /\ sent + 1 \in 1..Len(batch)
          BY <2>1, <4>2 DEF PostOk, Deliver, PlacesOK
        <5>2. batch[sent + 1] \in Range(server')
          BY <5>1, Delivered, ElementOfSeq DEF TypeOK
        <5> SUFFICES ASSUME NEW x \in Unsafe', x \in Ahead(d) PROVE x \in Ahead(d)'
          BY <2>3
        <5>3. PICK q \in sent+1..d : x = batch[q]
          BY DEF Ahead
        <5>4. q # sent + 1
          BY <5>2, <5>3 DEF Unsafe, Safe
        <5>5. q \in (sent+1)+1..d
          BY <2>1, <3>1, <5>4
        <5> QED
          BY <5>1, <5>3, <5>5 DEF Ahead
      <4> QED
        BY <2>8, <4>1, <4>2
    <3>4. Cardinality((Unsafe \ Ahead(d))') + d <= drops'
      BY <2>5, <3>1, <3>3
    <3> QED
      BY <2>8, <3>1, <3>2, <3>4 DEF LossOK
  <2> QED
    BY <2>6, <2>7, <2>8, BatchStep DEF Flushing
<1> QED
  BY <1>1, <1>2, <1>3, QuietStep
-----------------------------------------------------------------------------
(* All of it together. *)

\* The invariant, beyond the types: each part needs those before it.
SendsOK ==
  /\ NumbersOK /\ RingOK /\ FlushOK /\ NothingLost
  /\ OrderOK /\ InOrder /\ OnceOK /\ RepeatsNeedFault /\ LossOK

\* The types, the places and all of that hold always.
LEMMA SendsInvariant == Spec => [](TypeOK /\ PlacesOK /\ SendsOK)
<1>1. Init => SendsOK
  <2> SUFFICES ASSUME Init PROVE SendsOK
    OBVIOUS
  <2>1. NumbersOK /\ RingOK /\ FlushOK /\ NothingLost
    BY DEF Init, NumbersOK, RingOK, FlushOK, NothingLost, Rising
  <2>2. OrderOK /\ InOrder /\ OnceOK /\ RepeatsNeedFault
    BY DEF Init, OrderOK, InOrder, OnceOK, RepeatsNeedFault, Rising, Flushing
  <2>3. LossOK
    BY FS_EmptySet DEF Init, LossOK, Flushing, Unsafe
  <2> QED
    BY <2>1, <2>2, <2>3 DEF SendsOK
<1>2. (TypeOK /\ PlacesOK) /\ (TypeOK /\ PlacesOK)' /\ SendsOK /\ [Next]_vars => SendsOK'
  <2> SUFFICES ASSUME TypeOK, PlacesOK, TypeOK', PlacesOK', SendsOK, [Next]_vars PROVE SendsOK'
    OBVIOUS
  <2>0. /\ NumbersOK /\ RingOK /\ FlushOK /\ NothingLost
        /\ OrderOK /\ InOrder /\ OnceOK /\ RepeatsNeedFault /\ LossOK
    BY DEF SendsOK
  <2>1. NumbersOK'
    BY <2>0, NumbersStep
  <2>2. RingOK'
    BY <2>0, RingInvStep
  <2>3. FlushOK' /\ NothingLost'
    BY <2>0, QueueStep
  <2>4. OrderOK'
    BY <2>0, <2>1, OrderStep
  <2>5. InOrder'
    BY <2>0, InOrderStep
  <2>6. OnceOK'
    BY <2>0, OnceStep
  <2>7. RepeatsNeedFault'
    BY <2>0, RepeatsStep
  <2>8. LossOK'
    BY <2>0, <2>1, LossStep
  <2> QED
    BY <2>1, <2>2, <2>3, <2>4, <2>5, <2>6, <2>7, <2>8 DEF SendsOK
<1> QED
  BY <1>1, <1>2, TypesInvariant, PTL DEF Spec

\* For any caps, any number of listens and of faults: what the server has is in
\* order, repeats need a fault, and the listens lost are no more than the lines the
\* cap dropped (listenbrainz.c).
THEOREM SentInOrderInvariant == Spec => []SentInOrder
<1>1. TypeOK /\ PlacesOK /\ SendsOK => SentInOrder
  BY LossIsBounded DEF SendsOK, SentInOrder
<1> QED
  BY <1>1, SendsInvariant, PTL

\* A step of the client is one of the outbox, or none: a delivery delivers the first
\* line not yet delivered, a removal forgets what was, a drop or damage degrades.
LEMMA OutboxStep ==
  ASSUME TypeOK, PlacesOK, SendsOK, [Next]_vars
  PROVE  [Outbox!Next]_<<file, server, ~durable \/ ~Whole>>
<1> USE DEF Line
<1> DEFINE degraded == ~durable \/ ~Whole
<1>1. /\ file \in Seq(Nat) /\ batch \in Seq(Nat) /\ server \in Seq(Nat) /\ next \in Nat
      /\ Len(file) \in Nat /\ Len(batch) \in Nat /\ sent \in Nat /\ drops \in Nat
      /\ DOMAIN file = 1..Len(file)
  BY DomainLen DEF TypeOK
<1>2. CASE degraded'
  BY <1>2 DEF Outbox!Next, Outbox!Degrade
<1>3. CASE ~degraded'
  <2>1. durable /\ ~damaged' /\ drops' = 0
    BY <1>3, AcceptedStep DEF Whole
  <2>2. CASE UNCHANGED <<file, accepted, drops, damaged>>
    <3>1. ~degraded /\ UNCHANGED degraded
      BY <2>1, <2>2, AcceptedStep DEF Whole
    <3>2. CASE UNCHANGED server
      BY <2>2, <3>1, <3>2
    <3>3. CASE /\ worker = "post" /\ server' = Append(server, batch[sent + 1])
               /\ sent + 1 \in 1..Len(batch)
      <4>1. /\ Len(batch) <= Len(file) /\ \A i \in 1..Len(batch) : batch[i] = file[i]
            /\ \A i \in 1..sent : batch[i] \in Range(server)
        BY <3>1, <3>3 DEF SendsOK, FlushOK
      <4>2. sent + 1 \in DOMAIN file /\ file[sent + 1] = batch[sent + 1]
        BY <1>1, <3>3, <4>1
      <4>3. \A j \in 1..(sent+1)-1 : file[j] \in Range(server)
        <5>1. \A j \in 1..(sent+1)-1 : j \in 1..sent /\ j \in 1..Len(batch)
          BY <1>1, <3>3
        <5> QED
          BY <4>1, <5>1
      <4>4. Outbox!Deliver
        <5>1. Outbox!Range(server) = Range(server)
          BY DEF Outbox!Range, Range
        <5>2. server' = Append(server, file[sent + 1])
          BY <3>3, <4>2
        <5>3. UNCHANGED <<file, ~durable \/ ~Whole>>
          BY <2>2, <3>1
        <5>4. \E i \in DOMAIN file : /\ \A j \in 1..i-1 : file[j] \in Outbox!Range(server)
                                     /\ server' = Append(server, file[i])
          <6>1. \A j \in 1..(sent+1)-1 : file[j] \in Outbox!Range(server)
            BY <4>3, <5>1
          <6> QED
            BY <4>2, <5>2, <6>1
        <5> QED
          BY <5>3, <5>4 DEF Outbox!Deliver
      <4> QED
        BY <3>1, <4>4 DEF Outbox!Next
    <3>4. ~(worker = "ping" /\ batch[1] # Torn)
      BY <2>1 DEF SendsOK, RingOK, Ping, Torn
    <3> QED
      BY <3>2, <3>3, <3>4, ServerStep
  <2>3. CASE /\ file' = Appended(file, next) /\ drops' = drops + Excess(Append(file, next))
             /\ UNCHANGED <<server, damaged>>
    <3>1. Excess(Append(file, next)) \in Nat
      <4>1. Excess(Append(file, next)) \in 0..Len(file) + 1
        BY <1>1, AppendedFrom
      <4> QED
        BY <4>1
    <3>2. Excess(Append(file, next)) = 0 /\ drops = 0
      BY <1>1, <2>1, <2>3, <3>1
    <3>3. ~degraded /\ UNCHANGED degraded
      BY <2>1, <2>3, <3>2, AcceptedStep DEF Whole
    <3>4. Outbox!Take
      BY <1>1, <2>3, <3>2, <3>3, AppendedLines DEF Outbox!Take
    <3> QED
      BY <3>3, <3>4 DEF Outbox!Next
  <2>4. CASE /\ file' = Removed(file, sent) /\ worker = "remove"
             /\ UNCHANGED <<server, drops, damaged>>
    <3>1. ~degraded /\ UNCHANGED degraded
      BY <2>1, <2>4, AcceptedStep DEF Whole
    <3>2. /\ Len(batch) <= Len(file) /\ \A i \in 1..Len(batch) : batch[i] = file[i]
          /\ \A i \in 1..sent : batch[i] \in Range(server)
          /\ sent > 0 /\ sent <= Len(batch)
      BY <2>4, <3>1 DEF SendsOK, FlushOK, PlacesOK
    <3>3. sent \in 1..Len(file) /\ (IF sent < Len(file) THEN sent ELSE Len(file)) = sent
      <4>1. sent <= Len(file) /\ sent > 0 /\ sent \in Nat /\ Len(file) \in Nat
        BY <1>1, <3>2
      <4>2. sent \in 1..Len(file)
        BY <4>1
      <4> QED
        BY <4>1, <4>2
    <3>4. file' = SubSeq(file, sent + 1, Len(file))
      BY <2>4, <3>3 DEF Removed, DropFirst
    <3>5. \A j \in 1..sent : file[j] \in Range(server)
      <4>1. \A j \in 1..sent : j \in 1..Len(batch)
        BY <1>1, <3>2
      <4> QED
        BY <3>2, <4>1
    <3>6. Outbox!Forget
      BY <2>4, <3>1, <3>3, <3>4, <3>5 DEF Outbox!Forget, Outbox!Range, Range
    <3> QED
      BY <3>1, <3>6 DEF Outbox!Next
  <2> QED
    BY <2>1, <2>2, <2>3, <2>4, QuietStep
<1> QED
  BY <1>2, <1>3

\* The client implements the outbox of ListenOutbox (listenbrainz.h).
THEOREM OutboxImplemented == Spec => ImplementsOutbox
<1>1. Init => Outbox!Init
  BY DEF Init, Outbox!Init, Whole
<1>2. TypeOK /\ PlacesOK /\ SendsOK /\ [Next]_vars
        => [Outbox!Next]_<<file, server, ~durable \/ ~Whole>>
  BY OutboxStep
<1> QED
  BY <1>1, <1>2, SendsInvariant, PTL DEF Spec, ImplementsOutbox, Outbox!Spec

(***************************************************************************)
(* The videos.                                                             *)
(***************************************************************************)
\* A job_t, and what of it never changes.
JobRec ==
  [id : Nat, source : Names, target : Targets, overwrite : BOOLEAN,
   state : {"waiting", "converting", "done", "failed"}, pid : BOOLEAN, cancelled : BOOLEAN,
   upload : Uploads]
Card(j) ==
  [id |-> j.id, source |-> j.source, upload |-> j.upload,
   ask |-> [target |-> j.target, overwrite |-> j.overwrite]]

Types ==
  /\ src \in [Names -> Uploads \union {None}]
  /\ jobfile \in [Names -> Asks \union {NoJob}]
  /\ videos \in [Finals -> Uploads \union {None, Part}]
  /\ out \in Uploads \union {None, Part} /\ copy \in Uploads \union {None}
  /\ pid \in Nat /\ seq \in Nat /\ crashes \in 0..MaxTrouble
  /\ nextUpload \in 1..MaxUploads + 1 /\ seq < nextUpload
  /\ jobs \in Seq(JobRec) /\ nextId \in Nat
  /\ converter \in {"off", "idle", "spawn", "follow", "install", "cleanup", "settle"}
  /\ good \in BOOLEAN /\ child \in {"none", "running", "ok", "failed"}
  /\ asked \in [Uploads -> Asks \union {NoJob}] /\ installs \in [Uploads -> Nat]
  /\ ended \subseteq Uploads /\ cut \subseteq Uploads

\* The worker has a job, which is in the list and found there by its id.
Busy == converter \notin {"off", "idle"}
ListOK ==
  /\ Len(jobs) <= MaxJobs
  /\ \A i, k \in DOMAIN jobs : jobs[i].id = jobs[k].id => i = k
  /\ \A i \in DOMAIN jobs : jobs[i].id < nextId
  /\ ~Up => jobs = <<>>
  /\ Busy => \E i \in DOMAIN jobs : jobs[i].id = cur /\ jobs[i].state = "converting"

\* The jobs whose files are to be there: those of one just cleaned up are not.
LiveAt(i) == Active(jobs[i]) /\ ~(converter = "settle" /\ jobs[i].id = cur)
Live == {Card(jobs[i]) : i \in {k \in DOMAIN jobs : LiveAt(k)}}

\* While rpod-web runs, the hidden files are those of its live jobs.
FilesOK ==
  /\ \A j \in Live : src[j.source] = j.upload /\ jobfile[j.source] = j.ask
  /\ \A j, k \in Live : j.source = k.source => j = k
  /\ Up => \A n \in Names : src[n] # None \/ jobfile[n] # NoJob => \E j \in Live : j.source = n

\* What a restart would take up is as it was asked for, fits in the list, and is
\* no upload twice; and the next name is a new one.
FolderOK ==
  /\ \A n \in Recoverable : jobfile[n] = asked[src[n]]
  /\ \A n, m \in Recoverable : src[n] = src[m] => n = m
  /\ Cardinality(Recoverable) <= MaxJobs
  /\ Up => pid = crashes
  /\ \A n \in Names : src[n] # None \/ jobfile[n] # NoJob =>
       n[1] < crashes \/ (Up /\ n[1] = crashes /\ n[2] < seq)

\* The uploads not taken yet are in no history.
AskedOK ==
  \A u \in Uploads : /\ asked[u] # NoJob => u < nextUpload
                     /\ asked[u] = NoJob => installs[u] = 0

\* What the places of the worker and of its child say of the output.
WorkOK ==
  /\ converter \in {"idle", "spawn", "settle"} => out = None
  /\ child \in {"running", "ok"} => converter = "follow"
  /\ converter = "install" => good
  /\ \A i \in DOMAIN jobs : jobs[i].id = cur =>
       /\ child = "running" => copy = jobs[i].upload
       /\ child = "ok" \/ converter = "install" => out = jobs[i].upload
       /\ converter \in {"cleanup", "settle"} /\ good => installs[jobs[i].upload] > 0

\* What a restart would take up has not become a video yet, or is one of those a
\* crash has cut off, or the worker is about to remove its files.
JobOnceOK ==
  \A n \in Recoverable :
    \/ installs[src[n]] = 0 \/ src[n] \in cut
    \/ /\ converter = "cleanup" /\ good
       /\ \E i \in DOMAIN jobs : jobs[i].id = cur /\ jobs[i].source = n

\* The names tried are of the folder, and what counts a bound.
CountsOK == attempt \in 1..MaxCopies /\ hands \in Nat

\* What a step does to the videos there: replaces none but by one that may.
OnlyAsked ==
  \A f \in Finals : videos[f] # None /\ videos'[f] \notin {videos[f], None}
    => asked[videos'[f]].overwrite /\ f \notin byHand'

JobsInv ==
  /\ Types /\ ListOK /\ FilesOK /\ FolderOK /\ AskedOK /\ WorkOK /\ JobOnceOK
  /\ UploadKept /\ TwiceOnlyIfCut /\ VideosAsAsked
-----------------------------------------------------------------------------
(* Sequences of jobs. *)

\* What a job never changes is typed.
LEMMA CardTypes ==
  ASSUME NEW j \in JobRec
  PROVE  /\ Card(j).id = j.id /\ Card(j).source = j.source /\ Card(j).upload = j.upload
         /\ Card(j).ask = [target |-> j.target, overwrite |-> j.overwrite]
         /\ j.id \in Nat /\ j.source \in Names /\ j.upload \in Uploads /\ Card(j).ask \in Asks
         /\ j.target \in Targets /\ j.overwrite \in BOOLEAN
  BY DEF JobRec, Card, Asks

\* prune() leaves some of the jobs, each once, and among them all that are active.
LEMMA PrunedCarries ==
  ASSUME NEW js \in Seq(JobRec), NEW t \in Pruned(js)
  PROVE  /\ t \in Seq(JobRec) /\ Len(t) <= Len(js)
         /\ \E f \in [DOMAIN t -> DOMAIN js] :
              /\ \A i, k \in DOMAIN t : f[i] = f[k] => i = k
              /\ \A i \in DOMAIN t : t[i] = js[f[i]]
              /\ \A k \in DOMAIN js : Active(js[k]) => \E i \in DOMAIN t : f[i] = k
<1>1. PICK at \in Selections(js) :
        /\ \A k \in DOMAIN js : Active(js[k]) => k \in Range(at)
        /\ t = [i \in DOMAIN at |-> js[at[i]]]
  BY DEF Pruned
<1>2. PICK n \in 0..Len(js) : at \in [1..n -> DOMAIN js]
  BY DEF Selections
<1>3. n \in Nat /\ n <= Len(js) /\ DOMAIN at = 1..n /\ DOMAIN js = 1..Len(js)
  BY <1>2
<1>4. \A i, k \in DOMAIN at : at[i] = at[k] => i = k
  <2>1. \A i, k \in DOMAIN at : i < k => at[i] < at[k]
    BY DEF Selections
  <2>2. \A i \in DOMAIN at : at[i] \in Nat
    BY <1>2, <1>3
  <2> QED
    BY <1>3, <2>1, <2>2
<1>5. \A k \in 1..Len(js) : js[k] \in JobRec
  OBVIOUS
<1>6. t \in [1..n -> JobRec]
  BY <1>1, <1>2, <1>3, <1>5
<1>7. t \in Seq(JobRec) /\ Len(t) = n /\ DOMAIN t = DOMAIN at
  BY <1>1, <1>3, <1>6, SeqDef
<1> QED
  BY <1>1, <1>2, <1>3, <1>4, <1>7 DEF Range

\* A job's progress is made in its place.
LEMMA EditCarries ==
  ASSUME NEW js \in Seq(JobRec), NEW i \in DOMAIN js, NEW e \in JobRec, Card(e) = Card(js[i]),
         NEW t, t = [js EXCEPT ![i] = e]
  PROVE  /\ t \in Seq(JobRec) /\ Len(t) = Len(js) /\ DOMAIN t = DOMAIN js
         /\ t[i] = e /\ \A k \in DOMAIN js : k # i => t[k] = js[k]
         /\ \A k \in DOMAIN js : Card(t[k]) = Card(js[k])
<1>1. DOMAIN js = 1..Len(js)
  OBVIOUS
<1>2. /\ t \in Seq(JobRec) /\ Len(t) = Len(js)
      /\ \A k \in 1..Len(js) : t[k] = IF k = i THEN e ELSE js[k]
  BY <1>1, ExceptSeq
<1> QED
  BY <1>1, <1>2

\* The worker finds the job it has by its id.
LEMMA JobIs ==
  ASSUME ListOK, NEW i \in DOMAIN jobs, jobs[i].id = cur
  PROVE  JobAt = i /\ Job = jobs[i]
<1>1. \A k \in DOMAIN jobs : jobs[k].id = cur => k = i
  BY DEF ListOK
<1>2. JobAt \in DOMAIN jobs /\ jobs[JobAt].id = cur
  BY DEF JobAt
<1> QED
  BY <1>1, <1>2 DEF Job

\* The names of so many jobs are as many at most.
LEMMA SourcesFit ==
  ASSUME NEW R, NEW js \in Seq(JobRec), \A n \in R : \E i \in DOMAIN js : js[i].source = n
  PROVE  IsFiniteSet(R) /\ Cardinality(R) <= Len(js)
<1> DEFINE f == [n \in R |-> CHOOSE i \in DOMAIN js : js[i].source = n]
<1>1. \A n \in R : f[n] \in DOMAIN js /\ js[f[n]].source = n
  OBVIOUS
<1>2. DOMAIN js = 1..Len(js) /\ Len(js) \in Nat
  OBVIOUS
<1>3. f \in [R -> 1..Len(js)]
  BY <1>1, <1>2
<1>4. \A n, m \in R : f[n] = f[m] => n = m
  BY <1>1
<1> HIDE DEF f
<1>5. f \in Injection(R, 1..Len(js))
  BY <1>3, <1>4 DEF Injection, IsInjective
<1>6. IsFiniteSet(1..Len(js)) /\ Cardinality(1..Len(js)) = Len(js)
  BY <1>2, FS_Interval
<1>7. IsFiniteSet(R) /\ Cardinality(R) <= Cardinality(1..Len(js))
  BY <1>5, <1>6, FS_Injection
<1> QED
  BY <1>6, <1>7

\* There are finitely many names.
LEMMA NamesFinite == IsFiniteSet(Names) /\ \A S \in SUBSET Names : IsFiniteSet(S)
<1>1. IsFiniteSet(0..MaxTrouble) /\ IsFiniteSet(0..MaxUploads)
  BY VideoAssumption, FS_Interval
<1>2. IsFiniteSet(Names)
  BY <1>1, FS_Product DEF Names
<1> QED
  BY <1>2, FS_Subset
-----------------------------------------------------------------------------
(* Steps that make or remove no file. *)

\* Each job left is an earlier one, with no more than its progress changed, and
\* every one that has files is left.
Carries(f) ==
  /\ jobs' \in Seq(JobRec) /\ Len(jobs') <= Len(jobs)
  /\ f \in [DOMAIN jobs' -> DOMAIN jobs]
  /\ \A i, k \in DOMAIN jobs' : f[i] = f[k] => i = k
  /\ \A i \in DOMAIN jobs' : Card(jobs'[i]) = Card(jobs[f[i]]) /\ (LiveAt(i)' <=> LiveAt(f[i]))
  /\ \A k \in DOMAIN jobs : LiveAt(k) => \E i \in DOMAIN jobs' : f[i] = k

\* The ids stay different, and the live jobs are the same.
LEMMA Carried ==
  ASSUME Types, ListOK, NEW f, Carries(f), nextId' \in {nextId, nextId + 1}
  PROVE  /\ Len(jobs') <= MaxJobs
         /\ \A i, k \in DOMAIN jobs' : jobs'[i].id = jobs'[k].id => i = k
         /\ \A i \in DOMAIN jobs' :
              /\ jobs'[i].id < nextId' /\ f[i] \in DOMAIN jobs
              /\ jobs'[i].id = jobs[f[i]].id /\ jobs'[i].source = jobs[f[i]].source
              /\ jobs'[i].upload = jobs[f[i]].upload
         /\ Live' = Live
<1>1. /\ \A i \in DOMAIN jobs' : jobs'[i] \in JobRec
      /\ \A k \in DOMAIN jobs : jobs[k] \in JobRec
      /\ Len(jobs) \in Nat /\ Len(jobs') \in Nat
  BY DEF Types, Carries
<1>2. \A i \in DOMAIN jobs' :
        /\ f[i] \in DOMAIN jobs
        /\ jobs'[i].id = jobs[f[i]].id /\ jobs'[i].source = jobs[f[i]].source
        /\ jobs'[i].upload = jobs[f[i]].upload
  <2> SUFFICES ASSUME NEW i \in DOMAIN jobs'
               PROVE  /\ f[i] \in DOMAIN jobs
                      /\ jobs'[i].id = jobs[f[i]].id /\ jobs'[i].source = jobs[f[i]].source
                      /\ jobs'[i].upload = jobs[f[i]].upload
    OBVIOUS
  <2>1. f[i] \in DOMAIN jobs /\ Card(jobs'[i]) = Card(jobs[f[i]])
    BY DEF Carries
  <2> QED
    BY <2>1 DEF Card
<1>3. \A i, k \in DOMAIN jobs' : jobs'[i].id = jobs'[k].id => i = k
  <2>1. \A i, k \in DOMAIN jobs : jobs[i].id = jobs[k].id => i = k
    BY DEF ListOK
  <2>2. \A i, k \in DOMAIN jobs' : f[i] = f[k] => i = k
    BY DEF Carries
  <2> QED
    BY <1>2, <2>1, <2>2
<1>4. Len(jobs') <= MaxJobs
  <2>1. Len(jobs') <= Len(jobs) /\ Len(jobs) <= MaxJobs /\ MaxJobs \in Nat
    BY VideoAssumption DEF Carries, ListOK
  <2> QED
    BY <1>1, <2>1
<1>5. \A i \in DOMAIN jobs' : jobs'[i].id < nextId'
  <2>1. \A k \in DOMAIN jobs : jobs[k].id \in Nat /\ jobs[k].id < nextId
    BY <1>1 DEF ListOK, JobRec
  <2>2. nextId \in Nat
    BY DEF Types
  <2>3. \A k \in DOMAIN jobs : jobs[k].id < nextId'
    BY <2>1, <2>2
  <2> QED
    BY <1>2, <2>3
<1>6. Live' = Live
  <2>1. ASSUME NEW c \in Live PROVE c \in Live'
    <3>1. PICK k \in DOMAIN jobs : LiveAt(k) /\ c = Card(jobs[k])
      BY <2>1 DEF Live
    <3>2. PICK i \in DOMAIN jobs' : f[i] = k
      BY <3>1 DEF Carries
    <3>3. LiveAt(i)' /\ c = Card(jobs'[i])
      BY <3>1, <3>2 DEF Carries
    <3> QED
      BY <3>3 DEF Live
  <2>2. ASSUME NEW c \in Live' PROVE c \in Live
    <3>1. PICK i \in DOMAIN jobs' : LiveAt(i)' /\ c = Card(jobs'[i])
      BY <2>2 DEF Live
    <3>2. f[i] \in DOMAIN jobs /\ LiveAt(f[i]) /\ c = Card(jobs[f[i]])
      BY <3>1 DEF Carries
    <3> QED
      BY <3>2 DEF Live
  <2> QED
    BY <2>1, <2>2
<1> QED
  BY <1>2, <1>3, <1>4, <1>5, <1>6

\* What the files are stays as it was.
LEMMA FilesKept ==
  ASSUME JobsInv, Live' = Live, Up, Up', seq' \in {seq, seq + 1},
         UNCHANGED <<src, jobfile, pid, crashes, asked>>
  PROVE  FilesOK' /\ FolderOK' /\ Recoverable' = Recoverable
<1>1. FilesOK /\ FolderOK /\ seq \in Nat /\ Recoverable' = Recoverable
  BY DEF JobsInv, Types, Recoverable
<1>2. FilesOK'
  BY <1>1 DEF FilesOK
<1>3. \A n \in Names : src[n] # None \/ jobfile[n] # NoJob =>
        n[1] < crashes \/ (n[1] = crashes /\ n[2] < seq')
  <2>1. \A n \in Names : n[2] \in Nat
    BY VideoAssumption DEF Names
  <2>2. \A n \in Names : n[2] < seq => n[2] < seq'
    BY <1>1, <2>1
  <2> QED
    BY <1>1, <2>2 DEF FolderOK
<1>4. FolderOK'
  BY <1>1, <1>3 DEF FolderOK
<1> QED
  BY <1>1, <1>2, <1>4

\* What became of the uploads stays as it was.
LEMMA HistoryKept ==
  ASSUME JobsInv, nextUpload' \in {nextUpload, nextUpload + 1},
         UNCHANGED <<src, jobfile, videos, asked, installs, ended, cut, byHand>>
  PROVE  AskedOK' /\ UploadKept' /\ TwiceOnlyIfCut' /\ VideosAsAsked'
<1>1. AskedOK'
  <2>1. AskedOK /\ nextUpload \in Nat
    BY VideoAssumption DEF JobsInv, Types
  <2>2. \A u \in Uploads : u < nextUpload => u < nextUpload'
    BY <2>1 DEF Uploads
  <2> QED
    BY <2>1, <2>2 DEF AskedOK
<1>2. UploadKept' /\ TwiceOnlyIfCut' /\ VideosAsAsked'
  BY DEF JobsInv, UploadKept, TwiceOnlyIfCut, VideosAsAsked
<1> QED
  BY <1>1, <1>2

\* A step that makes and removes no file keeps the invariant, if it keeps to what
\* the places of the worker say.
LEMMA JobsQuietStep ==
  ASSUME JobsInv, Up, Up', NEW f, Carries(f), Types', WorkOK',
         Busy' => \E i \in DOMAIN jobs' : jobs'[i].id = cur' /\ jobs'[i].state = "converting",
         seq' \in {seq, seq + 1}, nextId' \in {nextId, nextId + 1},
         nextUpload' \in {nextUpload, nextUpload + 1},
         UNCHANGED <<src, jobfile, videos, pid, crashes, asked, ended, installs, cut, byHand>>,
         converter = "cleanup" => UNCHANGED <<converter, cur, good>>
  PROVE  JobsInv'
<1>1. Types /\ ListOK /\ JobOnceOK
  BY DEF JobsInv
<1>2. /\ Len(jobs') <= MaxJobs
      /\ \A i, k \in DOMAIN jobs' : jobs'[i].id = jobs'[k].id => i = k
      /\ \A i \in DOMAIN jobs' :
           /\ jobs'[i].id < nextId' /\ f[i] \in DOMAIN jobs
           /\ jobs'[i].id = jobs[f[i]].id /\ jobs'[i].source = jobs[f[i]].source
           /\ jobs'[i].upload = jobs[f[i]].upload
      /\ Live' = Live
  BY <1>1, Carried
<1>3. ListOK'
  BY <1>2 DEF ListOK
<1>4. FilesOK' /\ FolderOK' /\ Recoverable' = Recoverable
  BY <1>2, FilesKept
<1>5. AskedOK' /\ UploadKept' /\ TwiceOnlyIfCut' /\ VideosAsAsked'
  BY HistoryKept
<1>6. JobOnceOK'
  <2> SUFFICES ASSUME NEW n \in Recoverable, ~(installs[src[n]] = 0 \/ src[n] \in cut)
               PROVE  /\ converter' = "cleanup" /\ good'
                      /\ \E i \in DOMAIN jobs' : jobs'[i].id = cur' /\ jobs'[i].source = n
    BY <1>4 DEF JobOnceOK
  <2>1. PICK i \in DOMAIN jobs : jobs[i].id = cur /\ jobs[i].source = n
    BY <1>1 DEF JobOnceOK
  <2>2. converter = "cleanup" /\ good /\ UNCHANGED <<converter, cur, good>>
    BY <1>1 DEF JobOnceOK
  <2>3. LiveAt(i)
    BY <1>1, <2>1, <2>2 DEF ListOK, Busy, LiveAt, Active
  <2>4. PICK k \in DOMAIN jobs' : f[k] = i
    BY <2>3 DEF Carries
  <2> QED
    BY <1>2, <2>1, <2>2, <2>4
<1> QED
  BY <1>3, <1>4, <1>5, <1>6 DEF JobsInv

\* What is left by prune() of a list in which jobs have at most made progress.
LEMMA PrunedList ==
  ASSUME Types, NEW js \in Seq(JobRec), Len(js) = Len(jobs), jobs' \in Pruned(js),
         \A k \in DOMAIN jobs : Card(js[k]) = Card(jobs[k]),
         \A k \in DOMAIN jobs : LiveAt(k) => Active(js[k]),
         \A k \in DOMAIN jobs, j \in JobRec :
           j = js[k] => ((Active(j) /\ ~(converter' = "settle" /\ j.id = cur')) <=> LiveAt(k))
  PROVE  /\ jobs' \in Seq(JobRec)
         /\ \E f : /\ Carries(f)
                   /\ \A i \in DOMAIN jobs' : jobs'[i] = js[f[i]]
                   /\ \A k \in DOMAIN jobs : Active(js[k]) => \E i \in DOMAIN jobs' : f[i] = k
<1>1. /\ jobs' \in Seq(JobRec) /\ Len(jobs') <= Len(js)
      /\ \E f \in [DOMAIN jobs' -> DOMAIN js] :
           /\ \A i, k \in DOMAIN jobs' : f[i] = f[k] => i = k
           /\ \A i \in DOMAIN jobs' : jobs'[i] = js[f[i]]
           /\ \A k \in DOMAIN js : Active(js[k]) => \E i \in DOMAIN jobs' : f[i] = k
  BY PrunedCarries
<1>2. PICK f \in [DOMAIN jobs' -> DOMAIN js] :
        /\ \A i, k \in DOMAIN jobs' : f[i] = f[k] => i = k
        /\ \A i \in DOMAIN jobs' : jobs'[i] = js[f[i]]
        /\ \A k \in DOMAIN js : Active(js[k]) => \E i \in DOMAIN jobs' : f[i] = k
  BY <1>1
<1>3. DOMAIN js = DOMAIN jobs
  BY DEF Types
<1>4. \A i \in DOMAIN jobs' : jobs'[i] \in JobRec
  BY <1>1
<1>5. ASSUME NEW i \in DOMAIN jobs' PROVE LiveAt(i)' <=> LiveAt(f[i])
  <2>1. f[i] \in DOMAIN jobs /\ jobs'[i] = js[f[i]] /\ jobs'[i] \in JobRec
    BY <1>2, <1>3, <1>4
  <2> QED
    BY <2>1 DEF LiveAt, Active
<1>6. Carries(f)
  BY <1>1, <1>2, <1>3, <1>5 DEF Carries
<1> QED
  BY <1>1, <1>2, <1>3, <1>6

\* A list in which one job makes progress.
LEMMA EditedList ==
  ASSUME Types, NEW i \in DOMAIN jobs, NEW e \in JobRec, Card(e) = Card(jobs[i]),
         jobs' = [jobs EXCEPT ![i] = e],
         \A k \in DOMAIN jobs : LiveAt(k)' <=> LiveAt(k)
  PROVE  /\ jobs' \in Seq(JobRec) /\ DOMAIN jobs' = DOMAIN jobs /\ jobs'[i] = e
         /\ \A k \in DOMAIN jobs : k # i => jobs'[k] = jobs[k]
         /\ \E f : Carries(f)
<1>1. jobs \in Seq(JobRec) /\ DOMAIN jobs = 1..Len(jobs) /\ Len(jobs) \in Nat
  BY DEF Types
<1>2. /\ jobs' \in Seq(JobRec) /\ Len(jobs') = Len(jobs) /\ DOMAIN jobs' = DOMAIN jobs
      /\ jobs'[i] = e /\ \A k \in DOMAIN jobs : k # i => jobs'[k] = jobs[k]
      /\ \A k \in DOMAIN jobs : Card(jobs'[k]) = Card(jobs[k])
  BY <1>1, EditCarries
<1> DEFINE f == [k \in DOMAIN jobs |-> k]
<1>3. f \in [DOMAIN jobs' -> DOMAIN jobs] /\ \A k \in DOMAIN jobs : f[k] = k
  BY <1>2
<1> HIDE DEF f
<1>4. Carries(f)
  BY <1>1, <1>2, <1>3 DEF Carries
<1> QED
  BY <1>2, <1>4

\* The list as it was.
LEMMA SameList ==
  ASSUME Types, jobs' = jobs, \A k \in DOMAIN jobs : LiveAt(k)' <=> LiveAt(k)
  PROVE  \E f : Carries(f)
<1> DEFINE f == [k \in DOMAIN jobs |-> k]
<1>1. jobs \in Seq(JobRec) /\ Len(jobs) \in Nat
  BY DEF Types
<1>2. f \in [DOMAIN jobs' -> DOMAIN jobs] /\ \A k \in DOMAIN jobs : f[k] = k
  OBVIOUS
<1> HIDE DEF f
<1>3. Carries(f)
  BY <1>1, <1>2 DEF Carries
<1> QED
  BY <1>3

\* prune() alone, whatever the worker is at.
LEMMA PruneKeeps ==
  ASSUME JobsInv, Up, jobs' \in Pruned(jobs),
         seq' \in {seq, seq + 1}, nextId' \in {nextId, nextId + 1},
         nextUpload' \in {nextUpload, nextUpload + 1},
         nextUpload' \in 1..MaxUploads + 1, seq' < nextUpload',
         UNCHANGED <<src, jobfile, videos, out, pid, crashes, converter, cur, good, child, copy,
                     asked, ended, installs, cut, byHand>>
  PROVE  JobsInv'
<1>1. Types /\ ListOK /\ WorkOK /\ jobs \in Seq(JobRec) /\ seq \in Nat /\ nextId \in Nat
  BY DEF JobsInv, Types
<1>2. PICK f : /\ jobs' \in Seq(JobRec) /\ Carries(f)
               /\ \A i \in DOMAIN jobs' : jobs'[i] = jobs[f[i]]
               /\ \A k \in DOMAIN jobs : Active(jobs[k]) => \E i \in DOMAIN jobs' : f[i] = k
  <2>1. /\ \A k \in DOMAIN jobs : LiveAt(k) => Active(jobs[k])
        /\ \A k \in DOMAIN jobs, j \in JobRec :
             j = jobs[k] => ((Active(j) /\ ~(converter' = "settle" /\ j.id = cur')) <=> LiveAt(k))
    BY DEF LiveAt
  <2> QED
    BY <1>1, <2>1, PrunedList
<1>3. \A i \in DOMAIN jobs' : f[i] \in DOMAIN jobs
  BY <1>2 DEF Carries
<1>4. Types'
  <2>1. seq' \in Nat /\ nextId' \in Nat
    BY <1>1
  <2> QED
    BY <1>1, <1>2, <2>1 DEF Types
<1>5. WorkOK'
  BY <1>1, <1>2, <1>3 DEF WorkOK
<1>6. Busy' => \E i \in DOMAIN jobs' : jobs'[i].id = cur' /\ jobs'[i].state = "converting"
  <2> SUFFICES ASSUME Busy
               PROVE  \E i \in DOMAIN jobs' : jobs'[i].id = cur /\ jobs'[i].state = "converting"
    BY DEF Busy
  <2>1. PICK k \in DOMAIN jobs : jobs[k].id = cur /\ jobs[k].state = "converting"
    BY <1>1 DEF ListOK
  <2>2. PICK i \in DOMAIN jobs' : f[i] = k
    BY <1>2, <2>1 DEF Active
  <2> QED
    BY <1>2, <2>1, <2>2
<1> QED
  BY <1>2, <1>4, <1>5, <1>6, JobsQuietStep DEF Up

\* rpod_videos_clear_finished(), or a listing.
LEMMA ForgetKeeps ==
  ASSUME JobsInv, Forget
  PROVE  JobsInv'
<1>1. /\ Up /\ jobs' \in Pruned(jobs) /\ seq' = seq /\ nextId' = nextId /\ nextUpload' = nextUpload
      /\ UNCHANGED <<src, jobfile, videos, out, pid, crashes, converter, cur, good, child, copy,
                     asked, ended, installs, cut, byHand>>
  BY DEF Forget, folder, work, history
<1>2. nextUpload \in 1..MaxUploads + 1 /\ seq < nextUpload
  BY DEF JobsInv, Types
<1> QED
  BY <1>1, <1>2, PruneKeeps

\* The worker takes a job: nothing of the last one is left.
LEMMA PickKeeps ==
  ASSUME JobsInv, Pick
  PROVE  JobsInv'
<1>1. Types /\ ListOK /\ WorkOK /\ jobs \in Seq(JobRec)
  BY DEF JobsInv, Types
<1>2. PICK i \in DOMAIN jobs :
        /\ jobs[i].state = "waiting" /\ jobs' = [jobs EXCEPT ![i].state = "converting"]
        /\ cur' = jobs[i].id
  BY DEF Pick
<1>3. /\ converter = "idle" /\ converter' = "spawn"
      /\ UNCHANGED <<src, jobfile, videos, out, pid, seq, nextId, good, child, copy, nextUpload,
                     crashes, asked, ended, installs, cut, byHand>>
  BY DEF Pick, folder, history
<1> DEFINE e == [jobs[i] EXCEPT !.state = "converting"]
<1>4. /\ e \in JobRec /\ Card(e) = Card(jobs[i]) /\ e.id = jobs[i].id /\ e.state = "converting"
      /\ jobs' = [jobs EXCEPT ![i] = e]
  <2>1. jobs[i] \in JobRec
    BY <1>1
  <2> QED
    BY <1>2, <2>1 DEF JobRec, Card
<1> HIDE DEF e
<1>5. \A k \in DOMAIN jobs : LiveAt(k)' <=> LiveAt(k)
  <2>1. jobs'[i] = e /\ \A k \in DOMAIN jobs : k # i => jobs'[k] = jobs[k]
    BY <1>1, <1>4, EditCarries
  <2> QED
    BY <1>2, <1>3, <1>4, <2>1 DEF LiveAt, Active
<1>6. /\ jobs' \in Seq(JobRec) /\ DOMAIN jobs' = DOMAIN jobs /\ jobs'[i] = e
      /\ \E f : Carries(f)
  BY <1>1, <1>4, <1>5, EditedList
<1>7. Types'
  BY <1>1, <1>3, <1>6 DEF Types
<1>8. WorkOK'
  BY <1>1, <1>3 DEF WorkOK
<1>9. \E k \in DOMAIN jobs' : jobs'[k].id = cur' /\ jobs'[k].state = "converting"
  BY <1>2, <1>4, <1>6
<1> QED
  BY <1>3, <1>6, <1>7, <1>8, <1>9, JobsQuietStep DEF Up

\* A job whose child can't be started is left "converting".
LEMMA SpawnFailsKeeps ==
  ASSUME JobsInv, SpawnFails
  PROVE  JobsInv'
<1>1. Types /\ ListOK /\ WorkOK /\ jobs \in Seq(JobRec)
  BY DEF JobsInv, Types
<1>2. /\ converter = "spawn" /\ converter' = "idle" /\ jobs' \in Pruned(jobs)
      /\ UNCHANGED <<src, jobfile, videos, out, pid, seq, nextId, cur, good, child, copy,
                     nextUpload, crashes, asked, ended, installs, cut, byHand>>
  BY DEF SpawnFails, folder, history
<1>3. jobs' \in Seq(JobRec) /\ \E f : Carries(f)
  <2>1. /\ \A k \in DOMAIN jobs : LiveAt(k) => Active(jobs[k])
        /\ \A k \in DOMAIN jobs, j \in JobRec :
             j = jobs[k] => ((Active(j) /\ ~(converter' = "settle" /\ j.id = cur')) <=> LiveAt(k))
    BY <1>2 DEF LiveAt
  <2> QED
    BY <1>1, <1>2, <2>1, PrunedList
<1>4. Types'
  BY <1>1, <1>2, <1>3 DEF Types
<1>5. WorkOK'
  BY <1>1, <1>2 DEF WorkOK
<1>6. ~Busy'
  BY <1>2 DEF Busy
<1> QED
  BY <1>2, <1>3, <1>4, <1>5, <1>6, JobsQuietStep DEF Up

\* The job of a worker that is at work, and its files.
LEMMA JobAtWork ==
  ASSUME JobsInv, Busy
  PROVE  /\ JobAt \in DOMAIN jobs /\ Job = jobs[JobAt] /\ Job \in JobRec
         /\ Job.id = cur /\ Job.state = "converting"
         /\ \A k \in DOMAIN jobs : jobs[k].id = cur => k = JobAt
         /\ converter # "settle" => /\ Card(Job) \in Live
                                    /\ src[Job.source] = Job.upload
                                    /\ jobfile[Job.source] = Card(Job).ask
<1>1. Types /\ ListOK /\ FilesOK
  BY DEF JobsInv
<1>2. PICK i \in DOMAIN jobs : jobs[i].id = cur /\ jobs[i].state = "converting"
  BY <1>1 DEF ListOK
<1>3. JobAt = i /\ Job = jobs[i]
  BY <1>1, <1>2, JobIs
<1>4. Job \in JobRec
  BY <1>1, <1>3 DEF Types
<1>5. converter # "settle" => Card(Job) \in Live
  BY <1>2, <1>3 DEF Live, LiveAt, Active
<1>6. converter # "settle" => src[Job.source] = Job.upload /\ jobfile[Job.source] = Card(Job).ask
  <2>1. Card(Job).source = Job.source /\ Card(Job).upload = Job.upload
    BY <1>4, CardTypes
  <2>2. \A j \in Live : src[j.source] = j.upload /\ jobfile[j.source] = j.ask
    BY <1>1 DEF FilesOK
  <2> QED
    BY <1>5, <2>1, <2>2
<1>7. \A k \in DOMAIN jobs : jobs[k].id = cur => k = i
  BY <1>1, <1>2 DEF ListOK
<1> QED
  BY <1>2, <1>3, <1>4, <1>5, <1>6, <1>7

\* The child starts on the upload of the job.
LEMMA SpawnKeeps ==
  ASSUME JobsInv, Spawn
  PROVE  JobsInv'
<1>1. Types /\ ListOK /\ WorkOK /\ jobs \in Seq(JobRec)
  BY DEF JobsInv, Types
<1>2. /\ converter = "spawn" /\ converter' = "follow" /\ copy' = src[Job.source] /\ out' = Part
      /\ jobs' = [jobs EXCEPT ![JobAt].pid = TRUE]
      /\ child' \in {"failed", "running"}
      /\ UNCHANGED <<src, jobfile, videos, pid, seq, nextId, cur, good, nextUpload, crashes,
                     asked, ended, installs, cut, byHand>>
  BY DEF Spawn, history
<1>3. /\ JobAt \in DOMAIN jobs /\ Job = jobs[JobAt] /\ Job \in JobRec
      /\ Job.id = cur /\ Job.state = "converting"
      /\ \A k \in DOMAIN jobs : jobs[k].id = cur => k = JobAt
      /\ src[Job.source] = Job.upload /\ Job.upload \in Uploads
  BY <1>2, JobAtWork DEF Busy, JobRec
<1> DEFINE e == [Job EXCEPT !.pid = TRUE]
<1>4. /\ e \in JobRec /\ Card(e) = Card(Job) /\ e.id = cur /\ e.state = "converting"
      /\ e.upload = Job.upload /\ jobs' = [jobs EXCEPT ![JobAt] = e]
  BY <1>2, <1>3 DEF JobRec, Card
<1> HIDE DEF e
<1>5. \A k \in DOMAIN jobs : LiveAt(k)' <=> LiveAt(k)
  <2>1. jobs'[JobAt] = e /\ \A k \in DOMAIN jobs : k # JobAt => jobs'[k] = jobs[k]
    BY <1>1, <1>3, <1>4, EditCarries
  <2> QED
    BY <1>2, <1>3, <1>4, <2>1 DEF LiveAt, Active
<1>6. /\ jobs' \in Seq(JobRec) /\ DOMAIN jobs' = DOMAIN jobs /\ jobs'[JobAt] = e
      /\ \A k \in DOMAIN jobs : k # JobAt => jobs'[k] = jobs[k]
      /\ \E f : Carries(f)
  BY <1>1, <1>3, <1>4, <1>5, EditedList
<1>7. Types'
  <2>1. copy' \in Uploads \union {None} /\ out' \in Uploads \union {None, Part}
    BY <1>2, <1>3
  <2> QED
    BY <1>1, <1>2, <1>6, <2>1 DEF Types
<1>8. WorkOK'
  <2>1. \A i \in DOMAIN jobs' : jobs'[i].id = cur' => copy' = jobs'[i].upload
    BY <1>2, <1>3, <1>4, <1>6
  <2> QED
    BY <1>1, <1>2, <2>1 DEF WorkOK
<1>9. \E k \in DOMAIN jobs' : jobs'[k].id = cur' /\ jobs'[k].state = "converting"
  BY <1>2, <1>3, <1>4, <1>6
<1> QED
  BY <1>2, <1>6, <1>7, <1>8, <1>9, JobsQuietStep DEF Up

\* The child ends, with its upload converted or not.
LEMMA ChildEndsKeeps ==
  ASSUME JobsInv, ChildEnds
  PROVE  JobsInv'
<1>1. Types /\ ListOK /\ WorkOK
  BY DEF JobsInv
<1>2. /\ child = "running" /\ converter = "follow"
      /\ (child' = "ok" /\ out' = copy) \/ (child' = "failed" /\ out' = out)
      /\ UNCHANGED <<src, jobfile, videos, pid, seq, jobs, nextId, converter, cur, good, copy,
                     nextUpload, crashes, asked, ended, installs, cut, byHand>>
  BY <1>1 DEF ChildEnds, WorkOK, history
<1>3. \E f : Carries(f)
  BY <1>1, <1>2, SameList DEF LiveAt
<1>4. Types'
  BY <1>1, <1>2 DEF Types
<1>5. WorkOK'
  BY <1>1, <1>2 DEF WorkOK
<1>6. \E k \in DOMAIN jobs' : jobs'[k].id = cur' /\ jobs'[k].state = "converting"
  BY <1>1, <1>2 DEF ListOK, Busy
<1> QED
  BY <1>2, <1>3, <1>4, <1>5, <1>6, JobsQuietStep DEF Up

\* The output of a child that ended well is the job's upload, converted.
LEMMA ReapKeeps ==
  ASSUME JobsInv, Reap
  PROVE  JobsInv'
<1>1. Types /\ ListOK /\ WorkOK /\ jobs \in Seq(JobRec)
  BY DEF JobsInv, Types
<1>2. /\ converter = "follow" /\ child \in {"ok", "failed"} /\ child' = "none" /\ copy' = None
      /\ good' \in BOOLEAN
      /\ good' => child = "ok"
      /\ converter' = IF good' THEN "install" ELSE "cleanup"
      /\ jobs' = [jobs EXCEPT ![JobAt].pid = FALSE]
      /\ UNCHANGED <<src, jobfile, videos, out, pid, seq, nextId, cur, nextUpload, crashes,
                     asked, ended, installs, cut, byHand>>
  BY DEF Reap, folder, history
<1>3. /\ JobAt \in DOMAIN jobs /\ Job = jobs[JobAt] /\ Job \in JobRec
      /\ Job.id = cur /\ Job.state = "converting"
      /\ \A k \in DOMAIN jobs : jobs[k].id = cur => k = JobAt
  BY <1>2, JobAtWork DEF Busy
<1> DEFINE e == [Job EXCEPT !.pid = FALSE]
<1>4. /\ e \in JobRec /\ Card(e) = Card(Job) /\ e.id = cur /\ e.state = "converting"
      /\ e.upload = Job.upload /\ jobs' = [jobs EXCEPT ![JobAt] = e]
  BY <1>2, <1>3 DEF JobRec, Card
<1> HIDE DEF e
<1>5. \A k \in DOMAIN jobs : LiveAt(k)' <=> LiveAt(k)
  <2>1. jobs'[JobAt] = e /\ \A k \in DOMAIN jobs : k # JobAt => jobs'[k] = jobs[k]
    BY <1>1, <1>3, <1>4, EditCarries
  <2> QED
    BY <1>2, <1>3, <1>4, <2>1 DEF LiveAt, Active
<1>6. /\ jobs' \in Seq(JobRec) /\ DOMAIN jobs' = DOMAIN jobs /\ jobs'[JobAt] = e
      /\ \A k \in DOMAIN jobs : k # JobAt => jobs'[k] = jobs[k]
      /\ \E f : Carries(f)
  BY <1>1, <1>3, <1>4, <1>5, EditedList
<1>7. Types'
  <2>1. converter' \in {"install", "cleanup"} /\ copy' \in Uploads \union {None}
    BY <1>2
  <2>2. good' \in BOOLEAN /\ child' = "none"
    BY <1>2
  <2>3. UNCHANGED <<src, jobfile, videos, out, pid, seq, nextId, cur, nextUpload, crashes,
                    asked, ended, installs, cut, byHand>>
    BY <1>2
  <2> QED
    BY <1>1, <1>6, <2>1, <2>2, <2>3 DEF Types
<1>8. WorkOK'
  <2>1. good' => \A i \in DOMAIN jobs' : jobs'[i].id = cur' => out' = jobs'[i].upload
    BY <1>1, <1>2, <1>3, <1>4, <1>6 DEF WorkOK
  <2> QED
    BY <1>1, <1>2, <2>1 DEF WorkOK
<1>9. \E k \in DOMAIN jobs' : jobs'[k].id = cur' /\ jobs'[k].state = "converting"
  BY <1>2, <1>3, <1>4, <1>6
<1> QED
  BY <1>2, <1>6, <1>7, <1>8, <1>9, JobsQuietStep DEF Up

\* A job whose files are gone is over.
LEMMA SettleKeeps ==
  ASSUME JobsInv, Settle
  PROVE  JobsInv'
<1>1. Types /\ ListOK /\ WorkOK /\ jobs \in Seq(JobRec)
  BY DEF JobsInv, Types
<1>2. PICK s \in {"done", "failed"} :
        /\ converter = "settle" /\ converter' = "idle"
        /\ jobs' \in Pruned([jobs EXCEPT ![JobAt].state = s])
        /\ UNCHANGED <<src, jobfile, videos, out, pid, seq, nextId, cur, good, child, copy,
                       nextUpload, crashes, asked, ended, installs, cut, byHand>>
  BY DEF Settle, folder, history
<1>3. /\ JobAt \in DOMAIN jobs /\ Job = jobs[JobAt] /\ Job \in JobRec /\ Job.id = cur
      /\ \A k \in DOMAIN jobs : jobs[k].id = cur => k = JobAt
  BY <1>2, JobAtWork DEF Busy
<1> DEFINE e  == [Job EXCEPT !.state = s]
           js == [jobs EXCEPT ![JobAt] = e]
<1>4. /\ e \in JobRec /\ Card(e) = Card(Job) /\ e.id = cur /\ ~Active(e)
      /\ jobs' \in Pruned(js)
  BY <1>2, <1>3 DEF JobRec, Card, Active
<1> HIDE DEF e
<1>5. /\ js \in Seq(JobRec) /\ Len(js) = Len(jobs) /\ DOMAIN js = DOMAIN jobs
      /\ js[JobAt] = e /\ \A k \in DOMAIN jobs : k # JobAt => js[k] = jobs[k]
      /\ \A k \in DOMAIN jobs : Card(js[k]) = Card(jobs[k])
  BY <1>1, <1>3, <1>4, EditCarries
<1> HIDE DEF js
<1>6. /\ \A k \in DOMAIN jobs : LiveAt(k) => Active(js[k])
      /\ \A k \in DOMAIN jobs, j \in JobRec :
           j = js[k] => ((Active(j) /\ ~(converter' = "settle" /\ j.id = cur')) <=> LiveAt(k))
  BY <1>2, <1>3, <1>4, <1>5 DEF LiveAt
<1>7. jobs' \in Seq(JobRec) /\ \E f : Carries(f)
  BY <1>1, <1>4, <1>5, <1>6, PrunedList
<1>8. Types'
  BY <1>1, <1>2, <1>7 DEF Types
<1>9. WorkOK'
  BY <1>1, <1>2 DEF WorkOK
<1>10. ~Busy'
  BY <1>2 DEF Busy
<1> QED
  BY <1>2, <1>7, <1>8, <1>9, <1>10, JobsQuietStep DEF Up

\* A cancel kills the child of the job under way, and leaves the rest to the worker.
LEMMA CancelUnderWayKeeps ==
  ASSUME JobsInv, NEW i \in DOMAIN jobs, Cancel(i), jobs[i].state # "waiting"
  PROVE  JobsInv'
<1>1. Types /\ ListOK /\ WorkOK /\ jobs \in Seq(JobRec)
  BY DEF JobsInv, Types
<1>2. /\ Up /\ jobs' = [jobs EXCEPT ![i].cancelled = TRUE]
      /\ child' = child \/ (child = "running" /\ child' = "failed")
      /\ UNCHANGED <<src, jobfile, videos, out, pid, seq, nextId, converter, cur, good, copy,
                     nextUpload, crashes, asked, ended, installs, cut, byHand>>
  BY DEF Cancel
<1> DEFINE e == [jobs[i] EXCEPT !.cancelled = TRUE]
<1>3. jobs[i] \in JobRec
  BY <1>1
<1>4. /\ e \in JobRec /\ Card(e) = Card(jobs[i]) /\ e.id = jobs[i].id
      /\ e.state = jobs[i].state /\ e.upload = jobs[i].upload /\ jobs' = [jobs EXCEPT ![i] = e]
  BY <1>2, <1>3 DEF JobRec, Card
<1> HIDE DEF e
<1>5. \A k \in DOMAIN jobs : LiveAt(k)' <=> LiveAt(k)
  <2>1. jobs'[i] = e /\ \A k \in DOMAIN jobs : k # i => jobs'[k] = jobs[k]
    BY <1>1, <1>4, EditCarries
  <2> QED
    BY <1>2, <1>4, <2>1 DEF LiveAt, Active
<1>6. /\ jobs' \in Seq(JobRec) /\ DOMAIN jobs' = DOMAIN jobs /\ jobs'[i] = e
      /\ \A k \in DOMAIN jobs : k # i => jobs'[k] = jobs[k]
      /\ \E f : Carries(f)
  BY <1>1, <1>4, <1>5, EditedList
<1>7. \A k \in DOMAIN jobs : /\ jobs'[k].id = jobs[k].id /\ jobs'[k].upload = jobs[k].upload
                             /\ jobs'[k].state = jobs[k].state
  BY <1>4, <1>6
<1>8. Types'
  BY <1>1, <1>2, <1>6 DEF Types
<1>9. WorkOK'
  BY <1>1, <1>2, <1>6, <1>7 DEF WorkOK
<1>10. Busy' => \E k \in DOMAIN jobs' : jobs'[k].id = cur' /\ jobs'[k].state = "converting"
  BY <1>1, <1>2, <1>6, <1>7 DEF ListOK, Busy
<1> QED
  BY <1>2, <1>6, <1>8, <1>9, <1>10, JobsQuietStep DEF Up

\* Only the videos change, and are as asked.
LEMMA FolderOnlyKeeps ==
  ASSUME JobsInv, videos' \in [Finals -> Uploads \union {None, Part}], VideosAsAsked',
         UNCHANGED <<src, jobfile, out, pid, seq, jobs, nextId, converter, cur, good,
                     child, copy, nextUpload, crashes, asked, ended, installs, cut>>
  PROVE  JobsInv'
<1>1. /\ Types /\ ListOK /\ FilesOK /\ FolderOK /\ AskedOK /\ WorkOK /\ JobOnceOK
      /\ UploadKept /\ TwiceOnlyIfCut
  BY DEF JobsInv
<1>2. Live' = Live /\ Recoverable' = Recoverable /\ Up' = Up /\ Busy' = Busy
  BY DEF Live, LiveAt, Recoverable, Up, Busy
<1>3. Types' /\ ListOK'
  BY <1>1, <1>2 DEF Types, ListOK
<1>4. FilesOK' /\ FolderOK'
  BY <1>1, <1>2 DEF FilesOK, FolderOK
<1>5. AskedOK' /\ WorkOK' /\ JobOnceOK'
  BY <1>1, <1>2 DEF AskedOK, WorkOK, JobOnceOK
<1>6. UploadKept' /\ TwiceOnlyIfCut'
  BY <1>1 DEF UploadKept, TwiceOnlyIfCut
<1> QED
  BY <1>3, <1>4, <1>5, <1>6 DEF JobsInv

\* Nothing that the invariant speaks of changes.
LEMMA SameKeeps ==
  ASSUME JobsInv,
         UNCHANGED <<src, jobfile, videos, out, pid, seq, jobs, nextId, converter, cur, good,
                     child, copy, nextUpload, crashes, asked, ended, installs, cut, byHand>>
  PROVE  JobsInv'
<1>1. videos' \in [Finals -> Uploads \union {None, Part}] /\ VideosAsAsked'
  BY DEF JobsInv, Types, VideosAsAsked
<1> QED
  BY <1>1, FolderOnlyKeeps

\* The output of the job is put in place, or can't be: a video is replaced only by
\* an upload that may, and the upload has not become one before, or was cut off.
PutInPlace ==
  LET f == <<Job.target, attempt>> IN
  /\ converter = "install" /\ converter' = "cleanup"
  /\ UNCHANGED <<src, jobfile, pid, seq, jobs, nextId, cur, child, copy, nextUpload,
                 crashes, asked, ended, cut>>
  /\ \/ /\ videos' = videos /\ installs' = installs /\ byHand' = byHand
        /\ good' = FALSE /\ out' \in {None, out}
     \/ /\ TakesName(f) /\ videos' = [videos EXCEPT ![f] = out] /\ byHand' = byHand \ {f}
        /\ installs' = [installs EXCEPT ![Job.upload] = @ + 1]
        /\ out' = None /\ good' = good

LEMMA PutInPlaceKeeps ==
  ASSUME JobsInv, CountsOK, PutInPlace
  PROVE  JobsInv' /\ OnlyAsked
<1> DEFINE f0 == <<Job.target, attempt>>
<1>1. /\ Types /\ ListOK /\ WorkOK /\ FilesOK /\ FolderOK /\ AskedOK /\ JobOnceOK
      /\ UploadKept /\ TwiceOnlyIfCut /\ VideosAsAsked
  BY DEF JobsInv
<1>2. /\ converter = "install" /\ converter' = "cleanup"
      /\ UNCHANGED <<src, jobfile, pid, seq, jobs, nextId, cur, child, copy, nextUpload,
                     crashes, asked, ended, cut>>
  BY DEF PutInPlace
<1>3. /\ JobAt \in DOMAIN jobs /\ Job = jobs[JobAt] /\ Job \in JobRec
      /\ Job.id = cur /\ Job.state = "converting"
      /\ \A k \in DOMAIN jobs : jobs[k].id = cur => k = JobAt
      /\ src[Job.source] = Job.upload /\ jobfile[Job.source] = Card(Job).ask
      /\ Job.upload \in Uploads /\ Job.source \in Names
  BY <1>2, JobAtWork DEF Busy, JobRec
<1>4. /\ good /\ out = Job.upload
      /\ Job.source \in Recoverable /\ asked[Job.upload] = Card(Job).ask
      /\ asked[Job.upload].target = Job.target /\ asked[Job.upload].overwrite = Job.overwrite
      /\ asked[Job.upload] # NoJob
  <2>1. good /\ out = Job.upload
    BY <1>1, <1>2, <1>3 DEF WorkOK
  <2>2. Card(Job).ask = [target |-> Job.target, overwrite |-> Job.overwrite]
    BY DEF Card
  <2>3. Job.target # None /\ Job.upload # None
    BY <1>3, VideoAssumption DEF JobRec, Uploads, None
  <2>4. Card(Job).ask # NoJob
    BY <2>2, <2>3 DEF NoJob
  <2>5. Job.source \in Recoverable
    BY <1>3, <2>3, <2>4 DEF Recoverable
  <2>6. asked[Job.upload] = Card(Job).ask
    BY <1>1, <1>3, <2>5 DEF FolderOK
  <2> QED
    BY <2>1, <2>2, <2>4, <2>5, <2>6
<1>5. \/ /\ videos' = videos /\ installs' = installs /\ byHand' = byHand
         /\ good' = FALSE /\ out' \in {None, out}
      \/ /\ Job.overwrite \/ videos[f0] = None
         /\ videos' = [videos EXCEPT ![f0] = Job.upload] /\ byHand' = byHand \ {f0}
         /\ installs' = [installs EXCEPT ![Job.upload] = @ + 1]
         /\ out' = None /\ good' = good
  BY <1>4 DEF PutInPlace, TakesName
<1>6. f0 \in Finals /\ f0[1] = Job.target
  BY <1>3 DEF CountsOK, Finals, JobRec
<1> HIDE DEF f0
<1>7. Types'
  <2>1. videos' \in [Finals -> Uploads \union {None, Part}] /\ installs' \in [Uploads -> Nat]
    <3>1. videos \in [Finals -> Uploads \union {None, Part}] /\ installs \in [Uploads -> Nat]
      BY <1>1 DEF Types
    <3>2. videos' = videos \/ \E f \in Finals : videos' = [videos EXCEPT ![f] = Job.upload]
      BY <1>5, <1>6
    <3>3. installs' = installs \/ installs' = [installs EXCEPT ![Job.upload] = @ + 1]
      BY <1>5
    <3>4. videos' \in [Finals -> Uploads \union {None, Part}]
      BY <1>3, <3>1, <3>2
    <3>5. installs' \in [Uploads -> Nat]
      BY <1>3, <3>1, <3>3
    <3> QED
      BY <3>4, <3>5
  <2>2. good' \in BOOLEAN /\ out' \in Uploads \union {None, Part}
    BY <1>1, <1>5 DEF Types
  <2> QED
    BY <1>1, <1>2, <2>1, <2>2 DEF Types
<1>8. Live' = Live /\ Recoverable' = Recoverable
  BY <1>2 DEF Live, LiveAt, Recoverable
<1>9. ListOK' /\ FilesOK' /\ FolderOK'
  <2>1. ListOK'
    BY <1>1, <1>2 DEF ListOK, Up, Busy
  <2>2. FilesOK'
    BY <1>1, <1>2, <1>8 DEF FilesOK, Up
  <2>3. FolderOK'
    BY <1>1, <1>2, <1>8 DEF FolderOK, Up
  <2> QED
    BY <2>1, <2>2, <2>3
<1>10. /\ \A u \in Uploads : installs[u] \in Nat /\ installs'[u] \in Nat
       /\ \A u \in Uploads : u # Job.upload => installs'[u] = installs[u]
       /\ good' => installs'[Job.upload] > 0
       /\ \A u \in Uploads : installs[u] > 0 => installs'[u] > 0
       /\ ~good' => installs' = installs
  <2>1. \A u \in Uploads : installs[u] \in Nat /\ installs'[u] \in Nat
    BY <1>1, <1>7 DEF Types
  <2>2. CASE installs' = installs /\ good' = FALSE
    BY <2>1, <2>2
  <2>3. CASE installs' = [installs EXCEPT ![Job.upload] = @ + 1] /\ good' = good
    <3>1. installs \in [Uploads -> Nat]
      BY <1>1 DEF Types
    <3>2. /\ installs'[Job.upload] = installs[Job.upload] + 1
          /\ \A u \in Uploads : u # Job.upload => installs'[u] = installs[u]
      BY <1>3, <2>3, <3>1
    <3>3. installs'[Job.upload] > 0
      BY <1>3, <2>1, <3>2
    <3> QED
      BY <1>4, <2>1, <2>3, <3>2, <3>3
  <2> QED
    BY <1>5, <2>2, <2>3
<1>11. AskedOK' /\ UploadKept'
  <2>1. AskedOK'
    BY <1>1, <1>2, <1>4, <1>10 DEF AskedOK
  <2>2. UploadKept'
    BY <1>1, <1>2, <1>10 DEF UploadKept
  <2> QED
    BY <2>1, <2>2
<1>12. WorkOK'
  <2>1. \A i \in DOMAIN jobs' : jobs'[i].id = cur' => jobs'[i].upload = Job.upload
    BY <1>2, <1>3
  <2>2. child' \notin {"running", "ok"}
    BY <1>1, <1>2 DEF WorkOK
  <2> QED
    BY <1>2, <1>10, <2>1, <2>2 DEF WorkOK
<1>13. installs[Job.upload] = 0 \/ Job.upload \in cut
  BY <1>1, <1>2, <1>3, <1>4 DEF JobOnceOK
<1>14. TwiceOnlyIfCut'
  <2>1. installs'[Job.upload] > 1 => Job.upload \in cut
    BY <1>1, <1>3, <1>5, <1>10, <1>13 DEF Types, TwiceOnlyIfCut
  <2> QED
    BY <1>1, <1>2, <1>10, <2>1 DEF TwiceOnlyIfCut
<1>15. JobOnceOK'
  <2>1. ASSUME NEW n \in Recoverable
        PROVE  \/ installs'[src[n]] = 0 \/ src[n] \in cut
               \/ good' /\ \E i \in DOMAIN jobs : jobs[i].id = cur /\ jobs[i].source = n
    <3>1. CASE n = Job.source
      BY <1>2, <1>3, <1>10, <1>13, <3>1
    <3>2. CASE n # Job.source
      <4>1. src[n] # Job.upload /\ src[n] \in Uploads
        BY <1>1, <1>3, <1>4, <3>2 DEF FolderOK, Recoverable, Types
      <4>2. installs[src[n]] = 0 \/ src[n] \in cut
        BY <1>1, <1>2 DEF JobOnceOK
      <4> QED
        BY <1>10, <4>1, <4>2
    <3> QED
      BY <3>1, <3>2
  <2> QED
    BY <1>2, <1>8, <2>1 DEF JobOnceOK
<1>16. CASE videos' = videos /\ byHand' = byHand
  BY <1>1, <1>2, <1>7, <1>9, <1>11, <1>12, <1>14, <1>15, <1>16 DEF VideosAsAsked, OnlyAsked, JobsInv
<1>17. CASE /\ Job.overwrite \/ videos[f0] = None
            /\ videos' = [videos EXCEPT ![f0] = Job.upload] /\ byHand' = byHand \ {f0}
  <2>1. /\ videos'[f0] = Job.upload /\ \A f \in Finals : f # f0 => videos'[f] = videos[f]
    BY <1>1, <1>6, <1>17 DEF Types
  <2>2. VideosAsAsked'
    BY <1>1, <1>2, <1>3, <1>4, <1>6, <1>17, <2>1 DEF VideosAsAsked
  <2>3. OnlyAsked
    BY <1>4, <1>17, <2>1 DEF OnlyAsked
  <2> QED
    BY <1>7, <1>9, <1>11, <1>12, <1>14, <1>15, <2>2, <2>3 DEF JobsInv
<1> QED
  BY <1>5, <1>16, <1>17

\* install() at one of its names.
LEMMA InstallKeeps ==
  ASSUME JobsInv, CountsOK, Install
  PROVE  JobsInv' /\ OnlyAsked
<1>1. \/ PutInPlace
      \/ /\ converter = "install"
         /\ UNCHANGED <<src, jobfile, videos, out, pid, seq, jobs, nextId, converter, cur, good,
                        child, copy, nextUpload, crashes, asked, ended, installs, cut, byHand>>
  BY DEF Install, PutInPlace
<1>2. CASE PutInPlace
  BY <1>2, PutInPlaceKeeps
<1>3. CASE /\ converter = "install"
           /\ UNCHANGED <<src, jobfile, videos, out, pid, seq, jobs, nextId, converter, cur, good,
                          child, copy, nextUpload, crashes, asked, ended, installs, cut, byHand>>
  <2>1. JobsInv'
    BY <1>3, SameKeeps
  <2> QED
    BY <1>3, <2>1 DEF OnlyAsked
<1> QED
  BY <1>1, <1>2, <1>3

\* A video deleted or renamed from a page.
LEMMA ByHandKeeps ==
  ASSUME JobsInv, NEW f \in Finals, NEW h \in Finals, DeleteVideo(f) \/ RenameVideo(f, h)
  PROVE  JobsInv' /\ OnlyAsked
<1>1. /\ videos \in [Finals -> Uploads \union {None, Part}] /\ VideosAsAsked
      /\ UNCHANGED <<src, jobfile, out, pid, seq, jobs, nextId, converter, cur, good,
                     child, copy, nextUpload, crashes, asked, ended, installs, cut>>
  BY DEF JobsInv, Types, DeleteVideo, RenameVideo, OnlyVideos, work
<1>2. CASE DeleteVideo(f)
  <2>1. /\ videos' \in [Finals -> Uploads \union {None, Part}]
        /\ videos'[f] = None /\ \A g \in Finals : g # f => videos'[g] = videos[g]
        /\ byHand' = byHand \ {f}
    BY <1>1, <1>2 DEF DeleteVideo
  <2>2. VideosAsAsked' /\ OnlyAsked
    BY <1>1, <2>1 DEF VideosAsAsked, OnlyAsked
  <2> QED
    BY <1>1, <2>1, <2>2, FolderOnlyKeeps
<1>3. CASE RenameVideo(f, h)
  <2>1. /\ videos[f] # None /\ videos[h] = None
        /\ videos' = [videos EXCEPT ![f] = None, ![h] = videos[f]]
        /\ byHand' = (byHand \ {f}) \union {h}
    BY <1>3 DEF RenameVideo
  <2>2. /\ videos' \in [Finals -> Uploads \union {None, Part}] /\ f # h
        /\ videos'[f] = None /\ videos'[h] = videos[f]
        /\ \A g \in Finals : g # f /\ g # h => videos'[g] = videos[g]
    BY <1>1, <2>1
  <2>3. VideosAsAsked' /\ OnlyAsked
    BY <1>1, <2>1, <2>2 DEF VideosAsAsked, OnlyAsked
  <2> QED
    BY <1>1, <2>2, <2>3, FolderOnlyKeeps
<1> QED
  BY <1>2, <1>3
-----------------------------------------------------------------------------
(* Steps that make or remove files. *)

\* The files of a live job are removed, and it is live no more: it is one of those
\* that failed or were cancelled, or is a video.
LEMMA RemovalKeeps ==
  ASSUME JobsInv, Up, Up', NEW c \in Live, Live' = Live \ {c},
         src' = [src EXCEPT ![c.source] = None], jobfile' = [jobfile EXCEPT ![c.source] = NoJob],
         ended \subseteq ended', c.upload \in ended' \/ installs[c.upload] > 0,
         UNCHANGED <<videos, pid, seq, crashes, nextUpload, asked, installs, cut, byHand>>
  PROVE  /\ FilesOK' /\ FolderOK' /\ UploadKept' /\ AskedOK' /\ TwiceOnlyIfCut' /\ VideosAsAsked'
         /\ Recoverable' = Recoverable \ {c.source} /\ c.source \in Names
         /\ src' \in [Names -> Uploads \union {None}]
         /\ jobfile' \in [Names -> Asks \union {NoJob}]
         /\ \A n \in Recoverable' : src'[n] = src[n]
<1>1. Types /\ FilesOK /\ FolderOK /\ UploadKept
  BY DEF JobsInv
<1>2. c.source \in Names /\ src[c.source] = c.upload
  <2>1. PICK i \in DOMAIN jobs : c = Card(jobs[i])
    BY DEF Live
  <2>2. jobs[i] \in JobRec
    BY <1>1 DEF Types
  <2> QED
    BY <1>1, <2>1, <2>2, CardTypes DEF FilesOK
<1>3. /\ src' \in [Names -> Uploads \union {None}]
      /\ jobfile' \in [Names -> Asks \union {NoJob}]
      /\ src'[c.source] = None /\ jobfile'[c.source] = NoJob
      /\ \A n \in Names : n # c.source => src'[n] = src[n] /\ jobfile'[n] = jobfile[n]
  BY <1>1, <1>2 DEF Types
<1>4. Recoverable' = Recoverable \ {c.source} /\ \A n \in Recoverable' : src'[n] = src[n]
  BY <1>2, <1>3 DEF Recoverable
<1>5. FilesOK'
  <2>1. \A j \in Live' : j \in Live /\ j # c /\ j.source # c.source
    BY <1>1 DEF FilesOK
  <2>2. \A j \in Live' : j.source \in Names
    <3> SUFFICES ASSUME NEW j \in Live PROVE j.source \in Names
      BY <2>1
    <3>1. PICK i \in DOMAIN jobs : j = Card(jobs[i])
      BY DEF Live
    <3>2. jobs[i] \in JobRec
      BY <1>1 DEF Types
    <3> QED
      BY <3>1, <3>2, CardTypes
  <2>3. \A j \in Live' : src'[j.source] = j.upload /\ jobfile'[j.source] = j.ask
    BY <1>1, <1>3, <2>1, <2>2 DEF FilesOK
  <2>4. \A j, k \in Live' : j.source = k.source => j = k
    BY <1>1 DEF FilesOK
  <2>5. \A n \in Names : src'[n] # None \/ jobfile'[n] # NoJob => \E j \in Live' : j.source = n
    BY <1>1, <1>3 DEF FilesOK
  <2> QED
    BY <2>3, <2>4, <2>5 DEF FilesOK
<1>6. FolderOK'
  <2>1. Cardinality(Recoverable') <= MaxJobs
    <3>1. IsFiniteSet(Recoverable) /\ Recoverable' \subseteq Recoverable
      BY <1>4, NamesFinite DEF Recoverable
    <3>2. IsFiniteSet(Recoverable') /\ Cardinality(Recoverable') <= Cardinality(Recoverable)
      BY <3>1, FS_Subset
    <3>3. Cardinality(Recoverable) \in Nat /\ Cardinality(Recoverable') \in Nat
      BY <3>1, <3>2, FS_CardinalityType
    <3>4. Cardinality(Recoverable) <= MaxJobs /\ MaxJobs \in Nat
      BY <1>1, VideoAssumption DEF FolderOK
    <3> QED
      BY <3>2, <3>3, <3>4
  <2>2. \A n \in Recoverable' : n \in Recoverable /\ src'[n] = src[n] /\ jobfile'[n] = jobfile[n]
    BY <1>3, <1>4 DEF Recoverable
  <2>3. \A n \in Names : src'[n] # None \/ jobfile'[n] # NoJob =>
          src[n] # None \/ jobfile[n] # NoJob
    BY <1>3
  <2> QED
    BY <1>1, <2>1, <2>2, <2>3 DEF FolderOK
<1>7. UploadKept'
  <2> SUFFICES ASSUME NEW u \in Uploads, asked[u] # NoJob, u \notin ended', ~(installs[u] > 0)
               PROVE  \E n \in Names : src'[n] = u /\ jobfile'[n] = asked[u]
    BY DEF UploadKept
  <2>1. PICK n \in Names : src[n] = u /\ jobfile[n] = asked[u]
    BY <1>1 DEF UploadKept
  <2>2. n # c.source
    BY <1>2, <2>1
  <2> QED
    BY <1>3, <2>1, <2>2
<1>8. AskedOK' /\ TwiceOnlyIfCut' /\ VideosAsAsked'
  BY DEF JobsInv, AskedOK, TwiceOnlyIfCut, VideosAsAsked
<1> QED
  BY <1>2, <1>3, <1>4, <1>5, <1>6, <1>7, <1>8

\* The worker removes the files of the job it is done with.
LEMMA CleanupKeeps ==
  ASSUME JobsInv, Cleanup
  PROVE  JobsInv'
<1>1. Types /\ ListOK /\ WorkOK /\ FilesOK /\ FolderOK /\ JobOnceOK
  BY DEF JobsInv
<1>2. /\ converter = "cleanup" /\ converter' = "settle" /\ out' = None
      /\ src' = [src EXCEPT ![Job.source] = None]
      /\ jobfile' = [jobfile EXCEPT ![Job.source] = NoJob]
      /\ ended' = IF good THEN ended ELSE ended \union {Job.upload}
      /\ UNCHANGED <<videos, pid, seq, jobs, nextId, cur, good, child, copy, nextUpload,
                     crashes, asked, installs, cut, byHand>>
  BY DEF Cleanup, RemoveFiles
<1>3. /\ JobAt \in DOMAIN jobs /\ Job = jobs[JobAt] /\ Job \in JobRec
      /\ Job.id = cur /\ Job.state = "converting"
      /\ \A k \in DOMAIN jobs : jobs[k].id = cur => k = JobAt
      /\ Card(Job) \in Live /\ src[Job.source] = Job.upload
      /\ Card(Job).source = Job.source /\ Card(Job).upload = Job.upload /\ Job.upload \in Uploads
  BY <1>2, JobAtWork, CardTypes DEF Busy
<1>4. Live' = Live \ {Card(Job)}
  <2>1. \A k \in DOMAIN jobs : LiveAt(k) <=> Active(jobs[k])
    BY <1>2 DEF LiveAt
  <2>2. \A k \in DOMAIN jobs : LiveAt(k)' <=> (Active(jobs[k]) /\ k # JobAt)
    BY <1>2, <1>3 DEF LiveAt
  <2>3. \A k \in DOMAIN jobs : k # JobAt => Card(jobs[k]) # Card(Job)
    <3>1. \A k \in DOMAIN jobs : Card(jobs[k]).id = jobs[k].id
      BY DEF Card
    <3> QED
      BY <1>3, <3>1
  <2> QED
    BY <1>2, <1>3, <2>1, <2>2, <2>3 DEF Live
<1>5. good => installs[Job.upload] > 0
  BY <1>1, <1>2, <1>3 DEF WorkOK
<1>6. /\ ended \subseteq ended' /\ ended' \subseteq Uploads
      /\ (Job.upload \in ended' \/ installs[Job.upload] > 0)
  <2>1. CASE good
    BY <1>1, <1>2, <1>5, <2>1 DEF Types
  <2>2. CASE ~good
    BY <1>1, <1>2, <1>3, <2>2 DEF Types
  <2> QED
    BY <2>1, <2>2
<1>7. Up /\ Up'
  BY <1>2 DEF Up
<1>8. /\ FilesOK' /\ FolderOK' /\ UploadKept' /\ AskedOK' /\ TwiceOnlyIfCut' /\ VideosAsAsked'
      /\ Recoverable' = Recoverable \ {Job.source} /\ Job.source \in Names
      /\ src' \in [Names -> Uploads \union {None}]
      /\ jobfile' \in [Names -> Asks \union {NoJob}]
      /\ \A n \in Recoverable' : src'[n] = src[n]
  <2> DEFINE c == Card(Job)
  <2>1. /\ c \in Live /\ Live' = Live \ {c} /\ ended \subseteq ended'
        /\ c.upload \in ended' \/ installs[c.upload] > 0
        /\ src' = [src EXCEPT ![c.source] = None] /\ jobfile' = [jobfile EXCEPT ![c.source] = NoJob]
        /\ c.source = Job.source
    BY <1>2, <1>3, <1>4, <1>6
  <2> HIDE DEF c
  <2>2. UNCHANGED <<videos, pid, seq, crashes, nextUpload, asked, installs, cut, byHand>>
    BY <1>2
  <2>3. /\ FilesOK' /\ FolderOK' /\ UploadKept' /\ AskedOK' /\ TwiceOnlyIfCut' /\ VideosAsAsked'
        /\ Recoverable' = Recoverable \ {c.source} /\ c.source \in Names
        /\ src' \in [Names -> Uploads \union {None}]
        /\ jobfile' \in [Names -> Asks \union {NoJob}]
        /\ \A n \in Recoverable' : src'[n] = src[n]
    BY <1>6, <1>7, <2>1, <2>2, RemovalKeeps
  <2> QED
    BY <2>1, <2>3
<1>9. Types'
  BY <1>1, <1>2, <1>6, <1>8 DEF Types
<1>10. ListOK'
  BY <1>1, <1>2 DEF ListOK, Up, Busy
<1>11. WorkOK'
  BY <1>1, <1>2 DEF WorkOK
<1>12. JobOnceOK'
  BY <1>1, <1>2, <1>3, <1>8 DEF JobOnceOK
<1> QED
  BY <1>8, <1>9, <1>10, <1>11, <1>12 DEF JobsInv

\* A job that waits goes at once, with its files.
LEMMA CancelWaitingKeeps ==
  ASSUME JobsInv, NEW i \in DOMAIN jobs, Cancel(i), jobs[i].state = "waiting"
  PROVE  JobsInv'
<1>1. Types /\ ListOK /\ WorkOK /\ FilesOK /\ FolderOK /\ JobOnceOK /\ jobs \in Seq(JobRec)
  BY DEF JobsInv, Types
<1> DEFINE e  == [jobs[i] EXCEPT !.cancelled = TRUE, !.state = "failed"]
           js == [jobs EXCEPT ![i] = e]
<1>2. /\ Up
      /\ src' = [src EXCEPT ![jobs[i].source] = None]
      /\ jobfile' = [jobfile EXCEPT ![jobs[i].source] = NoJob]
      /\ ended' = ended \union {jobs[i].upload}
      /\ UNCHANGED <<videos, out, pid, seq, nextId, converter, cur, good, child, copy, nextUpload,
                     crashes, asked, installs, cut, byHand>>
  BY DEF Cancel, RemoveFiles
<1>3. jobs[i] \in JobRec
  BY <1>1
<1>4. jobs' \in Pruned(js)
  <2>1. jobs' \in Pruned([[jobs EXCEPT ![i].cancelled = TRUE] EXCEPT ![i].state = "failed"])
    BY DEF Cancel
  <2>2. [[jobs EXCEPT ![i].cancelled = TRUE] EXCEPT ![i].state = "failed"] = js
    BY <1>1
  <2> QED
    BY <2>1, <2>2
<1>5. /\ e \in JobRec /\ Card(e) = Card(jobs[i]) /\ ~Active(e)
      /\ Card(jobs[i]).id = jobs[i].id /\ Card(jobs[i]).source = jobs[i].source
      /\ Card(jobs[i]).upload = jobs[i].upload /\ jobs[i].upload \in Uploads
  BY <1>3, CardTypes DEF JobRec, Card, Active
<1> HIDE DEF e
<1>6. /\ js \in Seq(JobRec) /\ Len(js) = Len(jobs) /\ DOMAIN js = DOMAIN jobs
      /\ js[i] = e /\ \A k \in DOMAIN jobs : k # i => js[k] = jobs[k]
  BY <1>1, <1>5, EditCarries
<1> HIDE DEF js
\* It is not the one the worker has.
<1>7. Busy => \E k \in DOMAIN jobs : /\ jobs[k].id = cur /\ jobs[k].state = "converting" /\ k # i
                                     /\ \A l \in DOMAIN jobs : jobs[l].id = cur => l = k
  BY <1>1 DEF ListOK
<1>8. PICK f \in [DOMAIN jobs' -> DOMAIN jobs] :
        /\ jobs' \in Seq(JobRec) /\ Len(jobs') <= Len(jobs)
        /\ \A k, l \in DOMAIN jobs' : f[k] = f[l] => k = l
        /\ \A k \in DOMAIN jobs' : jobs'[k] = js[f[k]]
        /\ \A k \in DOMAIN jobs : Active(js[k]) => \E l \in DOMAIN jobs' : f[l] = k
  BY <1>4, <1>6, PrunedCarries
<1>9. /\ \A k \in DOMAIN jobs' : f[k] \in DOMAIN jobs
      /\ \A k \in DOMAIN jobs' : f[k] # i => jobs'[k] = jobs[f[k]]
      /\ \A k \in DOMAIN jobs' : f[k] = i => jobs'[k] = e
      /\ \A k \in DOMAIN jobs : k # i /\ Active(jobs[k]) => \E l \in DOMAIN jobs' : f[l] = k
  BY <1>6, <1>8
<1>10. /\ e.id = jobs[i].id /\ e.upload = jobs[i].upload /\ e.source = jobs[i].source
  BY <1>5 DEF Card
<1>11. \A k \in DOMAIN jobs' : /\ jobs'[k].id = jobs[f[k]].id
                               /\ jobs'[k].upload = jobs[f[k]].upload
                               /\ jobs'[k].source = jobs[f[k]].source
  BY <1>9, <1>10
<1>12. Card(jobs[i]) \in Live /\ Live' = Live \ {Card(jobs[i])}
  <2>1. LiveAt(i)
    <3>1. converter = "settle" => jobs[i].id # cur
      BY <1>7 DEF Busy
    <3> QED
      BY <3>1 DEF LiveAt, Active
  <2>2. \A k \in DOMAIN jobs' : f[k] # i => (LiveAt(k)' <=> LiveAt(f[k]))
    BY <1>2, <1>9 DEF LiveAt
  <2>3. \A k \in DOMAIN jobs' : f[k] = i => ~LiveAt(k)'
    BY <1>5, <1>9 DEF LiveAt
  <2>4. \A k \in DOMAIN jobs : k # i => Card(jobs[k]) # Card(jobs[i])
    <3>1. \A k \in DOMAIN jobs : Card(jobs[k]).id = jobs[k].id
      BY DEF Card
    <3>2. \A k \in DOMAIN jobs : k # i => jobs[k].id # jobs[i].id
      BY <1>1 DEF ListOK
    <3> QED
      BY <3>1, <3>2
  <2>5. ASSUME NEW c \in Live' PROVE c \in Live /\ c # Card(jobs[i])
    <3>1. PICK k \in DOMAIN jobs' : LiveAt(k)' /\ c = Card(jobs'[k])
      BY <2>5 DEF Live
    <3>2. f[k] # i /\ f[k] \in DOMAIN jobs /\ LiveAt(f[k]) /\ c = Card(jobs[f[k]])
      BY <1>9, <2>2, <2>3, <3>1
    <3> QED
      BY <2>4, <3>2 DEF Live
  <2>6. ASSUME NEW c \in Live, c # Card(jobs[i]) PROVE c \in Live'
    <3>1. PICK k \in DOMAIN jobs : LiveAt(k) /\ c = Card(jobs[k])
      BY <2>6 DEF Live
    <3>2. PICK l \in DOMAIN jobs' : f[l] = k
      BY <1>9, <2>6, <3>1 DEF LiveAt
    <3>3. LiveAt(l)' /\ c = Card(jobs'[l])
      BY <1>9, <2>2, <2>6, <3>1, <3>2
    <3> QED
      BY <3>3 DEF Live
  <2>7. Card(jobs[i]) \in Live
    BY <2>1 DEF Live
  <2> QED
    BY <2>5, <2>6, <2>7
<1>13. /\ FilesOK' /\ FolderOK' /\ UploadKept' /\ AskedOK' /\ TwiceOnlyIfCut' /\ VideosAsAsked'
       /\ Recoverable' = Recoverable \ {jobs[i].source} /\ jobs[i].source \in Names
       /\ src' \in [Names -> Uploads \union {None}]
       /\ jobfile' \in [Names -> Asks \union {NoJob}]
       /\ \A n \in Recoverable' : src'[n] = src[n]
  <2> DEFINE c == Card(jobs[i])
  <2>1. /\ c \in Live /\ Live' = Live \ {c}
        /\ src' = [src EXCEPT ![c.source] = None] /\ jobfile' = [jobfile EXCEPT ![c.source] = NoJob]
        /\ c.source = jobs[i].source /\ ended \subseteq ended' /\ c.upload \in ended'
    BY <1>2, <1>5, <1>12
  <2> HIDE DEF c
  <2>2. /\ Up' /\ UNCHANGED <<videos, pid, seq, crashes, nextUpload, asked, installs, cut, byHand>>
    BY <1>2 DEF Up
  <2>3. /\ FilesOK' /\ FolderOK' /\ UploadKept' /\ AskedOK' /\ TwiceOnlyIfCut' /\ VideosAsAsked'
        /\ Recoverable' = Recoverable \ {c.source} /\ c.source \in Names
        /\ src' \in [Names -> Uploads \union {None}]
        /\ jobfile' \in [Names -> Asks \union {NoJob}]
        /\ \A n \in Recoverable' : src'[n] = src[n]
    BY <1>2, <2>1, <2>2, RemovalKeeps
  <2> QED
    BY <2>1, <2>3
<1>14. Types'
  <2>1. ended' \subseteq Uploads
    BY <1>1, <1>2, <1>5 DEF Types
  <2> QED
    BY <1>1, <1>2, <1>8, <1>13, <2>1 DEF Types
<1>15. ListOK'
  <2>1. Len(jobs') <= MaxJobs
    <3>1. Len(jobs') \in Nat /\ Len(jobs) \in Nat /\ Len(jobs) <= MaxJobs /\ MaxJobs \in Nat
      BY <1>1, <1>8, VideoAssumption DEF ListOK
    <3> QED
      BY <1>8, <3>1
  <2>2. \A k, l \in DOMAIN jobs' : jobs'[k].id = jobs'[l].id => k = l
    BY <1>1, <1>8, <1>9, <1>11 DEF ListOK
  <2>3. \A k \in DOMAIN jobs' : jobs'[k].id < nextId'
    BY <1>1, <1>2, <1>9, <1>11 DEF ListOK
  <2>4. Busy' => \E k \in DOMAIN jobs' : jobs'[k].id = cur' /\ jobs'[k].state = "converting"
    <3> SUFFICES ASSUME Busy
                 PROVE  \E l \in DOMAIN jobs' : jobs'[l].id = cur /\ jobs'[l].state = "converting"
      BY <1>2 DEF Busy
    <3>1. PICK k \in DOMAIN jobs : jobs[k].id = cur /\ jobs[k].state = "converting" /\ k # i
      BY <1>7
    <3>2. PICK l \in DOMAIN jobs' : f[l] = k
      BY <1>9, <3>1 DEF Active
    <3> QED
      BY <1>9, <3>1, <3>2
  <2>5. Up'
    BY <1>2 DEF Up
  <2> QED
    BY <2>1, <2>2, <2>3, <2>4, <2>5 DEF ListOK
<1>16. WorkOK'
  BY <1>1, <1>2, <1>9, <1>11 DEF WorkOK
<1>17. JobOnceOK'
  <2> SUFFICES ASSUME NEW n \in Recoverable', ~(installs[src[n]] = 0 \/ src[n] \in cut)
               PROVE  /\ converter = "cleanup" /\ good
                      /\ \E l \in DOMAIN jobs' : jobs'[l].id = cur /\ jobs'[l].source = n
    BY <1>2, <1>13 DEF JobOnceOK
  <2>1. n \in Recoverable
    BY <1>13
  <2>2. PICK m \in DOMAIN jobs : jobs[m].id = cur /\ jobs[m].source = n
    BY <1>1, <2>1 DEF JobOnceOK
  <2>3. converter = "cleanup" /\ good
    BY <1>1, <2>1 DEF JobOnceOK
  <2>4. m # i /\ jobs[m].state = "converting"
    BY <1>7, <2>2, <2>3 DEF Busy
  <2>5. PICK l \in DOMAIN jobs' : f[l] = m
    BY <1>9, <2>4 DEF Active
  <2> QED
    BY <1>9, <2>2, <2>3, <2>4, <2>5
<1> QED
  BY <1>13, <1>14, <1>15, <1>16, <1>17 DEF JobsInv

\* An upload is taken: under a new name, with its job file, as the last of the list.
LEMMA TakenKeeps ==
  ASSUME JobsInv, NEW ask \in Asks, NEW js \in Pruned(jobs), Up, nextUpload \in Uploads,
         nextUpload' = nextUpload + 1, seq' = seq + 1, Len(js) < MaxJobs,
         src' = [src EXCEPT ![<<pid, seq>>] = nextUpload],
         jobfile' = [jobfile EXCEPT ![<<pid, seq>>] = ask],
         jobs' = Append(js, NewJob(nextId, <<pid, seq>>, ask, nextUpload)), nextId' = nextId + 1,
         asked' = [asked EXCEPT ![nextUpload] = ask],
         UNCHANGED <<videos, out, pid, converter, cur, good, child, copy, crashes, ended,
                     installs, cut, byHand>>
  PROVE  JobsInv'
<1> DEFINE name == <<pid, seq>>
           new  == NewJob(nextId, name, ask, nextUpload)
           m    == Len(js) + 1
<1>1. /\ Types /\ ListOK /\ FilesOK /\ FolderOK /\ AskedOK /\ WorkOK /\ JobOnceOK
      /\ UploadKept /\ TwiceOnlyIfCut /\ VideosAsAsked /\ jobs \in Seq(JobRec)
  BY DEF JobsInv, Types
<1>2. /\ name \in Names /\ name[1] = crashes /\ name[2] = seq
      /\ seq \in Nat /\ nextId \in Nat /\ nextUpload \in Nat /\ seq < nextUpload
  BY <1>1, VideoAssumption DEF Types, FolderOK, Names, Uploads
<1>3. /\ src[name] = None /\ jobfile[name] = NoJob /\ ask # NoJob /\ nextUpload # None
      /\ asked[nextUpload] = NoJob /\ installs[nextUpload] = 0
  <2>1. ~(name[1] < crashes) /\ ~(name[2] < seq)
    BY <1>1, <1>2, VideoAssumption DEF Types
  <2>2. src[name] = None /\ jobfile[name] = NoJob
    BY <1>1, <1>2, <2>1 DEF FolderOK
  <2>3. ask.target \in Targets
    BY DEF Asks
  <2>4. ask # NoJob
    BY <2>3, VideoAssumption DEF NoJob
  <2>5. asked[nextUpload] = NoJob /\ installs[nextUpload] = 0
    BY <1>1, <1>2 DEF AskedOK
  <2> QED
    BY <2>2, <2>4, <2>5 DEF Uploads, None
<1>4. /\ new \in JobRec /\ new.id = nextId /\ new.source = name /\ new.upload = nextUpload
      /\ new.state = "waiting" /\ Card(new).ask = ask
      /\ Card(new).source = name /\ Card(new).upload = nextUpload
  BY <1>2 DEF NewJob, JobRec, Asks, Card
<1>5. /\ js \in Seq(JobRec) /\ Len(js) <= Len(jobs)
      /\ \E f \in [DOMAIN js -> DOMAIN jobs] :
           /\ \A i, k \in DOMAIN js : f[i] = f[k] => i = k
           /\ \A i \in DOMAIN js : js[i] = jobs[f[i]]
           /\ \A k \in DOMAIN jobs : Active(jobs[k]) => \E i \in DOMAIN js : f[i] = k
  <2> HIDE DEF new, name, m
  <2>1. jobs \in Seq(JobRec) /\ js \in Pruned(jobs)
    BY <1>1
  <2> QED
    BY ONLY <2>1, PrunedCarries
<1>6. PICK f \in [DOMAIN js -> DOMAIN jobs] :
        /\ \A i, k \in DOMAIN js : f[i] = f[k] => i = k
        /\ \A i \in DOMAIN js : js[i] = jobs[f[i]]
        /\ \A k \in DOMAIN jobs : Active(jobs[k]) => \E i \in DOMAIN js : f[i] = k
  BY <1>5
<1> HIDE DEF new
<1>7. /\ jobs' \in Seq(JobRec) /\ Len(jobs') = m /\ DOMAIN jobs' = 1..m /\ DOMAIN js = 1..Len(js)
      /\ Len(js) \in Nat /\ jobs'[m] = new /\ \A i \in DOMAIN js : jobs'[i] = js[i]
  BY <1>4, <1>5 DEF new
<1>8. DOMAIN jobs' = DOMAIN js \cup {m} /\ m \notin DOMAIN js
  BY <1>7
<1> HIDE DEF m, name
<1>9. /\ \A i \in DOMAIN js : jobs'[i] = jobs[f[i]] /\ f[i] \in DOMAIN jobs
      /\ \A i \in DOMAIN jobs' : i = m \/ i \in DOMAIN js
  BY <1>6, <1>7, <1>8
<1>10. \A i \in DOMAIN jobs : jobs[i].id # nextId
  BY <1>1, <1>2 DEF ListOK, JobRec
<1>11. Live' = Live \cup {Card(new)}
  <2>1. LiveAt(m)'
    <3>1. converter = "settle" => cur # nextId
      BY <1>1, <1>10 DEF ListOK, Busy
    <3> QED
      BY <1>4, <1>7, <3>1 DEF LiveAt, Active
  <2>2. \A i \in DOMAIN js : LiveAt(i)' <=> LiveAt(f[i])
    BY <1>9 DEF LiveAt
  <2>3. ASSUME NEW c \in Live' PROVE c \in Live \cup {Card(new)}
    <3>1. PICK i \in DOMAIN jobs' : LiveAt(i)' /\ c = Card(jobs'[i])
      BY <2>3 DEF Live
    <3>2. CASE i = m
      BY <1>7, <3>1, <3>2
    <3>3. CASE i \in DOMAIN js
      BY <1>9, <2>2, <3>1, <3>3 DEF Live
    <3> QED
      BY <1>9, <3>2, <3>3
  <2>4. ASSUME NEW c \in Live PROVE c \in Live'
    <3>1. PICK k \in DOMAIN jobs : LiveAt(k) /\ c = Card(jobs[k])
      BY <2>4 DEF Live
    <3>2. PICK i \in DOMAIN js : f[i] = k
      BY <1>6, <3>1 DEF LiveAt
    <3>3. i \in DOMAIN jobs' /\ LiveAt(i)' /\ c = Card(jobs'[i])
      BY <1>8, <1>9, <2>2, <3>1, <3>2
    <3> QED
      BY <3>3 DEF Live
  <2>5. Card(new) \in Live'
    BY <1>7, <1>8, <2>1 DEF Live
  <2> QED
    BY <2>3, <2>4, <2>5
<1>12. /\ src' \in [Names -> Uploads \union {None}]
       /\ jobfile' \in [Names -> Asks \union {NoJob}]
       /\ asked' \in [Uploads -> Asks \union {NoJob}]
       /\ src'[name] = nextUpload /\ jobfile'[name] = ask /\ asked'[nextUpload] = ask
       /\ \A n \in Names : n # name => src'[n] = src[n] /\ jobfile'[n] = jobfile[n]
       /\ \A u \in Uploads : u # nextUpload => asked'[u] = asked[u]
  BY <1>1, <1>2 DEF Types, name
<1>13. Recoverable' = Recoverable \cup {name} /\ name \notin Recoverable
  BY <1>2, <1>3, <1>12 DEF Recoverable
<1>14. \A n \in Recoverable : /\ src'[n] = src[n] /\ src[n] \in Uploads /\ src[n] # nextUpload
                              /\ jobfile'[n] = jobfile[n] /\ asked'[src[n]] = asked[src[n]]
  <2> SUFFICES ASSUME NEW n \in Recoverable
               PROVE  /\ src'[n] = src[n] /\ src[n] \in Uploads /\ src[n] # nextUpload
                      /\ jobfile'[n] = jobfile[n] /\ asked'[src[n]] = asked[src[n]]
    OBVIOUS
  <2>1. n \in Names /\ n # name /\ src[n] \in Uploads /\ jobfile[n] # NoJob
    BY <1>1, <1>13 DEF Recoverable, Types
  <2>2. asked[src[n]] # NoJob
    BY <1>1, <2>1 DEF FolderOK
  <2> QED
    BY <1>3, <1>12, <2>1, <2>2
<1>15. Types'
  <2>1. seq' \in Nat /\ nextId' \in Nat /\ nextUpload' \in 1..MaxUploads + 1 /\ seq' < nextUpload'
    BY <1>2, VideoAssumption DEF Uploads
  <2> QED
    BY <1>1, <1>7, <1>12, <2>1 DEF Types
<1>16. ListOK'
  <2>1. Len(jobs') <= MaxJobs
    BY <1>7, VideoAssumption DEF m
  <2>2. \A i, k \in DOMAIN jobs' : jobs'[i].id = jobs'[k].id => i = k
    <3>1. \A i, k \in DOMAIN js : jobs'[i].id = jobs'[k].id => i = k
      BY <1>1, <1>6, <1>9 DEF ListOK
    <3>2. \A i \in DOMAIN js : jobs'[i].id # jobs'[m].id
      BY <1>4, <1>7, <1>9, <1>10
    <3> QED
      BY <1>9, <3>1, <3>2
  <2>3. \A i \in DOMAIN jobs' : jobs'[i].id < nextId'
    <3>1. \A i \in DOMAIN jobs : jobs[i].id \in Nat /\ jobs[i].id < nextId
      <4>1. \A i \in DOMAIN jobs : jobs[i] \in JobRec
        BY <1>1
      <4> QED
        BY <1>1, <4>1 DEF ListOK, JobRec
    <3>2. \A i \in DOMAIN jobs : jobs[i].id < nextId + 1
      BY <1>2, <3>1
    <3> QED
      BY <1>2, <1>4, <1>7, <1>9, <3>2
  <2>4. Busy' => \E i \in DOMAIN jobs' : jobs'[i].id = cur' /\ jobs'[i].state = "converting"
    <3> SUFFICES ASSUME Busy
                 PROVE  \E i \in DOMAIN jobs' : jobs'[i].id = cur /\ jobs'[i].state = "converting"
      BY DEF Busy
    <3>1. PICK k \in DOMAIN jobs : jobs[k].id = cur /\ jobs[k].state = "converting"
      BY <1>1 DEF ListOK
    <3>2. PICK i \in DOMAIN js : f[i] = k
      BY <1>6, <3>1 DEF Active
    <3> QED
      BY <1>8, <1>9, <3>1, <3>2
  <2> QED
    BY <2>1, <2>2, <2>3, <2>4 DEF ListOK, Up
<1>17. FilesOK'
  <2>1. \A j \in Live : j.source \in Names /\ j.source # name
    <3> SUFFICES ASSUME NEW j \in Live PROVE j.source \in Names /\ j.source # name
      OBVIOUS
    <3>1. PICK i \in DOMAIN jobs : j = Card(jobs[i])
      BY DEF Live
    <3>2. jobs[i] \in JobRec
      BY <1>1
    <3>3. j.source \in Names /\ j.upload \in Uploads
      BY <3>1, <3>2, CardTypes
    <3>4. src[j.source] = j.upload
      BY <1>1 DEF FilesOK
    <3> QED
      BY <1>3, <3>3, <3>4 DEF Uploads, None
  <2>2. \A j \in Live' : src'[j.source] = j.upload /\ jobfile'[j.source] = j.ask
    BY <1>1, <1>4, <1>11, <1>12, <2>1 DEF FilesOK
  <2>3. \A j, k \in Live' : j.source = k.source => j = k
    BY <1>1, <1>4, <1>11, <2>1 DEF FilesOK
  <2>4. \A n \in Names : src'[n] # None \/ jobfile'[n] # NoJob => \E j \in Live' : j.source = n
    BY <1>1, <1>4, <1>11, <1>12 DEF FilesOK
  <2> QED
    BY <2>2, <2>3, <2>4 DEF FilesOK
<1>18. FolderOK'
  <2>1. \A n \in Recoverable' : jobfile'[n] = asked'[src'[n]]
    BY <1>1, <1>12, <1>13, <1>14 DEF FolderOK
  <2>2. \A n, l \in Recoverable' : src'[n] = src'[l] => n = l
    BY <1>1, <1>12, <1>13, <1>14 DEF FolderOK
  <2>3. Cardinality(Recoverable') <= MaxJobs
    <3>1. \A n \in Recoverable' : \E i \in DOMAIN jobs' : jobs'[i].source = n
      <4> SUFFICES ASSUME NEW n \in Recoverable' PROVE \E i \in DOMAIN jobs' : jobs'[i].source = n
        OBVIOUS
      <4>1. n \in Names /\ (src'[n] # None \/ jobfile'[n] # NoJob)
        BY DEF Recoverable
      <4>2. PICK j \in Live' : j.source = n
        BY <1>17, <4>1 DEF FilesOK, Up
      <4>3. PICK i \in DOMAIN jobs' : j = Card(jobs'[i])
        BY DEF Live
      <4> QED
        BY <4>2, <4>3 DEF Card
    <3>2. IsFiniteSet(Recoverable') /\ Cardinality(Recoverable') <= Len(jobs')
      BY <1>7, <3>1, SourcesFit
    <3>3. Cardinality(Recoverable') \in Nat /\ Len(jobs') \in Nat /\ MaxJobs \in Nat
      BY <1>7, <3>2, FS_CardinalityType, VideoAssumption
    <3> QED
      BY <1>16, <3>2, <3>3 DEF ListOK
  <2>4. \A n \in Names : src'[n] # None \/ jobfile'[n] # NoJob =>
          n[1] < crashes' \/ (n[1] = crashes' /\ n[2] < seq')
    <3> SUFFICES ASSUME NEW n \in Names, src'[n] # None \/ jobfile'[n] # NoJob
                 PROVE  n[1] < crashes \/ (n[1] = crashes /\ n[2] < seq + 1)
      OBVIOUS
    <3>1. n[2] \in Nat
      BY VideoAssumption DEF Names
    <3>2. CASE n = name
      BY <1>2, <3>2
    <3>3. CASE n # name
      BY <1>1, <1>2, <1>12, <3>1, <3>3 DEF FolderOK
    <3> QED
      BY <3>2, <3>3
  <2>5. pid' = crashes'
    BY <1>1 DEF FolderOK
  <2> QED
    BY <2>1, <2>2, <2>3, <2>4, <2>5 DEF FolderOK, Up
<1>19. AskedOK'
  <2>1. \A u \in Uploads : u < nextUpload => u < nextUpload + 1
    BY <1>2 DEF Uploads
  <2>2. nextUpload < nextUpload + 1
    BY <1>2
  <2> QED
    BY <1>1, <1>3, <1>12, <2>1, <2>2 DEF AskedOK
<1>20. WorkOK'
  <2>1. Busy => \A i \in DOMAIN jobs' : jobs'[i].id = cur => i # m
    BY <1>1, <1>4, <1>7, <1>10 DEF ListOK
  <2>2. CASE ~Busy
    <3>1. converter \in {"off", "idle"} /\ child \notin {"running", "ok"}
      BY <1>1, <2>2 DEF WorkOK, Busy
    <3>2. converter = "idle" => out = None
      BY <1>1 DEF WorkOK
    <3> QED
      BY <3>1, <3>2 DEF WorkOK
  <2>3. CASE Busy
    <3>1. \A i \in DOMAIN jobs' : jobs'[i].id = cur =>
            jobs'[i] = jobs[f[i]] /\ f[i] \in DOMAIN jobs
      BY <1>9, <2>1, <2>3
    <3> QED
      BY <1>1, <3>1 DEF WorkOK
  <2> QED
    BY <2>2, <2>3
<1>21. JobOnceOK'
  <2> SUFFICES ASSUME NEW n \in Recoverable', ~(installs[src'[n]] = 0 \/ src'[n] \in cut)
               PROVE  /\ converter = "cleanup" /\ good
                      /\ \E i \in DOMAIN jobs' : jobs'[i].id = cur /\ jobs'[i].source = n
    BY DEF JobOnceOK
  <2>1. n \in Recoverable /\ ~(installs[src[n]] = 0 \/ src[n] \in cut)
    BY <1>3, <1>12, <1>13, <1>14
  <2>2. PICK k \in DOMAIN jobs : jobs[k].id = cur /\ jobs[k].source = n
    BY <1>1, <2>1 DEF JobOnceOK
  <2>3. converter = "cleanup" /\ good
    BY <1>1, <2>1 DEF JobOnceOK
  <2>4. jobs[k].state = "converting"
    BY <1>1, <2>2, <2>3 DEF ListOK, Busy
  <2>5. PICK i \in DOMAIN js : f[i] = k
    BY <1>6, <2>4 DEF Active
  <2> QED
    BY <1>8, <1>9, <2>2, <2>3, <2>5
<1>22. UploadKept' /\ TwiceOnlyIfCut'
  <2>1. ASSUME NEW u \in Uploads, asked'[u] # NoJob, ~(u \in ended \/ installs[u] > 0)
        PROVE  \E n \in Names : src'[n] = u /\ jobfile'[n] = asked'[u]
    <3>1. CASE u = nextUpload
      BY <1>2, <1>12, <3>1
    <3>2. CASE u # nextUpload
      <4>1. PICK n \in Names : src[n] = u /\ jobfile[n] = asked[u]
        BY <1>1, <1>12, <2>1, <3>2 DEF UploadKept
      <4>2. n # name
        BY <1>3, <4>1 DEF Uploads, None
      <4> QED
        BY <1>12, <3>2, <4>1, <4>2
    <3> QED
      BY <3>1, <3>2
  <2> QED
    BY <1>1, <2>1 DEF UploadKept, TwiceOnlyIfCut
<1>23. VideosAsAsked'
  <2> SUFFICES ASSUME NEW f2 \in Finals, videos[f2] # None
               PROVE  /\ videos[f2] \in Uploads
                      /\ f2 \in byHand \/ asked'[videos[f2]].target = f2[1]
    BY DEF VideosAsAsked
  <2>1. /\ videos[f2] \in Uploads /\ f2[1] \in Targets
        /\ f2 \in byHand \/ asked[videos[f2]].target = f2[1]
    BY <1>1 DEF VideosAsAsked, Finals
  <2>2. f2 \in byHand \/ asked[videos[f2]] # NoJob
    BY <2>1, VideoAssumption DEF NoJob
  <2> QED
    BY <1>3, <1>12, <2>1, <2>2
<1> QED
  BY <1>15, <1>16, <1>17, <1>18, <1>19, <1>20, <1>21, <1>22, <1>23 DEF JobsInv

\* rpod_videos_queue(): what is thrown away leaves nothing.
LEMMA QueueKeeps ==
  ASSUME JobsInv, NEW ask \in Asks, Queue(ask)
  PROVE  JobsInv'
<1>1. /\ Up /\ nextUpload \in Uploads /\ nextUpload' = nextUpload + 1 /\ seq' = seq + 1
      /\ UNCHANGED <<videos, out, pid, converter, cur, good, child, copy, crashes, ended,
                     installs, cut, byHand>>
  BY DEF Queue, work
<1>2. PICK js \in Pruned(jobs) :
        \/ /\ Room(js)
           /\ src' = [src EXCEPT ![<<pid, seq>>] = nextUpload]
           /\ jobfile' = [jobfile EXCEPT ![<<pid, seq>>] = ask]
           /\ jobs' = Append(js, NewJob(nextId, <<pid, seq>>, ask, nextUpload))
           /\ nextId' = nextId + 1 /\ asked' = [asked EXCEPT ![nextUpload] = ask]
        \/ /\ jobs' = js /\ src' = [src EXCEPT ![<<pid, seq>>] = None]
           /\ nextId' \in {nextId, nextId + 1}
           /\ UNCHANGED <<jobfile, asked>>
  BY DEF Queue
<1>3. CASE /\ Room(js)
           /\ src' = [src EXCEPT ![<<pid, seq>>] = nextUpload]
           /\ jobfile' = [jobfile EXCEPT ![<<pid, seq>>] = ask]
           /\ jobs' = Append(js, NewJob(nextId, <<pid, seq>>, ask, nextUpload))
           /\ nextId' = nextId + 1 /\ asked' = [asked EXCEPT ![nextUpload] = ask]
  BY <1>1, <1>3, TakenKeeps DEF Room
<1>4. CASE /\ jobs' = js /\ src' = [src EXCEPT ![<<pid, seq>>] = None]
           /\ nextId' \in {nextId, nextId + 1}
           /\ UNCHANGED <<jobfile, asked>>
  <2>1. Types /\ FolderOK /\ src \in [Names -> Uploads \union {None}]
    BY DEF JobsInv, Types
  <2>2. /\ <<pid, seq>> \in Names /\ pid = crashes /\ crashes \in Nat /\ seq \in Nat
        /\ nextUpload' \in 1..MaxUploads + 1 /\ seq' < nextUpload'
    BY <1>1, <2>1, VideoAssumption DEF Types, FolderOK, Names, Uploads
  <2>3. src[<<pid, seq>>] = None
    <3> DEFINE n == <<pid, seq>>
    <3>1. n \in Names /\ ~(n[1] < crashes) /\ ~(n[2] < seq)
      BY <2>2
    <3> QED
      BY <2>1, <3>1 DEF FolderOK
  <2>4. src' = src
    BY <1>4, <2>1, <2>2, <2>3
  <2> QED
    BY <1>1, <1>4, <2>2, <2>4, PruneKeeps
<1> QED
  BY <1>2, <1>3, <1>4

\* A crash leaves rpod-web down, with the files as they are or one pair of them cut.
LEMMA DieKeeps ==
  ASSUME JobsInv, CountsOK, Die
  PROVE  JobsInv'
<1>1. /\ Types /\ ListOK /\ FilesOK /\ FolderOK /\ AskedOK /\ WorkOK /\ JobOnceOK
      /\ UploadKept /\ TwiceOnlyIfCut /\ VideosAsAsked /\ jobs \in Seq(JobRec)
      /\ crashes \in Nat /\ crashes < MaxTrouble
  BY VideoAssumption DEF JobsInv, Types, Die, CountsOK
<1>2. /\ Up /\ crashes' = crashes + 1
      /\ cut' = IF converter = "cleanup" /\ good THEN cut \union {Job.upload} ELSE cut
      /\ converter' = "off" /\ cur' = 0 /\ good' = FALSE /\ child' = "none" /\ copy' = None
      /\ jobs' = <<>> /\ nextId' = 1 /\ seq' = 0
      /\ UNCHANGED <<jobfile, videos, out, pid, nextUpload, asked, installs, byHand>>
  BY DEF Die
\* What of the files a crash may have taken: an upload whose job is over or done.
<1>3. /\ src' \in [Names -> Uploads \union {None}]
      /\ ended \subseteq ended' /\ ended' \subseteq Uploads
      /\ \A n \in Names : jobfile[n] # NoJob => src'[n] = src[n] \/ src'[n] = None
      /\ \A n \in Names : src'[n] # None => n[1] < crashes'
      /\ \A n \in Names : src'[n] # src[n] /\ src[n] # None =>
           src[n] \in ended' \/ installs[src[n]] > 0
  <2>0. /\ src \in [Names -> Uploads \union {None}] /\ ended \subseteq Uploads
        /\ <<pid, seq>>[1] = crashes
        /\ \A n \in Names : src[n] # None \/ jobfile[n] # NoJob => n[1] < crashes + 1
        /\ \A n \in Names : n = <<pid, seq>> => src[n] = None /\ jobfile[n] = NoJob
    <3>1. src \in [Names -> Uploads \union {None}] /\ ended \subseteq Uploads /\ seq \in Nat
      BY <1>1 DEF Types
    <3>2. pid = crashes
      BY <1>1, <1>2 DEF FolderOK
    <3>3. \A n \in Names : src[n] # None \/ jobfile[n] # NoJob =>
            n[1] < crashes \/ (n[1] = crashes /\ n[2] < seq)
      BY <1>1 DEF FolderOK
    <3>4. \A n \in Names : n[1] \in Nat
      BY VideoAssumption DEF Names
    <3>5. \A n \in Names : src[n] # None \/ jobfile[n] # NoJob => n[1] < crashes + 1
      BY <1>1, <3>3, <3>4
    <3>6. \A n \in Names : n = <<pid, seq>> => ~(n[1] < crashes) /\ ~(n[2] < seq)
      BY <1>1, <3>1, <3>2
    <3> QED
      BY <3>1, <3>2, <3>3, <3>5, <3>6
  <2>1. CASE UNCHANGED <<src, ended>>
    BY <1>2, <2>0, <2>1
  <2>2. ASSUME NEW i \in DOMAIN jobs,
               jobs[i].state = "waiting" \/ (converter = "cleanup" /\ jobs[i].id = cur),
               src' = [src EXCEPT ![jobs[i].source] = None],
               ended' = IF converter = "cleanup" /\ jobs[i].id = cur /\ good
                        THEN ended ELSE ended \union {jobs[i].upload}
        PROVE  /\ src' \in [Names -> Uploads \union {None}]
               /\ ended \subseteq ended' /\ ended' \subseteq Uploads
               /\ \A n \in Names : jobfile[n] # NoJob => src'[n] = src[n] \/ src'[n] = None
               /\ \A n \in Names : src'[n] # None => n[1] < crashes'
               /\ \A n \in Names : src'[n] # src[n] /\ src[n] # None =>
                    src[n] \in ended' \/ installs[src[n]] > 0
    <3>1. jobs[i] \in JobRec
      BY <1>1
    <3>2. /\ jobs[i].source \in Names /\ jobs[i].upload \in Uploads
          /\ Card(jobs[i]).source = jobs[i].source /\ Card(jobs[i]).upload = jobs[i].upload
      BY <3>1, CardTypes
    <3>3. LiveAt(i)
      <4>1. CASE converter = "cleanup" /\ jobs[i].id = cur
        BY <1>1, <4>1 DEF ListOK, Busy, LiveAt, Active
      <4>2. CASE jobs[i].state = "waiting"
        <5>1. converter = "settle" => jobs[i].id # cur
          BY <1>1, <4>2 DEF ListOK, Busy
        <5> QED
          BY <4>2, <5>1 DEF LiveAt, Active
      <4> QED
        BY <2>2, <4>1, <4>2
    <3>4. src[jobs[i].source] = jobs[i].upload
      <4>1. Card(jobs[i]) \in Live
        BY <3>3 DEF Live
      <4>2. \A j \in Live : src[j.source] = j.upload
        BY <1>1 DEF FilesOK
      <4> QED
        BY <3>2, <4>1, <4>2
    <3>5. /\ src' \in [Names -> Uploads \union {None}] /\ src'[jobs[i].source] = None
          /\ \A n \in Names : n # jobs[i].source => src'[n] = src[n]
      BY <2>0, <2>2, <3>2
    <3>6. jobs[i].upload \in ended' \/ installs[jobs[i].upload] > 0
      BY <1>1, <2>2 DEF WorkOK
    <3>7. ended \subseteq ended' /\ ended' \subseteq Uploads
      BY <2>0, <2>2, <3>2
    <3> QED
      BY <1>2, <2>0, <3>4, <3>5, <3>6, <3>7
  <2>3. ASSUME nextUpload \in Uploads, src' = [src EXCEPT ![<<pid, seq>>] = nextUpload],
               UNCHANGED ended
        PROVE  /\ src' \in [Names -> Uploads \union {None}]
               /\ ended \subseteq ended' /\ ended' \subseteq Uploads
               /\ \A n \in Names : jobfile[n] # NoJob => src'[n] = src[n] \/ src'[n] = None
               /\ \A n \in Names : src'[n] # None => n[1] < crashes'
               /\ \A n \in Names : src'[n] # src[n] /\ src[n] # None =>
                    src[n] \in ended' \/ installs[src[n]] > 0
    <3> DEFINE name == <<pid, seq>>
    <3>1. /\ src' \in [Names -> Uploads \union {None}]
          /\ \A n \in Names : n # name => src'[n] = src[n]
      BY <2>0, <2>3
    <3>2. name[1] < crashes'
      BY <1>1, <1>2, <2>0
    <3>3. \A n \in Names : n = name => src[n] = None /\ jobfile[n] = NoJob
      BY <2>0
    <3>4. \A n \in Names : src[n] # None => n[1] < crashes'
      BY <1>2, <2>0
    <3> HIDE DEF name
    <3> QED
      BY <2>0, <2>3, <3>1, <3>2, <3>3, <3>4
  <2> QED
    BY <1>2, <2>1, <2>2, <2>3 DEF Die, Halfway
<1>4. cut' \subseteq Uploads /\ cut \subseteq cut'
  <2>1. converter = "cleanup" => Job.upload \in Uploads
    BY JobAtWork DEF Busy, JobRec
  <2> QED
    BY <1>1, <1>2, <2>1 DEF Types
<1>5. Types'
  <2>1. /\ <<>> \in Seq(JobRec) /\ crashes' \in 0..MaxTrouble /\ 0 \in Nat /\ 1 \in Nat
        /\ 0 < nextUpload /\ seq' < nextUpload'
    BY <1>1, <1>2, VideoAssumption DEF Types
  <2> QED
    BY <1>1, <1>2, <1>3, <1>4, <2>1 DEF Types
<1>6. Live' = {} /\ ~Up' /\ ~Busy'
  BY <1>2 DEF Live, Up, Busy
<1>7. ListOK'
  BY <1>2, <1>6, VideoAssumption DEF ListOK
<1>8. FilesOK'
  BY <1>6 DEF FilesOK
<1>9. Recoverable' \subseteq Recoverable /\ \A n \in Recoverable' : src'[n] = src[n]
  BY <1>2, <1>3 DEF Recoverable
<1>10. FolderOK'
  <2>1. Cardinality(Recoverable') <= MaxJobs
    <3>1. IsFiniteSet(Recoverable)
      BY NamesFinite DEF Recoverable
    <3>2. IsFiniteSet(Recoverable') /\ Cardinality(Recoverable') <= Cardinality(Recoverable)
      BY <1>9, <3>1, FS_Subset
    <3>3. Cardinality(Recoverable) \in Nat /\ Cardinality(Recoverable') \in Nat
      BY <3>1, <3>2, FS_CardinalityType
    <3>4. Cardinality(Recoverable) <= MaxJobs /\ MaxJobs \in Nat
      BY <1>1, VideoAssumption DEF FolderOK
    <3> QED
      BY <3>2, <3>3, <3>4
  <2>2. \A n \in Names : src'[n] # None \/ jobfile'[n] # NoJob => n[1] < crashes'
    <3>1. \A n \in Names : n[1] \in Nat
      BY VideoAssumption DEF Names
    <3>2. \A n \in Names : jobfile[n] # NoJob => n[1] < crashes \/ n[1] = crashes
      BY <1>1 DEF FolderOK
    <3>3. \A n \in Names : jobfile[n] # NoJob => n[1] < crashes + 1
      BY <1>1, <3>1, <3>2
    <3> QED
      BY <1>2, <1>3, <3>3
  <2>3. /\ \A n \in Recoverable' : jobfile'[n] = asked'[src'[n]]
        /\ \A n, l \in Recoverable' : src'[n] = src'[l] => n = l
    BY <1>1, <1>2, <1>9 DEF FolderOK
  <2> QED
    BY <1>6, <2>1, <2>2, <2>3 DEF FolderOK
<1>11. AskedOK' /\ VideosAsAsked'
  BY <1>1, <1>2 DEF AskedOK, VideosAsAsked
<1>12. WorkOK'
  BY <1>2 DEF WorkOK
<1>13. JobOnceOK'
  <2> SUFFICES ASSUME NEW n \in Recoverable', ~(installs[src[n]] = 0 \/ src[n] \in cut)
               PROVE  src[n] \in cut'
    BY <1>2, <1>4, <1>9 DEF JobOnceOK
  <2>1. /\ converter = "cleanup" /\ good
        /\ \E i \in DOMAIN jobs : jobs[i].id = cur /\ jobs[i].source = n
    BY <1>1, <1>9 DEF JobOnceOK
  <2>2. Job.source = n /\ src[n] = Job.upload
    BY <2>1, JobAtWork DEF Busy
  <2> QED
    BY <1>2, <2>1, <2>2
<1>14. UploadKept'
  <2> SUFFICES ASSUME NEW u \in Uploads, asked[u] # NoJob, u \notin ended', ~(installs[u] > 0)
               PROVE  \E n \in Names : src'[n] = u /\ jobfile[n] = asked[u]
    BY <1>2 DEF UploadKept
  <2>1. PICK n \in Names : src[n] = u /\ jobfile[n] = asked[u]
    BY <1>1, <1>3 DEF UploadKept
  <2>2. src'[n] = src[n]
    BY <1>3, <2>1 DEF Uploads, None
  <2> QED
    BY <2>1, <2>2
<1>15. TwiceOnlyIfCut'
  BY <1>1, <1>2, <1>4 DEF TwiceOnlyIfCut
<1> QED
  BY <1>5, <1>7, <1>8, <1>10, <1>11, <1>12, <1>13, <1>14, <1>15 DEF JobsInv

\* A restart takes up all that it can, each once, and removes the rest.
LEMMA RestartKeeps ==
  ASSUME JobsInv, Restart, ~SamePid
  PROVE  JobsInv'
<1>1. /\ Types /\ FolderOK /\ AskedOK /\ JobOnceOK /\ WorkOK
      /\ UploadKept /\ TwiceOnlyIfCut /\ VideosAsAsked
  BY DEF JobsInv
<1>2. /\ ~Up /\ converter' = "idle" /\ out' = None /\ pid' = crashes /\ seq' = 0
      /\ nextId' = Cardinality(Recoverable) + 1
      /\ src' = [n \in Names |-> IF n \in Recoverable THEN src[n] ELSE None]
      /\ jobfile' = [n \in Names |-> IF n \in Recoverable THEN jobfile[n] ELSE NoJob]
      /\ UNCHANGED <<videos, cur, good, child, copy, nextUpload, crashes, asked, ended,
                     installs, cut, byHand>>
  BY DEF Restart, Recover, TakeUp, OnlyOf, history
<1>3. PICK order \in SetToSeqs(Recoverable) :
        jobs' = [i \in 1..Len(order) |->
                   NewJob(i, order[i], jobfile[order[i]], src[order[i]])]
  BY DEF Restart, Recover, TakeUp
<1> DEFINE m == Cardinality(Recoverable)
<1>4. IsFiniteSet(Recoverable) /\ m \in Nat /\ m <= MaxJobs
  BY <1>1, NamesFinite, FS_CardinalityType DEF Recoverable, FolderOK
<1>5. order \in [1..m -> Recoverable] /\ \A i, k \in 1..m : order[i] = order[k] => i = k
  BY DEF SetToSeqs
<1> HIDE DEF m
<1>6. \A n \in Recoverable : \E i \in 1..m : order[i] = n
  <2>1. order \in Injection(1..m, Recoverable)
    BY <1>5 DEF Injection, IsInjective
  <2>2. IsFiniteSet(1..m) /\ Cardinality(1..m) = Cardinality(Recoverable)
    BY <1>4, FS_Interval DEF m
  <2>3. order \in Surjection(1..m, Recoverable)
    BY <1>4, <2>1, <2>2, FS_Injection
  <2> QED
    BY <2>3 DEF Surjection
<1>7. Len(order) = m
  <2>1. order \in Seq(Recoverable)
    BY <1>4, <1>5, SeqDef
  <2> QED
    BY <1>4, <1>5, <2>1
<1>8. \A n \in Recoverable : /\ n \in Names /\ src[n] \in Uploads /\ jobfile[n] \in Asks
                             /\ jobfile[n].target \in Targets /\ jobfile[n].overwrite \in BOOLEAN
                             /\ jobfile[n] = [target |-> jobfile[n].target,
                                              overwrite |-> jobfile[n].overwrite]
  BY <1>1 DEF Types, Recoverable, Asks
<1>9. /\ DOMAIN jobs' = 1..m
      /\ \A i \in 1..m :
           /\ order[i] \in Recoverable /\ jobs'[i] \in JobRec /\ jobs'[i].id = i
           /\ jobs'[i].source = order[i] /\ jobs'[i].upload = src[order[i]]
           /\ jobs'[i].state = "waiting"
           /\ Card(jobs'[i]).source = order[i] /\ Card(jobs'[i]).upload = src[order[i]]
           /\ Card(jobs'[i]).ask = jobfile[order[i]]
  <2>1. DOMAIN jobs' = 1..m
    BY <1>3, <1>7
  <2>2. ASSUME NEW i \in 1..m
        PROVE  /\ order[i] \in Recoverable /\ jobs'[i] \in JobRec /\ jobs'[i].id = i
               /\ jobs'[i].source = order[i] /\ jobs'[i].upload = src[order[i]]
               /\ jobs'[i].state = "waiting"
               /\ Card(jobs'[i]).source = order[i] /\ Card(jobs'[i]).upload = src[order[i]]
               /\ Card(jobs'[i]).ask = jobfile[order[i]]
    <3> DEFINE n == order[i]
               j == NewJob(i, n, jobfile[n], src[n])
    <3>1. n \in Recoverable /\ jobs'[i] = j /\ i \in Nat
      BY <1>3, <1>4, <1>5, <1>7
    <3> HIDE DEF n
    <3>2. /\ j \in JobRec /\ j.id = i /\ j.source = n /\ j.upload = src[n] /\ j.state = "waiting"
          /\ Card(j).source = n /\ Card(j).upload = src[n] /\ Card(j).ask = jobfile[n]
      BY <1>8, <3>1 DEF NewJob, JobRec, Card
    <3> HIDE DEF j
    <3> QED
      BY <3>1, <3>2 DEF n
  <2> QED
    BY <2>1, <2>2
<1>10. jobs' \in Seq(JobRec) /\ Len(jobs') = m
  <2>1. jobs' \in [1..m -> JobRec]
    BY <1>3, <1>7, <1>9
  <2> QED
    BY <1>4, <1>9, <2>1, SeqDef
<1>11. /\ src' \in [Names -> Uploads \union {None}]
       /\ jobfile' \in [Names -> Asks \union {NoJob}]
       /\ \A n \in Recoverable : src'[n] = src[n] /\ jobfile'[n] = jobfile[n]
       /\ \A n \in Names : n \notin Recoverable => src'[n] = None /\ jobfile'[n] = NoJob
       /\ Recoverable' = Recoverable
  BY <1>1, <1>2, <1>8 DEF Types, Recoverable
<1>12. Live' = {Card(jobs'[i]) : i \in 1..m}
  BY <1>2, <1>9 DEF Live, LiveAt, Active
<1>13. Up' /\ ~Busy'
  BY <1>2 DEF Up, Busy
<1>14. Types'
  <2>1. pid' \in Nat /\ seq' \in Nat /\ seq' < nextUpload' /\ nextId' \in Nat
    BY <1>1, <1>2, <1>4, VideoAssumption DEF Types, m
  <2> QED
    BY <1>1, <1>2, <1>10, <1>11, <2>1 DEF Types
<1>15. ListOK'
  <2>1. \A i \in DOMAIN jobs' : jobs'[i].id < nextId'
    BY <1>2, <1>4, <1>9 DEF m
  <2> QED
    BY <1>4, <1>9, <1>10, <1>13, <2>1 DEF ListOK
<1>16. FilesOK'
  <2>1. \A j \in Live' : src'[j.source] = j.upload /\ jobfile'[j.source] = j.ask
    BY <1>9, <1>11, <1>12
  <2>2. \A j, k \in Live' : j.source = k.source => j = k
    BY <1>5, <1>9, <1>12
  <2>3. \A n \in Names : src'[n] # None \/ jobfile'[n] # NoJob => \E j \in Live' : j.source = n
    BY <1>6, <1>9, <1>11, <1>12
  <2> QED
    BY <2>1, <2>2, <2>3 DEF FilesOK
<1>17. FolderOK'
  <2>1. \A n \in Names : src'[n] # None \/ jobfile'[n] # NoJob => n[1] < crashes
    BY <1>1, <1>2, <1>11 DEF FolderOK, Recoverable
  <2>2. /\ \A n \in Recoverable : jobfile[n] = asked[src[n]]
        /\ \A n, l \in Recoverable : src[n] = src[l] => n = l
        /\ Cardinality(Recoverable) <= MaxJobs
    BY <1>1 DEF FolderOK
  <2> QED
    BY <1>2, <1>11, <2>1, <2>2 DEF FolderOK
<1>18. AskedOK' /\ TwiceOnlyIfCut' /\ VideosAsAsked'
  BY <1>1, <1>2 DEF AskedOK, TwiceOnlyIfCut, VideosAsAsked
<1>19. WorkOK'
  <2>1. child' \notin {"running", "ok"}
    BY <1>1, <1>2 DEF WorkOK, Up
  <2> QED
    BY <1>2, <2>1 DEF WorkOK
<1>20. JobOnceOK'
  <2>1. \A n \in Recoverable : installs[src[n]] = 0 \/ src[n] \in cut
    BY <1>1, <1>2 DEF JobOnceOK, Up
  <2> QED
    BY <1>2, <1>11, <2>1 DEF JobOnceOK
<1>21. UploadKept'
  <2> SUFFICES ASSUME NEW u \in Uploads, asked[u] # NoJob, u \notin ended, ~(installs[u] > 0)
               PROVE  \E n \in Names : src'[n] = u /\ jobfile'[n] = asked[u]
    BY <1>2 DEF UploadKept
  <2>1. PICK n \in Names : src[n] = u /\ jobfile[n] = asked[u]
    BY <1>1 DEF UploadKept
  <2>2. n \in Recoverable
    BY <2>1 DEF Recoverable, Uploads, None
  <2> QED
    BY <1>11, <2>1, <2>2
<1> QED
  BY <1>14, <1>15, <1>16, <1>17, <1>18, <1>19, <1>20, <1>21 DEF JobsInv
-----------------------------------------------------------------------------
\* No file, no job, and nothing taken yet.
LEMMA JobsInvInit == JobsInit => JobsInv
<1> SUFFICES ASSUME JobsInit PROVE JobsInv
  OBVIOUS
<1>1. /\ src = [n \in Names |-> None] /\ jobfile = [n \in Names |-> NoJob]
      /\ videos = [f \in Finals |-> None] /\ out = None
      /\ pid = 0 /\ seq = 0 /\ jobs = <<>> /\ nextId = 1
      /\ converter = "off" /\ good = FALSE /\ child = "none" /\ copy = None
      /\ nextUpload = 1 /\ crashes = 0
      /\ asked = [u \in Uploads |-> NoJob] /\ installs = [u \in Uploads |-> 0]
      /\ ended = {} /\ cut = {}
  BY DEF JobsInit
<1>2. Recoverable = {} /\ Live = {} /\ ~Up /\ ~Busy
  BY <1>1 DEF Recoverable, Live, Up, Busy
<1>3. Types
  <2>1. <<>> \in Seq(JobRec) /\ 0 \in 0..MaxTrouble /\ 1 \in 1..MaxUploads + 1
    BY VideoAssumption
  <2>2. src \in [Names -> Uploads \union {None}] /\ jobfile \in [Names -> Asks \union {NoJob}]
    BY <1>1
  <2>3. videos \in [Finals -> Uploads \union {None, Part}]
    BY <1>1
  <2>4. asked \in [Uploads -> Asks \union {NoJob}] /\ installs \in [Uploads -> Nat]
    BY <1>1
  <2>5. /\ out = None /\ copy = None /\ pid = 0 /\ seq = 0 /\ crashes = 0 /\ nextUpload = 1
        /\ jobs = <<>> /\ nextId = 1 /\ converter = "off" /\ good = FALSE /\ child = "none"
        /\ ended = {} /\ cut = {}
    BY <1>1
  <2>6. jobs \in Seq(JobRec)
    BY <2>1, <2>5
  <2>7. good \in BOOLEAN /\ copy \in Uploads \union {None} /\ out \in Uploads \union {None, Part}
    BY <2>5
  <2>8. pid \in Nat /\ seq \in Nat /\ nextId \in Nat /\ seq < nextUpload
    BY <2>5
  <2>9. crashes \in 0..MaxTrouble /\ nextUpload \in 1..MaxUploads + 1
    BY <2>1, <2>5
  <2> QED
    BY <2>2, <2>3, <2>4, <2>5, <2>6, <2>7, <2>8, <2>9 DEF Types
<1>4. ListOK
  BY <1>1, <1>2, VideoAssumption DEF ListOK
<1>5. FilesOK
  BY <1>2 DEF FilesOK
<1>6. FolderOK
  <2>1. Cardinality(Recoverable) <= MaxJobs
    BY <1>2, FS_EmptySet, VideoAssumption
  <2> QED
    BY <1>1, <1>2, <2>1 DEF FolderOK
<1>7. AskedOK /\ WorkOK /\ JobOnceOK /\ UploadKept /\ TwiceOnlyIfCut /\ VideosAsAsked
  BY <1>1, <1>2 DEF AskedOK, WorkOK, JobOnceOK, UploadKept, TwiceOnlyIfCut, VideosAsAsked
<1> QED
  BY <1>3, <1>4, <1>5, <1>6, <1>7 DEF JobsInv

\* Every action keeps the invariant, and replaces a video only by one that may.
LEMMA JobsInvStep ==
  ASSUME JobsInv, CountsOK, [JobsNext]_jobVars, ~SamePid
  PROVE  JobsInv' /\ OnlyAsked
<1>1. ASSUME JobsInv', UNCHANGED videos
      PROVE  JobsInv' /\ OnlyAsked
  BY <1>1 DEF OnlyAsked
<1>2. CASE Restart
  BY <1>1, <1>2, RestartKeeps DEF Restart
<1>3. ASSUME NEW ask \in Asks, Queue(ask) PROVE JobsInv' /\ UNCHANGED videos
  BY <1>3, QueueKeeps DEF Queue
<1>4. ASSUME NEW i \in DOMAIN jobs, Cancel(i) PROVE JobsInv' /\ UNCHANGED videos
  BY <1>4, CancelWaitingKeeps, CancelUnderWayKeeps DEF Cancel
<1>5. CASE Forget
  BY <1>1, <1>5, ForgetKeeps DEF Forget, folder
<1>6. CASE Pick
  BY <1>1, <1>6, PickKeeps DEF Pick, folder
<1>7. CASE SpawnFails
  BY <1>1, <1>7, SpawnFailsKeeps DEF SpawnFails, folder
<1>8. CASE Spawn
  BY <1>1, <1>8, SpawnKeeps DEF Spawn
<1>9. CASE Reap
  BY <1>1, <1>9, ReapKeeps DEF Reap, folder
<1>10. CASE Install
  BY <1>10, InstallKeeps
<1>11. CASE Cleanup
  BY <1>1, <1>11, CleanupKeeps DEF Cleanup
<1>12. CASE Settle
  BY <1>1, <1>12, SettleKeeps DEF Settle, folder
<1>13. CASE ChildEnds
  BY <1>1, <1>13, ChildEndsKeeps DEF ChildEnds
<1>14. CASE Die
  BY <1>1, <1>14, DieKeeps DEF Die
<1>15. CASE UNCHANGED jobVars
  <2>1. UNCHANGED <<src, jobfile, videos, out, pid, seq, jobs, nextId, converter, cur, good,
                    child, copy, nextUpload, crashes, asked, ended, installs, cut, byHand>>
    BY <1>15 DEF jobVars
  <2> QED
    BY <1>1, <2>1, SameKeeps
<1>16. ASSUME NEW f \in Finals, NEW h \in Finals, DeleteVideo(f) \/ RenameVideo(f, h)
       PROVE  JobsInv' /\ OnlyAsked
  BY <1>16, ByHandKeeps
<1> QED
  BY <1>1, <1>2, <1>3, <1>4, <1>5, <1>6, <1>7, <1>8, <1>9, <1>10, <1>11, <1>12, <1>13, <1>14,
     <1>15, <1>16 DEF JobsNext, Api, Converter

\* The names tried and the counts keep their ranges.
LEMMA CountsInvariant == JobsSpec => []CountsOK
<1>1. JobsInit => CountsOK
  BY VideoAssumption DEF JobsInit, CountsOK
<1>2. CountsOK /\ [JobsNext]_jobVars => CountsOK'
  <2> SUFFICES ASSUME CountsOK, [JobsNext]_jobVars PROVE CountsOK'
    OBVIOUS
  <2>1. attempt \in Nat /\ MaxCopies \in Nat /\ 1 \in 1..MaxCopies
    BY VideoAssumption DEF CountsOK
  <2>2. \/ UNCHANGED <<attempt, hands>>
        \/ attempt' = 1 /\ hands' = hands
        \/ attempt < MaxCopies /\ attempt' = attempt + 1 /\ hands' = hands
        \/ attempt' = attempt /\ hands' = hands + 1
    <3>1. CASE Restart
      BY <3>1 DEF Restart
    <3>2. CASE Api
      <4>1. ASSUME NEW ask \in Asks, Queue(ask) PROVE UNCHANGED <<attempt, hands>>
        BY <4>1 DEF Queue, work
      <4>2. ASSUME NEW i \in DOMAIN jobs, Cancel(i) PROVE UNCHANGED <<attempt, hands>>
        BY <4>2 DEF Cancel
      <4>3. CASE Forget
        BY <4>3 DEF Forget, work
      <4>4. ASSUME NEW f \in Finals, NEW h \in Finals, DeleteVideo(f) \/ RenameVideo(f, h)
            PROVE  attempt' = attempt /\ hands' = hands + 1
        BY <4>4 DEF DeleteVideo, RenameVideo, OnlyVideos, work
      <4> QED
        BY <3>2, <4>1, <4>2, <4>3, <4>4 DEF Api
    <3>3. CASE Converter
      BY <3>3 DEF Converter, Pick, SpawnFails, Spawn, Reap, Install, Cleanup, Settle
    <3>4. CASE ChildEnds \/ Die
      BY <3>4 DEF ChildEnds, Die
    <3>5. CASE UNCHANGED jobVars
      BY <3>5 DEF jobVars
    <3> QED
      BY <3>1, <3>2, <3>3, <3>4, <3>5 DEF JobsNext
  <2> QED
    BY <2>1, <2>2 DEF CountsOK
<1> QED
  BY <1>1, <1>2, PTL DEF JobsSpec

\* The invariant holds of every state of the queue.
LEMMA JobsInvariant ==
  ASSUME ~SamePid
  PROVE  JobsSpec => []JobsInv
<1>1. JobsInv /\ CountsOK /\ [JobsNext]_jobVars => JobsInv'
  BY JobsInvStep
<1> QED
  BY <1>1, JobsInvInit, CountsInvariant, PTL DEF JobsSpec

\* For any uploads and any number of crashes, while no process id comes round again:
\* an upload taken is never lost, becomes one video unless a crash cut its job off
\* after that, and leaves no hidden file (videos.c).
THEOREM UploadsInvariant ==
  ASSUME ~SamePid
  PROVE  JobsSpec => []UploadsRight
<1>1. JobsInv => UploadsRight
  <2> SUFFICES ASSUME JobsInv PROVE UploadsRight
    OBVIOUS
  <2>1. Types /\ ListOK /\ FilesOK /\ WorkOK /\ UploadKept /\ TwiceOnlyIfCut
    BY DEF JobsInv
  <2>2. JobsTypeOK
    BY <2>1 DEF Types, ListOK, Busy, JobsTypeOK
  <2>3. NoLitter
    <3> SUFFICES ASSUME converter = "idle", \A i \in DOMAIN jobs : ~Active(jobs[i])
                 PROVE  out = None /\ \A n \in Names : src[n] = None /\ jobfile[n] = NoJob
      BY DEF NoLitter
    <3>1. Live = {} /\ Up
      BY DEF Live, LiveAt, Up
    <3> QED
      BY <2>1, <3>1 DEF FilesOK, WorkOK
  <2> QED
    BY <2>1, <2>2, <2>3 DEF UploadsRight
<1> QED
  BY <1>1, JobsInvariant, PTL

\* Under the same assumption, what is in the folder under a name is a whole video
\* that was to have it, or was renamed to it (videos.c).
THEOREM VideosInvariant ==
  ASSUME ~SamePid
  PROVE  JobsSpec => []VideosAsAsked
<1>1. JobsInv => VideosAsAsked
  BY DEF JobsInv
<1> QED
  BY <1>1, JobsInvariant, PTL

\* Under the same assumption, a video is replaced only by one that may, whatever is
\* renamed and deleted meanwhile (videos.c, api.c).
THEOREM OnlyAskedReplace ==
  ASSUME ~SamePid
  PROVE  JobsSpec => ReplacedOnlyIfAsked
<1>1. JobsInv /\ CountsOK /\ [JobsNext]_jobVars =>
        [\A f \in Finals : videos[f] # None /\ videos'[f] \notin {videos[f], None}
           => asked[videos'[f]].overwrite /\ f \notin byHand']_jobVars
  BY JobsInvStep DEF OnlyAsked
<1> QED
  BY <1>1, JobsInvariant, CountsInvariant, PTL DEF JobsSpec, ReplacedOnlyIfAsked
=============================================================================
