------------------------ MODULE WebpDecoder_proofs -------------------------
(***************************************************************************)
(* Proofs about ReadUrl and WebpDecoder: for any file, page size and limit *)
(* the caller gets the bytes of the file in order, nothing is left open or *)
(* allocated however a call ends, and the time stamps of frames fit.       *)
(***************************************************************************)
EXTENDS WebpDecoder, TLAPS

\* The pages p hold the bytes behind the first `from`, up to `to`: all but the
\* last are full.
Cover(p, from, to) ==
  /\ \A j \in 1..Len(p) :
       /\ Len(p[j]) \in 1..PageSize
       /\ \A i \in 1..Len(p[j]) : p[j][i] = from + (j - 1) * PageSize + i
  /\ \A j \in 1..(Len(p) - 1) : Len(p[j]) = PageSize
  /\ p = <<>> => to = from
  /\ p # <<>> => to = from + (Len(p) - 1) * PageSize + Len(p[Len(p)])

Full(p) == p # <<>> => Len(p[Len(p)]) = PageSize

\* What has been read to the buffer or page is what comes next in the file.
Target ==
  /\ Len(target) <= pos /\ Len(target) <= (IF Paged THEN PageSize ELSE limit)
  /\ \A i \in 1..Len(target) : target[i] = pos - Len(target) + i
  /\ Cover(pages, 0, pos - Len(target))
  /\ ~Paged => pages = <<>>
  /\ Full(pages) \/ (pos = size /\ target = <<>>)

Before == pages = <<>> /\ pos = 0 /\ buffer = <<>>

\* What is true of a call at each of its stages.
Stages ==
  /\ stage \in {"idle", "open"} => Before /\ held = {}
  /\ stage = "size" => Before /\ held = {"file"} /\ limit = SizeMax
  /\ stage = "alloc" =>
       /\ held = {"file"} \cup (IF pages = <<>> THEN {} ELSE {"pages"})
       /\ pages # <<>> => Paged
       /\ Cover(pages, 0, pos) /\ (Full(pages) \/ pos = size)
  /\ stage = "read" =>
       /\ held = {"file"} \cup (IF Paged THEN {"pages"} ELSE IF mine THEN {"buffer"} ELSE {})
       /\ Target
  /\ stage = "join" => Paged /\ pos = size /\ Cover(pages, 0, pos)
  /\ stage \in {"alloc", "read", "join"} => buffer = <<>>
  /\ stage = "copy" =>
       /\ Paged /\ pos = size /\ Cover(pages, Len(buffer), pos)
       /\ bufsize = Len(buffer) /\ \A i \in 1..Len(buffer) : buffer[i] = i
  /\ stage = "done" => held = IF mine /\ result = "ok" THEN {"buffer"} ELSE {}

ReadInv == ReadTypeOK /\ Stages /\ BytesInOrder

----------------------------------------------------------------------------
\* avio_read is never asked for more than fits.
LEMMA AsIntBelow == \A n \in Nat : AsInt(n) \in Int /\ AsInt(n) <= n
<1> SUFFICES ASSUME NEW n \in Nat PROVE AsInt(n) \in Int /\ AsInt(n) <= n
  OBVIOUS
<1> DEFINE M == 2 * (IntMax + 1)
           m == n % M
<1>1. M \in Nat \ {0} /\ IntMax \in Nat
  BY ReadAssumption
<1>2. AsInt(n) = IF m > IntMax THEN m - M ELSE m
  BY DEF AsInt
<1> HIDE DEF M
<1>3. m \in 0..(M - 1) /\ m <= n
  BY <1>1
<1> HIDE DEF m
<1> QED
  BY <1>1, <1>2, <1>3

\* Sequences of whatever it is, without a look at the elements.
LEMMA Sequencing ==
  ASSUME NEW S, NEW p \in Seq(S)
  PROVE  /\ Len(p) \in Nat /\ (p = <<>> <=> Len(p) = 0) /\ \A j \in 1..Len(p) : p[j] \in S
         /\ \A q \in S : /\ Append(p, q) \in Seq(S) /\ Len(Append(p, q)) = Len(p) + 1
                         /\ \A j \in 1..Len(p) : Append(p, q)[j] = p[j]
                         /\ Append(p, q)[Len(p) + 1] = q
         /\ p # <<>> => /\ Tail(p) \in Seq(S) /\ Len(Tail(p)) = Len(p) - 1
                        /\ \A j \in 1..(Len(p) - 1) : Tail(p)[j] = p[j + 1]
OBVIOUS

\* The place of a page moves by one page.
LEMMA Places ==
  \A f, k \in Int :
    /\ f + (1 - 1) * PageSize + k = f + k
    /\ \A n \in Int : f + n * PageSize + k = f + PageSize + (n - 1) * PageSize + k
BY ReadAssumption

\* A page more, behind full ones.
LEMMA PageMore ==
  ASSUME NEW p \in Seq(Seq(1..MaxSize)), NEW q \in Seq(1..MaxSize), NEW from \in Nat, NEW to \in Nat,
         Cover(p, from, to), Full(p), Len(q) \in 1..PageSize,
         \A i \in 1..Len(q) : q[i] = to + i
  PROVE  Cover(Append(p, q), from, to + Len(q))
<1> DEFINE r == Append(p, q)
<1> USE ReadAssumption
<1>1. /\ r \in Seq(Seq(1..MaxSize)) /\ Len(r) = Len(p) + 1 /\ Len(p) \in Nat /\ r # <<>>
      /\ \A j \in 1..Len(p) : r[j] = p[j]
      /\ r[Len(p) + 1] = q
  <2>1. /\ r \in Seq(Seq(1..MaxSize)) /\ Len(r) = Len(p) + 1 /\ Len(p) \in Nat
        /\ \A j \in 1..Len(p) : r[j] = p[j]
        /\ r[Len(p) + 1] = q
    BY Sequencing
  <2>2. r # <<>>
    <3>1. Len(r) # 0
      BY <2>1
    <3> QED
      BY ZenonT(40), <2>1, <3>1, Sequencing
  <2> QED
    BY <2>1, <2>2
<1> HIDE DEF r
<1>2. to = from + Len(p) * PageSize
  <2>1. CASE p = <<>>
    BY <2>1 DEF Cover
  <2>2. CASE p # <<>>
    <3>1. to = from + (Len(p) - 1) * PageSize + PageSize
      BY <2>2 DEF Cover, Full
    <3>2. Len(p) * PageSize = (Len(p) - 1) * PageSize + PageSize
      BY <1>1
    <3> QED
      BY <1>1, <3>1, <3>2
  <2> QED
    BY <2>1, <2>2
<1>3. ASSUME NEW j \in 1..Len(r)
      PROVE  /\ Len(r[j]) \in 1..PageSize
             /\ \A i \in 1..Len(r[j]) : r[j][i] = from + (j - 1) * PageSize + i
  <2>1. CASE j \in 1..Len(p)
    <3>1. r[j] = p[j]
      BY <1>1, <2>1
    <3> QED
      BY <2>1, <3>1 DEF Cover
  <2>2. CASE j = Len(p) + 1
    <3>1. j - 1 = Len(p) /\ r[j] = q
      BY <1>1, <2>2
    <3> QED
      BY <1>2, <3>1
  <2> QED
    BY <1>1, <2>1, <2>2
<1>4. ASSUME NEW j \in 1..(Len(r) - 1) PROVE Len(r[j]) = PageSize
  <2>1. j \in 1..Len(p) /\ r[j] = p[j] /\ p # <<>>
    BY <1>1, Sequencing
  <2>2. CASE j = Len(p)
    BY <2>1, <2>2 DEF Full
  <2>3. CASE j \in 1..(Len(p) - 1)
    BY <2>1, <2>3 DEF Cover
  <2> QED
    BY <1>1, <2>1, <2>2, <2>3
<1>5. to + Len(q) = from + (Len(r) - 1) * PageSize + Len(r[Len(r)])
  <2>1. Len(r) - 1 = Len(p) /\ r[Len(r)] = q
    BY <1>1
  <2> QED
    BY <1>2, <2>1
<1> QED
  BY <1>1, <1>3, <1>4, <1>5 DEF Cover, r

\* The first page taken away.
LEMMA PageLess ==
  ASSUME NEW p \in Seq(Seq(1..MaxSize)), p # <<>>, NEW from \in Nat, NEW to \in Nat, Cover(p, from, to)
  PROVE  /\ Len(p[1]) \in 1..PageSize /\ \A i \in 1..Len(p[1]) : p[1][i] = from + i
         /\ Tail(p) \in Seq(Seq(1..MaxSize))
         /\ Len(p) = 1 \/ Len(p[1]) = PageSize
         /\ Cover(Tail(p), from + Len(p[1]), to)
<1> DEFINE r == Tail(p)
<1> USE ReadAssumption
<1>1. /\ Len(p) \in Nat \ {0} /\ r \in Seq(Seq(1..MaxSize)) /\ Len(r) = Len(p) - 1
      /\ \A j \in 1..Len(r) : r[j] = p[j + 1]
  <2>1. /\ Len(p) \in Nat /\ Len(p) # 0 /\ r \in Seq(Seq(1..MaxSize)) /\ Len(r) = Len(p) - 1
        /\ \A j \in 1..(Len(p) - 1) : r[j] = p[j + 1]
    BY Sequencing
  <2> QED
    BY <2>1
<1> HIDE DEF r
<1>2. r = <<>> <=> Len(p) = 1
  <2>1. r = <<>> <=> Len(r) = 0
    BY <1>1, Sequencing
  <2> QED
    BY SMTT(30), <1>1, <2>1
<1>3. /\ Len(p[1]) \in 1..PageSize
      /\ \A i \in 1..Len(p[1]) : p[1][i] = from + i
  <2>1. (1 - 1) * PageSize = 0
    OBVIOUS
  <2> QED
    BY <1>1, <2>1 DEF Cover
<1>4. Len(p) # 1 => Len(p[1]) = PageSize
  BY <1>1 DEF Cover
<1>5. CASE Len(p) = 1
  <2>1. to = from + (1 - 1) * PageSize + Len(p[1])
    BY <1>5 DEF Cover
  <2>2. Len(r) = 0 /\ r = <<>>
    BY <1>1, <1>2, <1>5
  <2>3. to = from + Len(p[1])
    <3>1. Len(p[1]) \in Int /\ from \in Int
      BY <1>3
    <3> HIDE DEF Cover
    <3> QED
      BY <2>1, <3>1, Places, Zenon
  <2>4. 1..Len(r) = {} /\ 1..(Len(r) - 1) = {}
    BY <2>2
  <2>5. Cover(r, from + Len(p[1]), to)
    BY <2>2, <2>3, <2>4 DEF Cover
  <2> QED
    BY <1>1, <1>3, <1>5, <2>5 DEF r
<1>6. CASE Len(p) # 1
  <2>1. Len(p[1]) = PageSize /\ r # <<>> /\ Len(r) \in Nat \ {0}
    BY SMTT(30), <1>1, <1>2, <1>4, <1>6
  <2>2. ASSUME NEW j \in 1..Len(r)
        PROVE  /\ Len(r[j]) \in 1..PageSize
               /\ \A i \in 1..Len(r[j]) : r[j][i] = from + PageSize + (j - 1) * PageSize + i
    <3>1. r[j] = p[j + 1] /\ j + 1 \in 1..Len(p) /\ (j + 1) - 1 = j
      BY <1>1
    <3>2. j * PageSize = PageSize + (j - 1) * PageSize
      OBVIOUS
    <3> QED
      BY <3>1, <3>2 DEF Cover
  <2>3. ASSUME NEW j \in 1..(Len(r) - 1) PROVE Len(r[j]) = PageSize
    <3>1. r[j] = p[j + 1] /\ j + 1 \in 1..(Len(p) - 1)
      <4>1. j \in 1..Len(r) /\ j + 1 \in 1..(Len(p) - 1)
        BY <1>1, <2>1
      <4> QED
        BY <1>1, <4>1
    <3> QED
      BY <3>1 DEF Cover
  <2>4. to = from + PageSize + (Len(r) - 1) * PageSize + Len(r[Len(r)])
    <3>1. to = from + (Len(p) - 1) * PageSize + Len(p[Len(p)])
      BY DEF Cover
    <3>2. r[Len(r)] = p[Len(p)] /\ Len(r) = Len(p) - 1
      BY SMTT(30), <1>1, <2>1
    <3>4. Len(p[Len(p)]) \in Int
      BY <1>1 DEF Cover
    <3>5. to = from + Len(r) * PageSize + Len(p[Len(p)])
      BY <3>1, <3>2
    <3>6. from \in Int /\ Len(r) \in Int
      BY <1>1
    <3>7. from + Len(r) * PageSize + Len(p[Len(p)]) = from + PageSize + (Len(r) - 1) * PageSize + Len(p[Len(p)])
      BY ZenonT(40), <3>4, <3>6, Places
    <3> QED
      BY <3>2, <3>5, <3>7
  <2>5. Cover(r, from + Len(p[1]), to)
    BY <2>1, <2>2, <2>3, <2>4 DEF Cover
  <2> QED
    BY <1>1, <1>3, <1>4, <2>5 DEF r
<1> QED
  BY <1>5, <1>6

----------------------------------------------------------------------------
\* Nothing changes while something else goes on.
LEMMA Idling == ReadInv /\ UNCHANGED readVars => ReadInv'
<1> SUFFICES ASSUME ReadInv, UNCHANGED readVars PROVE ReadInv'
  OBVIOUS
<1>1. UNCHANGED <<api, stage, mine, limit, bufsize, buffer, target, pages, size, pos, held, result>>
  BY DEF readVars
<1>2. ReadTypeOK'
  BY <1>1 DEF ReadInv, ReadTypeOK
<1>3. Paged' = Paged /\ (Before' <=> Before) /\ (Target' <=> Target)
  BY <1>1 DEF Paged, Before, Target
<1>4. Stages'
  BY <1>1, <1>3 DEF ReadInv, Stages
<1>5. BytesInOrder'
  BY <1>1 DEF ReadInv, BytesInOrder
<1> QED
  BY <1>2, <1>4, <1>5 DEF ReadInv

\* ReadUrl: each of its steps keeps what is true at each stage.
LEMMA Reading == ReadInv /\ ReadStep => ReadInv'
<1> SUFFICES ASSUME ReadInv, ReadStep PROVE ReadInv'
  OBVIOUS
<1> USE ReadAssumption
<1>0. ReadTypeOK /\ Stages /\ BytesInOrder
  BY DEF ReadInv
<1>1. CASE OpenFails
  <2>1. ReadTypeOK'
    BY <1>0, <1>1 DEF OpenFails, Return, ReadTypeOK
  <2> QED
    BY <1>0, <1>1, <2>1 DEF OpenFails, Return, Stages, BytesInOrder, ReadInv
<1>2. CASE OpenFile
  <2>1. ReadTypeOK'
    BY <1>0, <1>2 DEF OpenFile, ReadTypeOK, Stages, Before
  <2>2. Before /\ Before' /\ Cover(pages, 0, pos)'
    BY <1>0, <1>2 DEF OpenFile, Stages, Before, Cover
  <2> QED
    BY <1>0, <1>2, <2>1, <2>2 DEF OpenFile, Stages, Before, Full, BytesInOrder, ReadInv
<1>3. CASE GetSize \/ GetSizeUnknown
  <2>1. ReadTypeOK' /\ stage = "size" /\ stage' = "alloc"
    <3>1. limit' \in Nat
      BY <1>0, <1>3 DEF GetSize, GetSizeUnknown, ReadTypeOK
    <3> QED
      BY <1>0, <1>3, <3>1 DEF GetSize, GetSizeUnknown, ReadTypeOK
  <2>2. Before /\ Before' /\ Cover(pages, 0, pos)' /\ held' = {"file"}
    <3>1. UNCHANGED <<pages, pos, buffer, held>>
      BY <1>3 DEF GetSize, GetSizeUnknown
    <3>2. Before /\ held = {"file"}
      BY <1>0, <2>1 DEF Stages
    <3> QED
      BY <3>1, <3>2 DEF Before, Cover
  <2> QED
    BY <2>1, <2>2 DEF Stages, Before, Full, BytesInOrder, ReadInv
<1>4. CASE GetSizeFails
  <2>1. ReadTypeOK'
    BY <1>0, <1>4 DEF GetSizeFails, Return, ReadTypeOK
  <2> QED
    BY <1>0, <1>4, <2>1 DEF GetSizeFails, Return, Stages, BytesInOrder, ReadInv
<1>5. CASE Alloc
  <2>1. /\ stage = "alloc" /\ stage' = "read" /\ target' = <<>>
        /\ held' = held \cup (IF Paged THEN {"pages"} ELSE IF mine THEN {"buffer"} ELSE {})
        /\ UNCHANGED <<api, mine, limit, bufsize, buffer, pages, size, pos, result>>
    BY <1>5 DEF Alloc
  <2>2. ReadTypeOK'
    BY <1>0, <2>1 DEF ReadTypeOK
  <2>3. Len(target') = 0 /\ pos' - Len(target') = pos /\ Paged' = Paged
    BY <1>0, <2>1 DEF ReadTypeOK, Paged
  <2>4. /\ held = {"file"} \cup (IF pages = <<>> THEN {} ELSE {"pages"})
        /\ (pages # <<>> => Paged) /\ Cover(pages, 0, pos) /\ (Full(pages) \/ pos = size) /\ buffer = <<>>
    BY <1>0, <2>1 DEF Stages
  <2>5. Target'
    BY <1>0, <2>1, <2>3, <2>4 DEF Target, ReadTypeOK
  <2>6. held' = {"file"} \cup (IF Paged' THEN {"pages"} ELSE IF mine' THEN {"buffer"} ELSE {})
    BY <2>1, <2>3, <2>4
  <2> QED
    BY <2>1, <2>2, <2>4, <2>5, <2>6 DEF Stages, BytesInOrder, ReadInv
<1>6. CASE AllocFails
  <2>1. ReadTypeOK'
    BY <1>0, <1>6 DEF AllocFails, Return, ReadTypeOK
  <2> QED
    BY <1>0, <1>6, <2>1 DEF AllocFails, Return, Stages, BytesInOrder, ReadInv
<1>7. CASE ReadSome
  <2>1. /\ stage = "read" /\ Want > 0
        /\ UNCHANGED <<api, stage, mine, limit, bufsize, buffer, pages, size, held, result>>
    BY <1>7 DEF ReadSome
  <2>2. PICK n \in 1..(size - pos) :
          n <= Asked /\ target' = target \o [i \in 1..n |-> pos + i] /\ pos' = pos + n
    BY <1>7 DEF ReadSome
  <2> DEFINE more == [i \in 1..n |-> pos + i]
  <2>3. size \in 0..MaxSize /\ pos \in 0..size /\ target \in Seq(1..MaxSize) /\ limit \in Nat
    BY <1>0 DEF ReadTypeOK
  <2>4. more \in Seq(1..MaxSize) /\ Len(more) = n /\ \A i \in 1..n : more[i] = pos + i
    BY <2>2, <2>3
  <2>5. n \in Nat \ {0} /\ pos + n \in 0..size
    BY <2>2, <2>3
  <2> HIDE DEF more
  <2>6. /\ target' \in Seq(1..MaxSize) /\ Len(target') = Len(target) + n
        /\ \A i \in 1..Len(target') : target'[i] = IF i <= Len(target) THEN target[i] ELSE more[i - Len(target)]
    BY <2>2, <2>3, <2>4, <2>5 DEF more
  <2>7. Want \in Nat /\ n <= Want
    <3>1. Want \in Nat
      BY <2>1, <2>3 DEF Want
    <3>2. AsInt(Want) \in Int /\ AsInt(Want) <= Want
      BY <3>1, AsIntBelow
    <3>3. Asked \in Int /\ Asked <= Want
      BY <3>1, <3>2 DEF Asked
    <3> QED
      BY <2>2, <2>5, <3>1, <3>3
  <2>8. Target
    BY <1>0, <2>1 DEF Stages
  <2>9. Paged' = Paged /\ Len(target) \in Nat /\ pos' - Len(target') = pos - Len(target)
    BY SMTT(30), <2>1, <2>2, <2>3, <2>5, <2>6 DEF Paged
  <2>10. ASSUME NEW i \in 1..Len(target') PROVE target'[i] = pos' - Len(target') + i
    <3>1. CASE i <= Len(target)
      BY SMTT(30), <2>6, <2>8, <2>9, <3>1 DEF Target
    <3>2. CASE i > Len(target)
      <4>1. i - Len(target) \in 1..n
        BY <2>5, <2>6, <2>9, <3>2
      <4> QED
        BY <2>2, <2>3, <2>4, <2>5, <2>6, <2>9, <3>2, <4>1
    <3> QED
      BY <2>9, <3>1, <3>2
  <2>11. Target'
    <3>1. Full(pages)'
      BY <2>1, <2>3, <2>5, <2>8 DEF Target
    <3>2. Cover(pages, 0, pos - Len(target))'
      BY <2>1, <2>8, <2>9 DEF Target
    <3>3. Len(target') <= pos' /\ Len(target') <= (IF Paged' THEN PageSize ELSE limit')
      BY <2>1, <2>2, <2>3, <2>5, <2>6, <2>7, <2>8, <2>9 DEF Want, Target
    <3> QED
      BY <2>1, <2>8, <2>9, <2>10, <3>1, <3>2, <3>3 DEF Target
  <2>12. ReadTypeOK'
    BY <1>0, <2>1, <2>2, <2>5, <2>6 DEF ReadTypeOK
  <2> QED
    BY <1>0, <2>1, <2>9, <2>11, <2>12 DEF Stages, BytesInOrder, ReadInv
<1>8. CASE ReadNothing
  <2>1. UNCHANGED readVars
    BY <1>8 DEF ReadNothing
  <2> QED
    BY <2>1, Idling
<1>9. CASE ReadFails
  <2>1. ReadTypeOK'
    BY <1>0, <1>9 DEF ReadFails, Return, ReadTypeOK
  <2> QED
    BY <1>0, <1>9, <2>1 DEF ReadFails, Return, Stages, BytesInOrder, ReadInv
<1>10. CASE ReadWhole
  <2>1. /\ stage = "read" /\ (Want = 0 \/ pos = size) /\ ~Paged
        /\ stage' = "done" /\ result' = "ok" /\ held' = held \ {"file"}
        /\ buffer' = target /\ bufsize' = Len(target)
        /\ UNCHANGED <<api, mine, limit, target, pages, size, pos>>
    BY <1>10 DEF ReadWhole, ReadEnds, Return
  <2>2. size \in 0..MaxSize /\ pos \in 0..size /\ target \in Seq(1..MaxSize) /\ limit \in Nat
    BY <1>0 DEF ReadTypeOK
  <2>3. /\ Target /\ pages = <<>>
        /\ held = {"file"} \cup (IF mine THEN {"buffer"} ELSE {})
    BY <1>0, <2>1 DEF Stages, Target
  <2>4. Len(target) = pos
    BY <2>2, <2>3 DEF Target, Cover
  <2>5. \A i \in 1..pos : target[i] = i
    BY <2>2, <2>3, <2>4 DEF Target
  <2>6. target = [i \in 1..pos |-> i]
    BY <2>2, <2>4, <2>5
  <2>7. pos = IF limit < size THEN limit ELSE size
    BY <2>1, <2>2, <2>3, <2>4 DEF Want, Target
  <2>8. ReadTypeOK'
    <3>1. target \in Seq(0..MaxSize)
      BY <2>2
    <3> QED
      BY <1>0, <2>1, <2>2, <2>4, <3>1 DEF ReadTypeOK
  <2>9. held' = IF mine' THEN {"buffer"} ELSE {}
    BY <2>1, <2>3
  <2> QED
    BY <2>1, <2>4, <2>6, <2>7, <2>8, <2>9 DEF Stages, BytesInOrder, ReadInv
<1>11. CASE PageRead
  <2>1. /\ stage = "read" /\ (Want = 0 \/ pos = size) /\ Paged /\ target # <<>>
        /\ pages' = Append(pages, target) /\ stage' = "alloc"
        /\ UNCHANGED <<api, mine, limit, bufsize, buffer, target, size, pos, held, result>>
    BY <1>11 DEF PageRead, ReadEnds
  <2>2. /\ size \in 0..MaxSize /\ pos \in 0..size /\ target \in Seq(1..MaxSize)
        /\ pages \in Seq(Seq(1..MaxSize))
    BY <1>0 DEF ReadTypeOK
  <2>3. Target /\ held = {"file", "pages"} /\ buffer = <<>>
    BY <1>0, <2>1 DEF Stages
  <2>4. Len(target) \in 1..PageSize /\ pos - Len(target) \in Nat /\ Full(pages)
    <3>1. Len(target) \in Nat \ {0}
      BY <2>1, <2>2
    <3> QED
      BY <2>1, <2>2, <2>3, <3>1 DEF Target
  <2>5. Cover(pages', 0, (pos - Len(target)) + Len(target))
    BY <2>1, <2>2, <2>3, <2>4, PageMore DEF Target
  <2>6. Cover(pages, 0, pos)'
    <3>1. (pos - Len(target)) + Len(target) = pos
      BY <2>2, <2>4
    <3> QED
      BY <2>1, <2>5, <3>1
  <2>7. /\ pages' \in Seq(Seq(1..MaxSize)) /\ pages' # <<>> /\ Len(pages') = Len(pages) + 1
        /\ pages'[Len(pages')] = target
    <3>1. /\ pages' \in Seq(Seq(1..MaxSize)) /\ Len(pages') = Len(pages) + 1 /\ Len(pages) \in Nat
          /\ pages'[Len(pages) + 1] = target
      BY <2>1, <2>2, Sequencing
    <3>2. pages' # <<>>
      <4>1. Len(pages') # 0
        BY <3>1
      <4> QED
        BY <3>1, <4>1, Sequencing
    <3> QED
      BY <3>1, <3>2
  <2>8. Full(pages') \/ pos = size
    BY <2>1, <2>2, <2>4, <2>7 DEF Full, Want
  <2>9. ReadTypeOK' /\ Paged'
    BY <1>0, <2>1, <2>7 DEF ReadTypeOK, Paged
  <2> QED
    BY <2>1, <2>3, <2>6, <2>7, <2>8, <2>9 DEF Stages, BytesInOrder, ReadInv
<1>12. CASE PagesEnd
  <2>1. /\ stage = "read" /\ (Want = 0 \/ pos = size) /\ Paged /\ target = <<>> /\ stage' = "join"
        /\ UNCHANGED <<api, mine, limit, bufsize, buffer, target, pages, size, pos, held, result>>
    BY <1>12 DEF PagesEnd, ReadEnds
  <2>2. ReadTypeOK' /\ Paged' /\ Len(target) = 0 /\ pos \in Int
    BY <1>0, <2>1 DEF ReadTypeOK, Paged
  <2>3. pos = size
    BY <2>1, <2>2 DEF Want
  <2>4. Target /\ buffer = <<>>
    BY <1>0, <2>1 DEF Stages
  <2>5. Cover(pages, 0, pos)
    BY <2>2, <2>4 DEF Target
  <2> QED
    BY <2>1, <2>2, <2>3, <2>4, <2>5 DEF Stages, BytesInOrder, ReadInv
<1>13. CASE Join
  <2>1. /\ stage = "join" /\ stage' = "copy" /\ bufsize' = 0 /\ held' = held \cup {"buffer"}
        /\ UNCHANGED <<api, mine, limit, buffer, target, pages, size, pos, result>>
    BY <1>13 DEF Join
  <2>2. ReadTypeOK' /\ Paged' = Paged
    BY <1>0, <2>1 DEF ReadTypeOK, Paged
  <2>3. Paged /\ pos = size /\ Cover(pages, 0, pos) /\ buffer = <<>> /\ Len(buffer) = 0
    BY <1>0, <2>1 DEF Stages
  <2>4. Cover(pages, Len(buffer), pos)'
    BY <2>1, <2>3
  <2> QED
    BY <2>1, <2>2, <2>3, <2>4 DEF Stages, BytesInOrder, ReadInv
<1>14. CASE JoinFails
  <2>1. ReadTypeOK'
    BY <1>0, <1>14 DEF JoinFails, Return, ReadTypeOK
  <2> QED
    BY <1>0, <1>14, <2>1 DEF JoinFails, Return, Stages, BytesInOrder, ReadInv
<1>15. CASE CopyPage
  <2>1. /\ stage = "copy" /\ stage' = "copy" /\ pages # <<>> /\ buffer' = buffer \o Copied
        /\ bufsize' = bufsize + Len(Copied) /\ pages' = Tail(pages)
        /\ UNCHANGED <<api, mine, limit, target, size, pos, held, result>>
    BY <1>15 DEF CopyPage
  <2>2. /\ size \in 0..MaxSize /\ pos \in 0..size /\ buffer \in Seq(0..MaxSize)
        /\ pages \in Seq(Seq(1..MaxSize)) /\ Len(buffer) \in Nat
    BY <1>0 DEF ReadTypeOK
  <2>3. /\ Paged /\ pos = size /\ Cover(pages, Len(buffer), pos)
        /\ bufsize = Len(buffer) /\ \A i \in 1..Len(buffer) : buffer[i] = i
    BY <1>0, <2>1 DEF Stages
  <2>4. /\ Len(pages[1]) \in 1..PageSize /\ \A i \in 1..Len(pages[1]) : pages[1][i] = Len(buffer) + i
        /\ Tail(pages) \in Seq(Seq(1..MaxSize))
        /\ Len(pages) = 1 \/ Len(pages[1]) = PageSize
        /\ Cover(Tail(pages), Len(buffer) + Len(pages[1]), pos)
    BY <2>1, <2>2, <2>3, PageLess
  <2>5. pages[1] \in Seq(1..MaxSize)
    <3>1. Len(pages) \in Nat /\ Len(pages) # 0
      BY <2>1, <2>2, Sequencing
    <3> QED
      BY <2>2, <3>1, Sequencing
  <2>6. Copied \in Seq(0..MaxSize) /\ Len(Copied) = Len(pages[1]) /\ \A i \in 1..Len(Copied) : Copied[i] = Len(buffer) + i
    <3>1. CASE Len(pages) = 1
      BY <2>4, <2>5, <3>1 DEF Copied
    <3>2. CASE Len(pages) # 1
      <4> DEFINE all == [k \in 1..PageSize |-> IF k <= Len(pages[1]) THEN pages[1][k] ELSE 0]
      <4>1. Copied = all /\ Len(pages[1]) = PageSize
        BY <2>4, <3>2 DEF Copied
      <4>2. \A k \in 1..PageSize : all[k] = pages[1][k] /\ pages[1][k] \in 0..MaxSize
        BY <2>5, <4>1
      <4>3. all \in Seq(0..MaxSize) /\ Len(all) = PageSize
        BY <4>2
      <4> HIDE DEF all
      <4> QED
        BY <2>4, <4>1, <4>2, <4>3
    <3> QED
      BY <3>1, <3>2
  <2>7. /\ buffer' \in Seq(0..MaxSize) /\ Len(buffer') = Len(buffer) + Len(Copied)
        /\ \A i \in 1..Len(buffer') : buffer'[i] = IF i <= Len(buffer) THEN buffer[i] ELSE Copied[i - Len(buffer)]
    <3> DEFINE c == Copied
    <3>1. c \in Seq(0..MaxSize) /\ buffer' = buffer \o c
      BY <2>1, <2>6
    <3> HIDE DEF c
    <3>2. /\ buffer' \in Seq(0..MaxSize) /\ Len(buffer') = Len(buffer) + Len(c)
          /\ \A i \in 1..Len(buffer') : buffer'[i] = IF i <= Len(buffer) THEN buffer[i] ELSE c[i - Len(buffer)]
      BY <2>2, <3>1
    <3> QED
      BY <3>2 DEF c
  <2>8. ASSUME NEW i \in 1..Len(buffer') PROVE buffer'[i] = i
    <3>1. CASE i <= Len(buffer)
      BY <2>2, <2>3, <2>7, <3>1
    <3>2. CASE i > Len(buffer)
      <4>1. i - Len(buffer) \in 1..Len(Copied)
        BY <2>2, <2>4, <2>6, <2>7, <3>2
      <4>2. buffer'[i] = Copied[i - Len(buffer)] /\ i \in Nat
        BY <2>2, <2>7, <3>2
      <4>3. Copied[i - Len(buffer)] = Len(buffer) + (i - Len(buffer))
        BY <2>6, <4>1
      <4> QED
        BY <2>2, <4>2, <4>3
    <3> QED
      BY <2>2, <3>1, <3>2
  <2>9. ReadTypeOK' /\ Paged'
    BY SMTT(30), <1>0, <2>1, <2>2, <2>3, <2>4, <2>6, <2>7 DEF ReadTypeOK, Paged
  <2>10. Cover(pages, Len(buffer), pos)' /\ bufsize' = Len(buffer')
    BY <2>1, <2>3, <2>4, <2>6, <2>7
  <2> QED
    BY <1>0, <2>1, <2>3, <2>8, <2>9, <2>10 DEF Stages, BytesInOrder, ReadInv
<1>16. CASE CopyEnds
  <2>1. /\ stage = "copy" /\ pages = <<>> /\ stage' = "done" /\ result' = "ok" /\ held' = {"buffer"}
        /\ UNCHANGED <<api, mine, limit, bufsize, buffer, target, pages, size, pos>>
    BY <1>16 DEF CopyEnds, Return
  <2>2. /\ Paged /\ pos = size /\ Cover(pages, Len(buffer), pos)
        /\ bufsize = Len(buffer) /\ \A i \in 1..Len(buffer) : buffer[i] = i
    BY <1>0, <2>1 DEF Stages
  <2>3. size \in 0..MaxSize /\ buffer \in Seq(0..MaxSize)
    BY <1>0 DEF ReadTypeOK
  <2>4. Len(buffer) = pos
    BY <2>1, <2>2 DEF Cover
  <2>5. buffer = [i \in 1..pos |-> i]
    BY <2>2, <2>3, <2>4
  <2>6. pos = IF limit < size THEN limit ELSE size
    BY <2>2, <2>3 DEF Paged
  <2>7. ReadTypeOK'
    BY <1>0, <2>1 DEF ReadTypeOK
  <2>8. mine'
    BY <2>1, <2>2 DEF Paged
  <2> QED
    BY <2>1, <2>2, <2>4, <2>5, <2>6, <2>7, <2>8 DEF Stages, BytesInOrder, ReadInv
<1> QED
  BY <1>1, <1>2, <1>3, <1>4, <1>5, <1>6, <1>7, <1>8, <1>9, <1>10, <1>11, <1>12, <1>13, <1>14,
     <1>15, <1>16 DEF ReadStep

----------------------------------------------------------------------------
\* WebpDecoder: what is there at each point between open and close.
Phases ==
  /\ dec \in {"detect", "load"} <=> stage # "idle"
  /\ dec = "detect" => ~mine
  /\ dec = "load" => mine /\ data /\ ~file /\ ~anim
  /\ dec \in {"none", "detect", "create"} => ~data /\ ~file /\ ~anim
  /\ dec = "anim" => data /\ file /\ ~anim
  /\ dec \in {"info", "open", "aborted"} => data /\ file /\ anim
  /\ dec = "close" => data /\ (anim => file)
  /\ dec = "free" => data /\ ~anim
  /\ dec = "drop" => data /\ ~file /\ ~anim

\* The time a frame starts at is known unless a seek or an overflow was before.
Times ==
  LET n == Len(run)
  IN dec = "open" =>
       /\ run = <<>> /\ ~rewound => lastPts = 0
       /\ run # <<>> => run[n] <= next /\ (Stamps[run[n]] <= IntMax => lastPts = Stamps[run[n]])

\* The inductive invariant.
Inv == ReadInv /\ TypeOK /\ Phases /\ Times /\ Timeline

\* Calls of read_url begin and their results are taken.
LEMMA Calling ==
  ASSUME ReadInv, NEW own \in BOOLEAN, NEW n \in Nat, Call(own, n)
  PROVE  ReadInv' /\ mine' = own /\ stage' # "idle"
<1>1. ReadTypeOK'
  BY DEF ReadInv, Call, ReadTypeOK
<1> QED
  BY <1>1 DEF ReadInv, Call, Stages, Before, BytesInOrder

LEMMA Taking ==
  ASSUME ReadInv, GoIdle
  PROVE  ReadInv' /\ stage' = "idle"
<1>1. ReadTypeOK'
  <2>1. /\ buffer' \in Seq(0..MaxSize) /\ target' \in Seq(1..MaxSize)
        /\ pages' \in Seq(Seq(1..MaxSize))
    BY DEF GoIdle
  <2>2. size' \in 0..MaxSize /\ pos' \in 0..size' /\ limit' \in Nat /\ bufsize' \in Nat
    BY ReadAssumption DEF GoIdle
  <2>3. mine' \in BOOLEAN /\ api' \in {"ffmpeg", "stdio"}
    BY Zenon DEF GoIdle, ReadInv, ReadTypeOK
  <2>4. stage' = "idle" /\ held' = {} /\ result' = "none"
    BY DEF GoIdle
  <2> QED
    BY <2>1, <2>2, <2>3, <2>4 DEF ReadTypeOK
<1> QED
  BY <1>1 DEF GoIdle, Stages, Before, BytesInOrder, ReadInv

\* Time goes on in the range of an int.
LEMMA InTime == \A t \in Nat : \A pts \in ToNs(t) : pts \in Int /\ (t <= IntMax => pts = t)
BY AsIntBelow DEF ToNs

\* Frames of the caller, and what is made of them, are such.
FrameTypes == [fits : BOOLEAN, buffer : BOOLEAN, packed : BOOLEAN]

LEMMA FrameType ==
  /\ Frames \subseteq FrameTypes /\ NewFrame \in FrameTypes
  /\ \A f \in FrameTypes : [f EXCEPT !.buffer = FALSE] \in FrameTypes
<1>1. [fits : {FALSE}, buffer : BOOLEAN, packed : {TRUE}] \subseteq FrameTypes
  BY DEF FrameTypes
<1>2. [fits : {TRUE}, buffer : {TRUE}, packed : {FALSE}] \subseteq FrameTypes
  BY DEF FrameTypes
<1>3. NewFrame \in FrameTypes
  BY DEF FrameTypes, NewFrame
<1>4. \A f \in FrameTypes : [f EXCEPT !.buffer = FALSE] \in FrameTypes
  BY DEF FrameTypes
<1> QED
  BY <1>1, <1>2, <1>3, <1>4, Zenon DEF Frames

THEOREM Initially == Init => Inv
<1> SUFFICES ASSUME Init PROVE Inv
  OBVIOUS
<1>1. ReadTypeOK
  <2>1. /\ buffer \in Seq(0..MaxSize) /\ target \in Seq(1..MaxSize)
        /\ pages \in Seq(Seq(1..MaxSize))
    BY DEF Init, ReadInit
  <2>2. size \in 0..MaxSize /\ pos \in 0..size /\ limit \in Nat /\ bufsize \in Nat
    BY ReadAssumption DEF Init, ReadInit
  <2>3. mine \in BOOLEAN /\ api \in {"ffmpeg", "stdio"}
    BY Zenon DEF Init, ReadInit
  <2>4. stage = "idle" /\ held = {} /\ result = "none"
    BY DEF Init, ReadInit
  <2> QED
    BY <2>1, <2>2, <2>3, <2>4 DEF ReadTypeOK
<1>2. ReadInv
  BY <1>1 DEF Init, ReadInit, ReadInv, Stages, Before, BytesInOrder
<1>3. frame \in [fits : BOOLEAN, buffer : BOOLEAN, packed : BOOLEAN]
  BY FrameType DEF Init, FrameTypes
<1>4. run = <<>> /\ Len(run) = 0 /\ given = [pts |-> 0, duration |-> 0]
  BY DEF Init, NoTime
<1>5. TypeOK
  <2>1. data \in BOOLEAN /\ file \in BOOLEAN /\ anim \in BOOLEAN /\ rewound \in BOOLEAN
    BY Zenon DEF Init
  <2>2. next \in 0..Len(Stamps) /\ lastPts \in Int
    BY WebpAssumption DEF Init
  <2>3. given \in [pts : Int, duration : Int] /\ run \in Seq(1..Len(Stamps))
    BY <1>4
  <2> QED
    BY <1>1, <1>3, <2>1, <2>2, <2>3 DEF Init, TypeOK
<1>6. Phases /\ Times
  BY <1>4 DEF Init, ReadInit, Phases, Times
<1>7. Timeline
  BY <1>4 DEF Timeline
<1> QED
  BY <1>2, <1>5, <1>6, <1>7 DEF Inv

\* The time line is about what the last frame was given.
LEMMA SameTimes ==
  ASSUME Inv, UNCHANGED <<given, run, rewound>>, dec' # "open"
  PROVE  Times' /\ Timeline'
BY DEF Inv, Times, Timeline

\* Every step keeps the invariant.
THEOREM Inductive == Inv /\ [Next]_vars => Inv'
<1> SUFFICES ASSUME Inv, [Next]_vars PROVE Inv'
  OBVIOUS
<1> USE ReadAssumption, WebpAssumption
<1>0. ReadInv /\ TypeOK /\ Phases /\ Times /\ Timeline /\ (ReadInv' => ReadTypeOK')
  BY DEF Inv, ReadInv
<1>1. CASE ReadStep /\ UNCHANGED <<dec, innerVars, frameVars>>
  <2>1. ReadInv' /\ UNCHANGED <<dec, data, file, anim, next, lastPts, frame, given, run, rewound>>
    BY <1>0, <1>1, Reading DEF innerVars, frameVars
  <2>2. stage # "idle" /\ stage' # "idle" /\ mine' = mine
    BY <1>1 DEF ReadStep, OpenFails, OpenFile, GetSize, GetSizeUnknown, GetSizeFails, Alloc,
       AllocFails, ReadSome, ReadNothing, ReadFails, ReadEnds, ReadWhole, PageRead, PagesEnd, Join,
       JoinFails, CopyPage, CopyEnds, Return, readVars
  <2>3. TypeOK'
    BY <1>0, <2>1 DEF TypeOK
  <2>4. Phases' /\ dec # "open"
    BY <1>0, <2>1, <2>2 DEF Phases
  <2> QED
    BY <2>1, <2>3, <2>4, SameTimes DEF Inv
<1>2. CASE OpenAuto \/ CreateBuffer
  <2>1. PICK own \in BOOLEAN, n \in Nat : Call(own, n)
    BY <1>2 DEF OpenAuto, CreateBuffer
  <2>2. ReadInv' /\ mine' = own /\ stage' # "idle"
    BY <1>0, <2>1, Calling
  <2>3. UNCHANGED <<file, anim, next, lastPts, frame, given, run, rewound>> /\ data' \in BOOLEAN
    BY <1>0, <1>2 DEF OpenAuto, CreateBuffer, innerVars, frameVars, TypeOK
  <2>4. TypeOK'
    BY <1>0, <1>2, <2>2, <2>3 DEF OpenAuto, CreateBuffer, Goto, TypeOK
  <2>5. Phases' /\ dec' # "open"
    BY <1>0, <1>2, <2>2, <2>3 DEF OpenAuto, CreateBuffer, Goto, Call, Phases, innerVars
  <2> QED
    BY <2>2, <2>3, <2>4, <2>5, SameTimes DEF Inv
<1>3. CASE OpenWebp \/ CreateFails
  <2>1. /\ UNCHANGED <<readVars, data, file, anim, next, lastPts, frame, given, run, rewound>>
        /\ dec \in {"none", "create"} /\ dec' \in {"none", "create"}
    BY <1>3 DEF OpenWebp, CreateFails, Goto, innerVars, frameVars
  <2>2. ReadInv' /\ stage' = stage /\ mine' = mine
    BY <1>0, <2>1, Idling DEF readVars
  <2>3. TypeOK' /\ Phases'
    BY <1>0, <2>1, <2>2 DEF TypeOK, Phases
  <2> QED
    BY <2>1, <2>2, <2>3, SameTimes DEF Inv
<1>4. CASE Detected \/ LoadFails
  <2>1. /\ UNCHANGED <<data, file, anim, next, lastPts, frame, given, run, rewound>> /\ GoIdle
        /\ \/ dec = "detect" /\ dec' \in {"create", "none"}
           \/ dec = "load" /\ dec' = "close"
    BY <1>4 DEF Detected, LoadFails, Goto, innerVars, frameVars
  <2>2. ReadInv' /\ stage' = "idle"
    BY <1>0, <2>1, Taking
  <2>3. TypeOK' /\ Phases'
    BY <1>0, <2>1, <2>2 DEF TypeOK, Phases
  <2> QED
    BY <2>1, <2>2, <2>3, SameTimes DEF Inv
<1>5. CASE Loaded
  <2>1. /\ UNCHANGED <<data, anim, next, lastPts, frame, given, run, rewound>> /\ GoIdle
        /\ dec = "load" /\ dec' = "anim" /\ file' = TRUE
    BY <1>5 DEF Loaded, Goto, frameVars
  <2>2. ReadInv' /\ stage' = "idle"
    BY <1>0, <2>1, Taking
  <2>3. file' \in BOOLEAN
    BY <2>1, Zenon
  <2>4. TypeOK' /\ dec' # "open"
    BY <1>0, <2>1, <2>2, <2>3 DEF TypeOK
  <2>5. Phases'
    BY <1>0, <2>1, <2>2 DEF Phases
  <2> QED
    BY <2>1, <2>2, <2>4, <2>5, SameTimes DEF Inv
<1>6. CASE OpenAnim
  <2>1. /\ UNCHANGED <<readVars, data, file, anim, next, frame>> /\ dec = "info" /\ dec' = "open"
        /\ lastPts' = 0
        /\ given' = [pts |-> 0, duration |-> 0] /\ run' = <<>> /\ rewound' = FALSE
    BY <1>6 DEF OpenAnim, Goto, NoTime
  <2>2. ReadInv' /\ stage' = stage /\ mine' = mine
    BY <1>0, <2>1, Idling DEF readVars
  <2>3. rewound' \in BOOLEAN
    BY <2>1, Zenon
  <2>4. Times' /\ Timeline'
    BY <2>1 DEF Times, Timeline
  <2>5. given' \in [pts : Int, duration : Int] /\ run' \in Seq(1..Len(Stamps))
    BY <2>1
  <2>6. TypeOK'
    BY <1>0, <2>1, <2>2, <2>3, <2>5 DEF TypeOK
  <2>7. Phases'
    BY <1>0, <2>1, <2>2 DEF Phases
  <2> QED
    BY <2>2, <2>4, <2>6, <2>7 DEF Inv
<1>7. CASE NewAnimFails \/ Close \/ GetFreedFrame \/ ReadPastCanvas
  <2>1. /\ UNCHANGED <<readVars, data, file, anim, next, lastPts, frame, given, run, rewound>>
        /\ \/ dec \in {"anim", "open"} /\ dec' = "close"
           \/ dec = "open" /\ dec' = "aborted"
    BY <1>7 DEF NewAnimFails, Close, GetFreedFrame, ReadPastCanvas, HasMore, Goto, innerVars, frameVars
  <2>2. ReadInv' /\ stage' = stage /\ mine' = mine
    BY <1>0, <2>1, Idling DEF readVars
  <2>3. TypeOK' /\ Phases'
    BY <1>0, <2>1, <2>2 DEF TypeOK, Phases
  <2> QED
    BY <2>1, <2>2, <2>3, SameTimes DEF Inv
<1>16. CASE NewAnim
  <2>1. /\ UNCHANGED <<readVars, data, file, lastPts, frame, given, run, rewound>>
        /\ dec = "anim" /\ dec' = "info" /\ anim' = TRUE /\ next' = 0
    BY <1>16 DEF NewAnim, Goto, frameVars
  <2>2. ReadInv' /\ stage' = stage /\ mine' = mine
    BY <1>0, <2>1, Idling DEF readVars
  <2>3. anim' \in BOOLEAN
    BY <2>1, Zenon
  <2>4. TypeOK' /\ dec' # "open"
    BY <1>0, <2>1, <2>2, <2>3 DEF TypeOK
  <2>5. Phases'
    BY <1>0, <2>1, <2>2 DEF Phases
  <2> QED
    BY <2>1, <2>2, <2>4, <2>5, SameTimes DEF Inv
<1>8. CASE CloseAnim \/ GetInfoFails
  <2>1. /\ UNCHANGED <<readVars, data, file, frame, given, run, rewound>>
        /\ \/ dec = "close" /\ dec' = "free"
           \/ dec = "info" /\ dec' = "close"
        /\ anim' = FALSE /\ next' = 0 /\ lastPts' = 0
    BY <1>8 DEF CloseAnim, GetInfoFails, Goto, frameVars
  <2>2. ReadInv' /\ stage' = stage /\ mine' = mine
    BY <1>0, <2>1, Idling DEF readVars
  <2>3. anim' \in BOOLEAN
    BY <2>1, Zenon
  <2>4. TypeOK' /\ dec' # "open"
    BY <1>0, <2>1, <2>2, <2>3 DEF TypeOK
  <2>5. Phases'
    BY <1>0, <2>1, <2>2 DEF Phases
  <2> QED
    BY <2>1, <2>2, <2>4, <2>5, SameTimes DEF Inv
<1>9. CASE FreeFile
  <2>1. /\ UNCHANGED <<readVars, data, anim, next, lastPts, frame, given, run, rewound>>
        /\ dec = "free" /\ dec' = "drop" /\ file' = FALSE
    BY <1>9 DEF FreeFile, Goto, frameVars
  <2>2. ReadInv' /\ stage' = stage /\ mine' = mine
    BY <1>0, <2>1, Idling DEF readVars
  <2>3. file' \in BOOLEAN
    BY <2>1, Zenon
  <2>4. TypeOK' /\ dec' # "open"
    BY <1>0, <2>1, <2>2, <2>3 DEF TypeOK
  <2>5. Phases'
    BY <1>0, <2>1, <2>2 DEF Phases
  <2> QED
    BY <2>1, <2>2, <2>4, <2>5, SameTimes DEF Inv
<1>10. CASE DropBuffer
  <2>1. /\ UNCHANGED <<readVars, file, anim, next, lastPts, frame>>
        /\ dec = "drop" /\ dec' = "none" /\ data' = FALSE
        /\ given' = [pts |-> 0, duration |-> 0] /\ run' = <<>> /\ rewound' = FALSE
    BY <1>10 DEF DropBuffer, Goto, NoTime
  <2>2. ReadInv' /\ stage' = stage /\ mine' = mine
    BY <1>0, <2>1, Idling DEF readVars
  <2>3. data' \in BOOLEAN /\ rewound' \in BOOLEAN
    BY <2>1, Zenon
  <2>4. Times' /\ Timeline'
    BY <2>1 DEF Times, Timeline
  <2>5. given' \in [pts : Int, duration : Int] /\ run' \in Seq(1..Len(Stamps))
    BY <2>1
  <2>6. TypeOK'
    BY <1>0, <2>1, <2>2, <2>3, <2>5 DEF TypeOK
  <2>7. Phases'
    BY <1>0, <2>1, <2>2 DEF Phases
  <2> QED
    BY <2>2, <2>4, <2>6, <2>7 DEF Inv
<1>11. CASE SkipFrame
  <2>1. /\ UNCHANGED <<readVars, dec, data, file, anim, lastPts, frame, given, run, rewound>>
        /\ dec = "open" /\ next < Len(Stamps) /\ next' = next + 1
    BY <1>11 DEF SkipFrame, HasMore, frameVars
  <2>2. ReadInv' /\ stage' = stage /\ mine' = mine
    BY <1>0, <2>1, Idling DEF readVars
  <2>3. TypeOK' /\ Phases'
    BY <1>0, <2>1, <2>2 DEF TypeOK, Phases
  <2>4. Times'
    <3>1. run # <<>> => run[Len(run)] \in Int
      BY <1>0 DEF TypeOK
    <3> QED
      BY <1>0, <2>1, <3>1 DEF Times, TypeOK
  <2>5. Timeline'
    BY <1>0, <2>1 DEF Timeline
  <2> QED
    BY <2>2, <2>3, <2>4, <2>5 DEF Inv
<1>12. CASE GetFrame
  <2>1. /\ UNCHANGED <<readVars, dec, data, file, anim, rewound>>
        /\ dec = "open" /\ next < Len(Stamps) /\ next' = next + 1
        /\ frame' \in {frame, NewFrame} /\ run' = Append(run, next + 1)
    BY <1>12 DEF GetFrame, HasMore
  <2>2. PICK pts \in ToNs(Stamps[next + 1]) :
          given' = [pts |-> lastPts, duration |-> pts - lastPts] /\ lastPts' = pts
    BY <1>12 DEF GetFrame
  <2>3. /\ next + 1 \in 1..Len(Stamps) /\ Stamps[next + 1] \in Nat /\ lastPts \in Int
        /\ run \in Seq(1..Len(Stamps))
    BY <1>0, <2>1 DEF TypeOK
  <2>4. pts \in Int /\ (Stamps[next + 1] <= IntMax => pts = Stamps[next + 1])
    BY <2>2, <2>3, InTime
  <2>5. ReadInv' /\ stage' = stage /\ mine' = mine
    BY <1>0, <2>1, Idling DEF readVars
  <2>6. /\ run' \in Seq(1..Len(Stamps)) /\ Len(run') = Len(run) + 1 /\ Len(run) \in Nat
        /\ run'[Len(run')] = next + 1 /\ run' # <<>>
        /\ Len(run) > 0 => run'[Len(run') - 1] = run[Len(run)]
    <3>1. /\ run' \in Seq(1..Len(Stamps)) /\ Len(run') = Len(run) + 1 /\ Len(run) \in Nat
          /\ \A j \in 1..Len(run) : run'[j] = run[j]
          /\ run'[Len(run) + 1] = next + 1
      BY <2>1, <2>3, Sequencing
    <3>2. run' # <<>>
      <4>1. Len(run') # 0
        BY <3>1
      <4> QED
        BY <3>1, <4>1, Sequencing
    <3> QED
      BY SMTT(30), <3>1, <3>2
  <2>7. TypeOK'
    <3>1. given' \in [pts : Int, duration : Int]
      BY <2>2, <2>3, <2>4
    <3>2. frame' \in [fits : BOOLEAN, buffer : BOOLEAN, packed : BOOLEAN]
      BY <1>0, <2>1, FrameType DEF TypeOK, FrameTypes
    <3> QED
      BY <1>0, <2>1, <2>2, <2>3, <2>4, <2>5, <2>6, <3>1, <3>2 DEF TypeOK
  <2>8. Phases'
    BY <1>0, <2>1, <2>5 DEF Phases
  <2>9. Times'
    <3>1. run'[Len(run')] <= next'
      BY <1>0, <2>1, <2>6 DEF TypeOK
    <3>2. Stamps[run'[Len(run')]] <= IntMax => lastPts' = Stamps[run'[Len(run')]]
      BY <2>2, <2>4, <2>6
    <3> QED
      BY <2>6, <3>1, <3>2 DEF Times
  <2>10. Timeline'
    <3> SUFFICES ASSUME Len(run') > 1 \/ (Len(run') = 1 /\ ~rewound), Stamps[next + 1] <= IntMax
                 PROVE  /\ lastPts = IF Len(run') > 1 THEN Stamps[run'[Len(run') - 1]] ELSE 0
                        /\ lastPts' = Stamps[next + 1]
      BY <2>1, <2>2, <2>6 DEF Timeline
    <3>1. lastPts' = Stamps[next + 1]
      BY <2>2, <2>4
    <3>2. CASE Len(run') > 1
      <4>1. Len(run) > 0 /\ run # <<>> /\ run[Len(run)] \in 1..Len(Stamps)
        BY SMTT(30), <2>3, <2>6, <3>2
      <4>2. run[Len(run)] <= next
        BY <1>0, <2>1, <4>1 DEF Times
      <4>3. Stamps[run[Len(run)]] < Stamps[next + 1] /\ Stamps[run[Len(run)]] \in Nat
        BY SMTT(30), <1>0, <2>3, <4>1, <4>2 DEF TypeOK
      <4>4. Stamps[run[Len(run)]] <= IntMax
        BY <2>3, <4>3
      <4> QED
        BY <1>0, <2>1, <2>6, <3>1, <3>2, <4>1, <4>4 DEF Times
    <3>3. CASE Len(run') <= 1
      <4>1. Len(run) = 0 /\ run = <<>> /\ ~rewound
        BY <2>3, <2>6, <3>3, Sequencing
      <4> QED
        BY <1>0, <2>1, <2>6, <3>1, <3>3, <4>1 DEF Times
    <3> QED
      BY <2>6, <3>2, <3>3
  <2> QED
    BY <2>5, <2>7, <2>8, <2>9, <2>10 DEF Inv
<1>13. CASE AllocFrameFails \/ DecodeFails \/ FreeFrame \/ OtherFrame
  <2>1. UNCHANGED <<readVars, dec, data, file, anim, next, lastPts, given, run, rewound>>
    BY <1>13 DEF AllocFrameFails, DecodeFails, FreeFrame, OtherFrame, innerVars
  <2>2. frame' \in FrameTypes
    <3>1. frame \in FrameTypes
      BY <1>0 DEF TypeOK, FrameTypes
    <3>2. CASE AllocFrameFails \/ FreeFrame
      BY <3>1, <3>2, FrameType DEF AllocFrameFails, FreeFrame
    <3>3. CASE DecodeFails
      BY <3>3, FrameType DEF DecodeFails
    <3>4. CASE OtherFrame
      BY <3>4, FrameType DEF OtherFrame
    <3> QED
      BY <1>13, <3>2, <3>3, <3>4
  <2>3. ReadInv' /\ stage' = stage /\ mine' = mine
    BY <1>0, <2>1, Idling DEF readVars
  <2>4. TypeOK' /\ Phases'
    BY <1>0, <2>1, <2>2, <2>3 DEF TypeOK, Phases, FrameTypes
  <2>5. Times' /\ Timeline'
    BY <1>0, <2>1 DEF Times, Timeline
  <2> QED
    BY <2>3, <2>4, <2>5 DEF Inv
<1>14. CASE Seek
  <2>1. /\ UNCHANGED <<readVars, dec, data, file, anim, lastPts, frame, given>>
        /\ dec = "open" /\ next' = 0 /\ run' = <<>> /\ rewound' = TRUE
    BY <1>14 DEF Seek
  <2>2. ReadInv' /\ stage' = stage /\ mine' = mine
    BY <1>0, <2>1, Idling DEF readVars
  <2>3. rewound' \in BOOLEAN
    BY <2>1, Zenon
  <2>4. Times' /\ Timeline'
    BY <2>1 DEF Times, Timeline
  <2>5. run' \in Seq(1..Len(Stamps))
    BY <2>1
  <2>6. TypeOK'
    BY <1>0, <2>1, <2>2, <2>3, <2>5 DEF TypeOK
  <2>7. Phases'
    BY <1>0, <2>1, <2>2 DEF Phases
  <2> QED
    BY <2>2, <2>4, <2>6, <2>7 DEF Inv
<1>15. CASE UNCHANGED vars
  <2>1. UNCHANGED <<readVars, dec, data, file, anim, next, lastPts, frame, given, run, rewound>>
    BY <1>15 DEF vars, innerVars, frameVars
  <2>2. ReadInv' /\ stage' = stage /\ mine' = mine
    BY <1>0, <2>1, Idling DEF readVars
  <2>3. TypeOK' /\ Phases'
    BY <1>0, <2>1, <2>2 DEF TypeOK, Phases
  <2>4. Times' /\ Timeline'
    BY <1>0, <2>1 DEF Times, Timeline
  <2> QED
    BY <2>2, <2>3, <2>4 DEF Inv
<1> QED
  BY <1>1, <1>2, <1>3, <1>4, <1>5, <1>6, <1>7, <1>8, <1>9, <1>10, <1>11, <1>12, <1>13, <1>14, <1>15,
     <1>16
     DEF Next, Inside, Aborted

THEOREM Invariance == Spec => []Inv
BY Initially, Inductive, PTL DEF Spec

----------------------------------------------------------------------------
\* Every reachable state is well typed.
THEOREM Typing == Spec => []TypeOK
<1>1. Inv => TypeOK
  BY DEF Inv
<1> QED
  BY <1>1, Invariance, PTL

\* What a call of read_url returns is the file from its start, each byte once
\* and in order, up to the limit, for every size, limit and size of a page.
THEOREM FileReadRight == Spec => []BytesInOrder
<1>1. Inv => BytesInOrder
  BY DEF Inv, ReadInv
<1> QED
  BY <1>1, Invariance, PTL

\* Nothing is left open or allocated by any way through open and close, and
\* the bytes of the file are there as long as the animation.
THEOREM NoLeak == Spec => []NothingKept
<1>1. Inv => NothingKept
  BY DEF Inv, ReadInv, Stages, Phases, NothingKept, TypeOK
<1> QED
  BY <1>1, Invariance, PTL

\* Frames follow each other in time, for every animation.
THEOREM TimesFit == Spec => []Timeline
<1>1. Inv => Timeline
  BY DEF Inv
<1> QED
  BY <1>1, Invariance, PTL
=============================================================================
