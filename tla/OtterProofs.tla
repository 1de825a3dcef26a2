------------------------------ MODULE OtterProofs ------------------------------
(***************************************************************************)
(* For all args of a PDA that are well formed: the command built from them *)
(* says to solana-verify what they say, if and only if no option but the   *)
(* sbf one is written --option=value.  Both sides are compared with what   *)
(* NewBuild keeps of the args: the command piece by piece, from its end    *)
(* (CommandReads), and the args option by option, from their end (ArgsSay, *)
(* BuildSays, BuildLoses).                                                 *)
(***************************************************************************)
EXTENDS OtterParams, SequenceTheorems, WellFoundedInduction, TLAPS

LEMMA LeastOf == ASSUME NEW s \in SUBSET Nat, s # {}
                 PROVE  \E m \in s : \A n \in s : m <= n
<1> DEFINE R == OpToRel(<, Nat)
<1>1. IsWellFoundedOn(R, Nat)
  BY NatLessThanWellFounded
<1>2. \A m, n \in Nat : <<n, m>> \in R <=> n < m
  BY DEF OpToRel
<1> HIDE DEF R
<1>3. PICK m \in s : \A n \in s : ~ (<<n, m>> \in R)
  BY <1>1, WFMin
<1>4. ASSUME NEW n \in s
      PROVE  m <= n
  <2>1. m \in Nat /\ n \in Nat
    OBVIOUS
  <2>2. ~ (n < m)
    BY <1>2, <1>3, <2>1
  <2> QED
    BY <2>1, <2>2, SMT
<1> QED
  BY <1>4

LEMMA GreatestOf == ASSUME NEW k \in Nat, NEW s \in SUBSET (0..k), s # {}
                    PROVE  \E m \in s : \A n \in s : n <= m
<1> DEFINE d == {k - n : n \in s}
<1>1. d \in SUBSET Nat /\ d # {}
  <2>1. \A n \in s : n \in 0..k /\ k - n \in Nat
    BY SMT
  <2>2. d \in SUBSET Nat
    BY <2>1
  <2>3. PICK n \in s : TRUE
    OBVIOUS
  <2>4. k - n \in d
    BY <2>3
  <2> QED
    BY <2>2, <2>4
<1> HIDE DEF d
<1>2. PICK e \in d : \A f \in d : e <= f
  BY <1>1, LeastOf
<1> USE DEF d
<1>3. PICK m \in s : e = k - m
  OBVIOUS
<1>4. ASSUME NEW n \in s PROVE n <= m
  <2>1. n \in 0..k /\ m \in 0..k /\ k - n \in d
    OBVIOUS
  <2>2. e <= k - n
    BY <1>2, <2>1
  <2> HIDE DEF d
  <2> QED
    BY <1>3, <2>1, <2>2, SMT
<1> QED
  BY <1>4

-----------------------------------------------------------------------------
(* The recursive function Readings is well defined.                        *)

Reading(cmd, f, i) ==
    IF i > Len(cmd) THEN NoOptions ELSE read_arg(cmd, i, f[i + 1], f[i + 2])

\* f reads cmd from k on.
Reads(cmd, f, k) == f = [i \in k..(Len(cmd) + 2) |-> Reading(cmd, f, i)]

LEMMA ReadsEarlier ==
    ASSUME NEW cmd \in Seq(Arg), NEW k \in 1..(Len(cmd) + 1), NEW f,
           Reads(cmd, f, k + 1)
    PROVE  \E g : Reads(cmd, g, k)
<1> DEFINE n == Len(cmd)
           g == [i \in k..(n + 2) |-> IF i = k THEN Reading(cmd, f, k) ELSE f[i]]
<1>1. n \in Nat
  OBVIOUS
<1>2. ASSUME NEW i \in k..(n + 2)
      PROVE  g[i] = Reading(cmd, g, i)
  <2>1. i <= n => g[i + 1] = f[i + 1] /\ g[i + 2] = f[i + 2]
    BY <1>1
  <2>2. Reading(cmd, g, i) = Reading(cmd, f, i)
    BY <2>1, <1>1 DEF Reading
  <2>3. i # k => f[i] = Reading(cmd, f, i)
    <3>1. ASSUME i # k PROVE i \in (k + 1)..(n + 2)
      BY <1>1, <3>1
    <3> HIDE DEF n, g
    <3> QED
      BY <3>1 DEF Reads, n
  <2> QED
    BY <2>2, <2>3
<1>3. g = [i \in k..(n + 2) |-> Reading(cmd, g, i)]
  <2> DEFINE h == [i \in k..(n + 2) |-> Reading(cmd, g, i)]
  <2>1. \A i \in k..(n + 2) : g[i] = h[i]
    BY <1>2
  <2> QED
    BY <2>1
<1> QED
  BY <1>3 DEF Reads

LEMMA ReadingsDefined ==
    ASSUME NEW cmd \in Seq(Arg) PROVE Reads(cmd, Readings(cmd), 1)
<1> DEFINE n == Len(cmd)
           s == {k \in 1..(n + 2) : \E f : Reads(cmd, f, k)}
<1>1. n \in Nat
  OBVIOUS
<1>2. n + 2 \in s
  <2> DEFINE f == [i \in (n + 2)..(n + 2) |-> NoOptions]
  <2>1. ASSUME NEW i \in (n + 2)..(n + 2) PROVE Reading(cmd, f, i) = NoOptions
    BY <1>1 DEF Reading
  <2>2. f = [i \in (n + 2)..(n + 2) |-> Reading(cmd, f, i)]
    BY <2>1
  <2>3. \E g : Reads(cmd, g, n + 2)
    BY <2>2 DEF Reads
  <2> QED
    BY <1>1, <2>3
<1>3. s \in SUBSET Nat
  OBVIOUS
<1> HIDE DEF s
<1>4. PICK k \in s : \A j \in s : k <= j
  BY <1>2, <1>3, LeastOf
<1>5. k \in 1..(n + 2) /\ \E f : Reads(cmd, f, k)
  BY <1>4 DEF s
<1>6. k = 1
  <2> SUFFICES ASSUME k # 1 PROVE FALSE
    OBVIOUS
  <2>1. k - 1 \in 1..(n + 1) /\ (k - 1) + 1 = k
    BY <1>1, <1>5
  <2>2. \E g : Reads(cmd, g, k - 1)
    BY <1>5, <2>1, ReadsEarlier
  <2>3. k - 1 \in s
    BY <1>1, <2>1, <2>2 DEF s
  <2> QED
    BY <1>4, <2>1, <2>3
<1>7. PICK f : Reads(cmd, f, 1)
  BY <1>5, <1>6
<1>8. Readings(cmd) = CHOOSE g : g = [i \in 1..(Len(cmd) + 2) |->
                          IF i > Len(cmd) THEN NoOptions
                          ELSE read_arg(cmd, i, g[i + 1], g[i + 2])]
  BY DEF Readings
<1>9. f = [i \in 1..(Len(cmd) + 2) |-> IF i > Len(cmd) THEN NoOptions
                                       ELSE read_arg(cmd, i, f[i + 1], f[i + 2])]
  BY <1>7 DEF Reads, Reading
<1>10. Readings(cmd) = [i \in 1..(Len(cmd) + 2) |->
                          IF i > Len(cmd) THEN NoOptions
                          ELSE read_arg(cmd, i, Readings(cmd)[i + 1],
                                        Readings(cmd)[i + 2])]
  BY <1>8, <1>9
<1> QED
  BY <1>10 DEF Reads, Reading

\* What Readings says at one place.
LEMMA ReadingAt ==
    ASSUME NEW cmd \in Seq(Arg), NEW i \in 1..(Len(cmd) + 2)
    PROVE  /\ i > Len(cmd) => Readings(cmd)[i] = NoOptions
           /\ i <= Len(cmd) => Readings(cmd)[i] =
                read_arg(cmd, i, Readings(cmd)[i + 1], Readings(cmd)[i + 2])
<1>1. Readings(cmd)[i] = Reading(cmd, Readings(cmd), i)
  <2>1. Reads(cmd, Readings(cmd), 1)
    BY ReadingsDefined
  <2> QED
    BY <2>1 DEF Reads
<1> QED
  BY <1>1 DEF Reading

-----------------------------------------------------------------------------
(* What a command says does not depend on what stands before it.           *)

LEMMA ReadArgShift ==
    ASSUME NEW head \in Seq(Arg), NEW rest \in Seq(Arg),
           NEW i \in 1..Len(rest), NEW next, NEW after
    PROVE  read_arg(head \o rest, Len(head) + i, next, after)
              = read_arg(rest, i, next, after)
<1> DEFINE h == Len(head)
           n == Len(rest)
           cmd == head \o rest
<1>1. /\ h \in Nat /\ n \in Nat /\ Len(cmd) = h + n
      /\ \A j \in 1..(h + n) : cmd[j] = IF j <= h THEN head[j] ELSE rest[j - h]
  BY ConcatProperties
<1>2. cmd[h + i] = rest[i]
  BY <1>1
<1>3. i < n => h + i < Len(cmd) /\ cmd[h + i + 1] = rest[i + 1]
  BY <1>1
<1>4. ~(i < n) => ~(h + i < Len(cmd))
  BY <1>1
<1>5. SubSeq(cmd, h + i + 1, Len(cmd)) = SubSeq(rest, i + 1, n)
  <2>1. CASE i = n
    <3>1. SubSeq(cmd, h + i + 1, h + n) = <<>>
      BY <1>1, <2>1, SubSeqEmpty
    <3>2. SubSeq(rest, i + 1, n) = <<>>
      BY <1>1, <2>1, SubSeqEmpty
    <3> QED
      BY <3>1, <3>2, <1>1
  <2>2. CASE i < n
    <3>1. /\ h + i + 1 \in (h + 1)..(h + n) /\ h + n \in (h + 1)..(h + n)
          /\ (h + i + 1) - h = i + 1 /\ (h + n) - h = n
      BY <1>1, <2>2
    <3> QED
      BY <1>1, <3>1, SubSeqOfConcat2
  <2> QED
    BY <2>1, <2>2, <1>1
<1> HIDE DEF cmd, h, n
<1>6. read_arg(cmd, h + i, next, after) = read_arg(rest, i, next, after)
  BY <1>2, <1>3, <1>4, <1>5 DEF read_arg, n
<1> QED
  BY <1>6 DEF cmd, h

LEMMA ReadingsShift ==
    ASSUME NEW head \in Seq(Arg), NEW rest \in Seq(Arg),
           NEW i \in 1..(Len(rest) + 2)
    PROVE  Readings(head \o rest)[Len(head) + i] = Readings(rest)[i]
<1> DEFINE h == Len(head)
           n == Len(rest)
           cmd == head \o rest
           s == {j \in 1..(n + 2) : Readings(cmd)[h + j] # Readings(rest)[j]}
<1>1. h \in Nat /\ n \in Nat /\ cmd \in Seq(Arg) /\ Len(cmd) = h + n
  BY ConcatProperties
<1>2. s \in SUBSET (0..(n + 2)) /\ n + 2 \in Nat
  BY <1>1
<1>3. ASSUME s # {} PROVE FALSE
  <2> HIDE DEF s
  <2>1. PICK j \in s : \A k \in s : k <= j
    BY <1>2, <1>3, GreatestOf
  <2>2. j \in 1..(n + 2) /\ Readings(cmd)[h + j] # Readings(rest)[j]
    BY <2>1 DEF s
  <2>3. CASE j > n
    <3>1. h + j \in 1..(Len(cmd) + 2) /\ h + j > Len(cmd)
      BY <1>1, <2>2, <2>3
    <3>2. Readings(cmd)[h + j] = NoOptions
      BY <1>1, <3>1, ReadingAt
    <3>3. Readings(rest)[j] = NoOptions
      BY <1>1, <2>2, <2>3, ReadingAt
    <3> QED
      BY <2>2, <3>2, <3>3
  <2>4. CASE j <= n
    <3> DEFINE next == Readings(rest)[j + 1]
               after == Readings(rest)[j + 2]
    <3>1. /\ j + 1 \in 1..(n + 2) /\ j + 2 \in 1..(n + 2)
          /\ j + 1 \notin s /\ j + 2 \notin s
      BY <1>1, <2>1, <2>2, <2>4
    <3>2. Readings(cmd)[h + (j + 1)] = next /\ Readings(cmd)[h + (j + 2)] = after
      BY <3>1 DEF s
    <3>3. /\ h + j \in 1..(Len(cmd) + 2) /\ h + j <= Len(cmd)
          /\ (h + j) + 1 = h + (j + 1) /\ (h + j) + 2 = h + (j + 2)
          /\ j \in 1..Len(rest)
      BY <1>1, <2>2, <2>4
    <3>4. Readings(cmd)[h + j] = read_arg(cmd, h + j, next, after)
      BY <1>1, <3>2, <3>3, ReadingAt
    <3>5. Readings(rest)[j] = read_arg(rest, j, next, after)
      BY <1>1, <2>2, <2>4, ReadingAt
    <3>6. read_arg(cmd, h + j, next, after) = read_arg(rest, j, next, after)
      BY <3>3, ReadArgShift
    <3> QED
      BY <2>2, <3>4, <3>5, <3>6
  <2> QED
    BY <1>1, <2>2, <2>3, <2>4
<1> QED
  BY <1>3

\* The first option of a command that goes on with rest.
LEMMA ReadFirst ==
    ASSUME NEW rest \in Seq(Arg), NEW head \in Seq(Arg), Len(head) \in {1, 2}
    PROVE  /\ head \o rest \in Seq(Arg)
           /\ (head \o rest)[1] = head[1]
           /\ Len(head) = 1 =>
                 ClapParse(head \o rest) =
                    read_arg(head \o rest, 1, ClapParse(rest),
                             Readings(head \o rest)[3])
           /\ Len(head) = 2 =>
                 /\ (head \o rest)[2] = head[2] /\ 1 < Len(head \o rest)
                 /\ ClapParse(head \o rest) =
                       read_arg(head \o rest, 1, Readings(head \o rest)[2],
                                ClapParse(rest))
<1> DEFINE cmd == head \o rest
<1>1. /\ cmd \in Seq(Arg) /\ Len(cmd) = Len(head) + Len(rest)
      /\ cmd[1] = head[1] /\ (Len(head) = 2 => cmd[2] = head[2])
      /\ Len(rest) \in Nat
  BY ConcatProperties
<1>2. Readings(cmd)[Len(head) + 1] = Readings(rest)[1]
  BY <1>1, ReadingsShift
<1>3. Readings(cmd)[1] = read_arg(cmd, 1, Readings(cmd)[2], Readings(cmd)[3])
  <2>1. 1 \in 1..(Len(cmd) + 2) /\ 1 <= Len(cmd)
    BY <1>1
  <2> HIDE DEF cmd
  <2>2. Readings(cmd)[1] = read_arg(cmd, 1, Readings(cmd)[1 + 1], Readings(cmd)[1 + 2])
    BY <1>1, <2>1, ReadingAt
  <2>3. 1 + 1 = 2 /\ 1 + 2 = 3
    OBVIOUS
  <2> QED
    BY <2>2, <2>3
<1> HIDE DEF cmd
<1>4. ClapParse(cmd) = Readings(cmd)[1] /\ ClapParse(rest) = Readings(rest)[1]
  BY DEF ClapParse
<1>5. CASE Len(head) = 1
  <2>1. Len(head) + 1 = 2 /\ Len(head) # 2
    BY <1>5
  <2>2. ClapParse(cmd) = read_arg(cmd, 1, ClapParse(rest), Readings(cmd)[3])
    BY <1>2, <1>3, <1>4, <2>1
  <2> QED
    BY <1>1, <1>5, <2>1, <2>2 DEF cmd
<1>6. CASE Len(head) = 2
  <2>1. Len(head) + 1 = 3 /\ Len(head) # 1 /\ 1 < Len(cmd)
    BY <1>1, <1>6
  <2>2. ClapParse(cmd) = read_arg(cmd, 1, Readings(cmd)[2], ClapParse(rest))
    BY <1>2, <1>3, <1>4, <2>1
  <2> QED
    BY <1>1, <1>6, <2>1, <2>2 DEF cmd
<1> QED
  BY <1>5, <1>6

-----------------------------------------------------------------------------
(* The pieces of a command.                                                *)

Valued == {"--library-name", "--base-image", "--mount-path", "--arch"}
Keys7 == Valued \cup {SBF, "--bpf", "--"}
IsReading(r) == r = [w \in Keys7 |-> r[w]]

LEMMA WordParts == \A w : Word(w).word = w /\ Word(w).value = None /\ ~Word(w).quoted
BY DEF Word

LEMMA WordArg == \A w \in Keys7 : Word(w) \in Arg
<1>1. ASSUME NEW w \in Keys7 PROVE w \in OptionNames \cup {"--bpf", "--"}
  BY DEF Keys7, Valued, OptionNames
<1>2. ASSUME NEW w \in Keys7 PROVE Word(w) \in PlainArg
  BY <1>1 DEF Word, PlainArg
<1> QED
  BY <1>2 DEF Arg

LEMMA OneSeq == ASSUME NEW S, NEW a \in S
                PROVE <<a>> \in Seq(S) /\ Len(<<a>>) = 1 /\ <<a>>[1] = a
OBVIOUS

LEMMA TwoSeq == ASSUME NEW S, NEW a \in S, NEW b \in S
                PROVE  /\ <<a, b>> \in Seq(S) /\ Len(<<a, b>>) = 2
                       /\ <<a, b>>[1] = a /\ <<a, b>>[2] = b
OBVIOUS

LEMMA NoOptionsRead ==
    /\ IsReading(NoOptions)
    /\ \A w \in Valued \cup {SBF} : NoOptions[w] = None
    /\ NoOptions["--bpf"] = FALSE /\ NoOptions["--"] = <<>>
BY DEF NoOptions, IsReading, Keys7, Valued, SBF

LEMMA ReadFlag ==
    ASSUME NEW rest \in Seq(Arg), NEW f \in Valued, NEW v \in Arg \cup {None},
           IsReading(ClapParse(rest)), ClapParse(rest)[f] = None
    PROVE  /\ Flag(f, v) \in Seq(Arg)
           /\ ClapParse(Flag(f, v) \o rest) = [ClapParse(rest) EXCEPT ![f] = v]
<1>1. CASE v = None
  <2>1. Flag(f, v) = <<>> /\ <<>> \in Seq(Arg) /\ <<>> \o rest = rest
    BY <1>1, ConcatEmptySeq DEF Flag
  <2>2. [ClapParse(rest) EXCEPT ![f] = v] = ClapParse(rest)
    BY <1>1 DEF IsReading
  <2> QED
    BY <2>1, <2>2
<1>2. CASE v # None
  <2> DEFINE head == <<Word(f), v>>
             cmd == head \o rest
  <2>1. Word(f) \in Arg /\ v \in Arg /\ head \in Seq(Arg) /\ Len(head) = 2
        /\ head[1] = Word(f) /\ head[2] = v
    <3>1. Word(f) \in Arg /\ v \in Arg
      BY <1>2, WordArg DEF Keys7
    <3> QED
      BY <3>1, TwoSeq
  <2> HIDE DEF head
  <2>2. /\ cmd[1] = Word(f) /\ cmd[2] = v /\ 1 < Len(cmd)
        /\ ClapParse(cmd) = read_arg(cmd, 1, Readings(cmd)[2], ClapParse(rest))
    BY <2>1, ReadFirst
  <2>3. /\ Word(f) # Word("--") /\ Word(f) # Word("--bpf")
        /\ Word(f).value = None /\ Word(f).word = f /\ OptionOf[f] = f /\ f # SBF
    BY DEF Word, Valued, OptionOf, OptionNames, SBF
  <2>4. 1 + 1 = 2
    OBVIOUS
  <2> HIDE DEF cmd
  <2>5. read_arg(cmd, 1, Readings(cmd)[2], ClapParse(rest))
           = [ClapParse(rest) EXCEPT ![f] = v]
    BY <2>2, <2>3, <2>4 DEF read_arg
  <2>6. Flag(f, v) = head
    BY <1>2 DEF Flag, head
  <2> QED
    BY <2>1, <2>2, <2>5, <2>6 DEF cmd
<1> QED
  BY <1>1, <1>2

SbfPiece(v) == IF v = None THEN <<>> ELSE <<Assign(SBF, v)>>

LEMMA ReadSbf ==
    ASSUME NEW rest \in Seq(Arg), NEW v \in PlainArg \cup {None},
           v # None => ~v.quoted,
           IsReading(ClapParse(rest)), ClapParse(rest)[SBF] = None
    PROVE  /\ SbfPiece(v) \in Seq(Arg)
           /\ ClapParse(SbfPiece(v) \o rest) = [ClapParse(rest) EXCEPT ![SBF] = v]
<1>1. CASE v = None
  <2>1. SbfPiece(v) = <<>> /\ <<>> \in Seq(Arg) /\ <<>> \o rest = rest
    BY <1>1, ConcatEmptySeq DEF SbfPiece
  <2>2. [ClapParse(rest) EXCEPT ![SBF] = v] = ClapParse(rest)
    BY <1>1 DEF IsReading
  <2> QED
    BY <2>1, <2>2
<1>2. CASE v # None
  <2> DEFINE head == <<Assign(SBF, v)>>
             cmd == head \o rest
  <2>1. Assign(SBF, v) \in Arg /\ head \in Seq(Arg) /\ Len(head) = 1
        /\ head[1] = Assign(SBF, v)
    <3>1. Assign(SBF, v) \in Arg
      BY <1>2 DEF Assign, Arg, OptionNames
    <3> QED
      BY <3>1, OneSeq
  <2> HIDE DEF head
  <2>2. /\ cmd[1] = Assign(SBF, v)
        /\ ClapParse(cmd) = read_arg(cmd, 1, ClapParse(rest), Readings(cmd)[3])
    BY <2>1, ReadFirst
  <2>3. /\ Assign(SBF, v) # Word("--") /\ Assign(SBF, v) # Word("--bpf")
        /\ Assign(SBF, v).value = v /\ Assign(SBF, v).word = SBF
        /\ OptionOf[SBF] = SBF
    BY <1>2 DEF Word, Assign, OptionOf, OptionNames, SBF
  <2>4. strip_surrounding_quotes(v) = v
    BY <1>2 DEF strip_surrounding_quotes, PlainArg
  <2> HIDE DEF cmd
  <2>5. read_arg(cmd, 1, ClapParse(rest), Readings(cmd)[3])
           = [ClapParse(rest) EXCEPT ![SBF] = v]
    BY <1>2, <2>2, <2>3, <2>4 DEF read_arg
  <2>6. SbfPiece(v) = head
    BY <1>2 DEF SbfPiece, head
  <2> QED
    BY <2>1, <2>2, <2>5, <2>6 DEF cmd
<1> QED
  BY <1>1, <1>2

BpfPiece(flag) == IF flag THEN <<Word("--bpf")>> ELSE <<>>

LEMMA ReadBpf ==
    ASSUME NEW rest \in Seq(Arg), NEW flag \in BOOLEAN,
           IsReading(ClapParse(rest)), ClapParse(rest)["--bpf"] = FALSE
    PROVE  /\ BpfPiece(flag) \in Seq(Arg)
           /\ ClapParse(BpfPiece(flag) \o rest)
                 = [ClapParse(rest) EXCEPT !["--bpf"] = flag]
<1>1. CASE flag = FALSE
  <2>1. BpfPiece(flag) = <<>> /\ <<>> \in Seq(Arg) /\ <<>> \o rest = rest
    BY <1>1, ConcatEmptySeq DEF BpfPiece
  <2>2. [ClapParse(rest) EXCEPT !["--bpf"] = flag] = ClapParse(rest)
    BY <1>1 DEF IsReading
  <2> QED
    BY <2>1, <2>2
<1>2. CASE flag = TRUE
  <2> DEFINE head == <<Word("--bpf")>>
             cmd == head \o rest
  <2>1. Word("--bpf") \in Arg /\ head \in Seq(Arg) /\ Len(head) = 1
        /\ head[1] = Word("--bpf")
    BY WordArg, OneSeq DEF Keys7
  <2> HIDE DEF head
  <2>2. /\ cmd[1] = Word("--bpf")
        /\ ClapParse(cmd) = read_arg(cmd, 1, ClapParse(rest), Readings(cmd)[3])
    BY <2>1, ReadFirst
  <2>3. Word("--bpf") # Word("--")
    BY DEF Word
  <2> HIDE DEF cmd
  <2>4. read_arg(cmd, 1, ClapParse(rest), Readings(cmd)[3])
           = [ClapParse(rest) EXCEPT !["--bpf"] = TRUE]
    BY <2>2, <2>3 DEF read_arg
  <2>5. BpfPiece(flag) = head
    BY <1>2 DEF BpfPiece, head
  <2> QED
    BY <1>2, <2>1, <2>2, <2>4, <2>5 DEF cmd
<1> QED
  BY <1>1, <1>2

CargoPiece(cargo) == IF cargo \in {None, <<>>} THEN <<>> ELSE <<Word("--")>> \o cargo

LEMMA ReadCargo ==
    ASSUME NEW cargo \in Seq(Arg) \cup {None}
    PROVE  /\ CargoPiece(cargo) \in Seq(Arg)
           /\ ClapParse(CargoPiece(cargo))
                 = [NoOptions EXCEPT !["--"] = IF cargo = None THEN <<>> ELSE cargo]
<1>1. CASE cargo \in {None, <<>>}
  <2>1. CargoPiece(cargo) = <<>> /\ <<>> \in Seq(Arg) /\ Len(<<>>) = 0
    BY <1>1 DEF CargoPiece
  <2>2. ClapParse(<<>>) = NoOptions
    <3>1. 1 \in 1..(Len(<<>>) + 2) /\ 1 > Len(<<>>)
      BY <2>1
    <3> QED
      BY <2>1, <3>1, ReadingAt DEF ClapParse
  <2>3. [NoOptions EXCEPT !["--"] = <<>>] = NoOptions
    BY NoOptionsRead DEF IsReading
  <2> QED
    BY <1>1, <2>1, <2>2, <2>3
<1>2. CASE cargo \notin {None, <<>>}
  <2> DEFINE head == <<Word("--")>>
             cmd == head \o cargo
  <2>1. Word("--") \in Arg /\ head \in Seq(Arg) /\ Len(head) = 1
        /\ head[1] = Word("--") /\ cargo \in Seq(Arg) /\ Len(cargo) \in Nat \ {0}
    BY <1>2, EmptySeq, WordArg, OneSeq DEF Keys7
  <2> HIDE DEF head
  <2>2. /\ cmd \in Seq(Arg) /\ cmd[1] = Word("--")
        /\ ClapParse(cmd) = read_arg(cmd, 1, ClapParse(cargo), Readings(cmd)[3])
    BY <2>1, ReadFirst
  <2>3. SubSeq(cmd, 1 + 1, Len(cmd)) = cargo
    <3>1. Len(cmd) = 1 + Len(cargo)
      BY <2>1, ConcatProperties
    <3>2. /\ 1 + 1 \in (Len(head) + 1)..(Len(head) + Len(cargo))
          /\ Len(cmd) \in (Len(head) + 1)..(Len(head) + Len(cargo))
          /\ (1 + 1) - Len(head) = 1 /\ Len(cmd) - Len(head) = Len(cargo)
      BY <2>1, <3>1
    <3>3. SubSeq(cmd, 1 + 1, Len(cmd)) = SubSeq(cargo, 1, Len(cargo))
      BY <2>1, <3>2, SubSeqOfConcat2
    <3> QED
      BY <2>1, <3>3, SubSeqFull
  <2> HIDE DEF cmd
  <2>4. ClapParse(cmd) = [NoOptions EXCEPT !["--"] = cargo]
    BY <2>2, <2>3 DEF read_arg
  <2>5. CargoPiece(cargo) = cmd
    BY <1>2 DEF CargoPiece, cmd, head
  <2> QED
    BY <1>2, <2>2, <2>4, <2>5
<1> QED
  BY <1>1, <1>2

-----------------------------------------------------------------------------
(* The whole command.                                                      *)

AskedFor(p) == [w \in Keys7 |->
    CASE w = "--library-name" -> p.lib_name
      [] w = "--base-image" -> p.base_docker_image
      [] w = "--mount-path" -> p.mount_path
      [] w = "--arch" -> p.arch
      [] w = SBF -> p.cargo_build_sbf_args
      [] w = "--bpf" -> p.bpf_flag
      [] OTHER -> IF p.cargo_args = None THEN <<>> ELSE p.cargo_args]

\* What NewBuild keeps of args.
IsBuild(p) ==
    /\ p.lib_name \in Arg \cup {None} /\ p.base_docker_image \in Arg \cup {None}
    /\ p.mount_path \in Arg \cup {None} /\ p.arch \in Arg \cup {None}
    /\ p.cargo_args \in Seq(Arg) \cup {None}
    /\ p.cargo_build_sbf_args \in PlainArg \cup {None}
    /\ p.cargo_build_sbf_args # None => ~p.cargo_build_sbf_args.quoted
    /\ p.bpf_flag \in BOOLEAN

LEMMA Assoc == \A x, y, z \in Seq(Arg) : (x \o y) \o z = x \o (y \o z)
<1> TAKE x, y, z \in Seq(Arg)
<1> QED
  BY ConcatAssociative

\* A command says what was asked for.
LEMMA CommandReads ==
    ASSUME NEW p, IsBuild(p)
    PROVE  ClapParse(build_command(p)) = AskedFor(p)
<1> DEFINE cargo == CargoPiece(p.cargo_args)
           arch == Flag("--arch", p.arch) \o cargo
           bpf == BpfPiece(p.bpf_flag) \o arch
           mount == Flag("--mount-path", p.mount_path) \o bpf
           sbf == SbfPiece(p.cargo_build_sbf_args) \o mount
           image == Flag("--base-image", p.base_docker_image) \o sbf
           lib == Flag("--library-name", p.lib_name) \o image
<1>1. /\ "--library-name" \in Valued /\ "--base-image" \in Valued
      /\ "--mount-path" \in Valued /\ "--arch" \in Valued
  BY DEF Valued
<1>2. /\ p.lib_name \in Arg \cup {None} /\ p.base_docker_image \in Arg \cup {None}
      /\ p.mount_path \in Arg \cup {None} /\ p.arch \in Arg \cup {None}
      /\ p.cargo_args \in Seq(Arg) \cup {None}
      /\ p.cargo_build_sbf_args \in PlainArg \cup {None}
      /\ p.cargo_build_sbf_args # None => ~p.cargo_build_sbf_args.quoted
      /\ p.bpf_flag \in BOOLEAN
  BY DEF IsBuild
<1> DEFINE r1 == [NoOptions EXCEPT
                    !["--"] = IF p.cargo_args = None THEN <<>> ELSE p.cargo_args]
           r2 == [r1 EXCEPT !["--arch"] = p.arch]
           r3 == [r2 EXCEPT !["--bpf"] = p.bpf_flag]
           r4 == [r3 EXCEPT !["--mount-path"] = p.mount_path]
           r5 == [r4 EXCEPT ![SBF] = p.cargo_build_sbf_args]
           r6 == [r5 EXCEPT !["--base-image"] = p.base_docker_image]
           r7 == [r6 EXCEPT !["--library-name"] = p.lib_name]
<1>3. /\ IsReading(r1) /\ IsReading(r2) /\ IsReading(r3) /\ IsReading(r4)
      /\ IsReading(r5) /\ IsReading(r6)
  BY NoOptionsRead DEF IsReading
<1>4. /\ r1["--arch"] = None /\ r2["--bpf"] = FALSE /\ r3["--mount-path"] = None
      /\ r4[SBF] = None /\ r5["--base-image"] = None /\ r6["--library-name"] = None
  BY NoOptionsRead DEF IsReading, Keys7, Valued, SBF
<1>5. r7 = AskedFor(p)
  BY NoOptionsRead DEF IsReading, Keys7, Valued, SBF, AskedFor
<1> HIDE DEF cargo, arch, bpf, mount, sbf, image, lib
<1>6. cargo \in Seq(Arg) /\ ClapParse(cargo) = r1
  BY <1>2, ReadCargo DEF cargo
<1> HIDE DEF r1
<1>7. /\ Flag("--arch", p.arch) \in Seq(Arg) /\ arch \in Seq(Arg)
      /\ ClapParse(arch) = r2
  <2>1. /\ Flag("--arch", p.arch) \in Seq(Arg)
        /\ ClapParse(Flag("--arch", p.arch) \o cargo) = r2
    BY <1>1, <1>2, <1>3, <1>4, <1>6, ReadFlag
  <2> QED
    BY <1>6, <2>1, ConcatProperties DEF arch
<1> HIDE DEF r2
<1>8. /\ BpfPiece(p.bpf_flag) \in Seq(Arg) /\ bpf \in Seq(Arg)
      /\ ClapParse(bpf) = r3
  <2>1. /\ BpfPiece(p.bpf_flag) \in Seq(Arg)
        /\ ClapParse(BpfPiece(p.bpf_flag) \o arch) = r3
    BY <1>1, <1>2, <1>3, <1>4, <1>7, ReadBpf
  <2> QED
    BY <1>7, <2>1, ConcatProperties DEF bpf
<1> HIDE DEF r3
<1>9. /\ Flag("--mount-path", p.mount_path) \in Seq(Arg) /\ mount \in Seq(Arg)
      /\ ClapParse(mount) = r4
  <2>1. /\ Flag("--mount-path", p.mount_path) \in Seq(Arg)
        /\ ClapParse(Flag("--mount-path", p.mount_path) \o bpf) = r4
    BY <1>1, <1>2, <1>3, <1>4, <1>8, ReadFlag
  <2> QED
    BY <1>8, <2>1, ConcatProperties DEF mount
<1> HIDE DEF r4
<1>10. /\ SbfPiece(p.cargo_build_sbf_args) \in Seq(Arg) /\ sbf \in Seq(Arg)
       /\ ClapParse(sbf) = r5
  <2>1. /\ SbfPiece(p.cargo_build_sbf_args) \in Seq(Arg)
        /\ ClapParse(SbfPiece(p.cargo_build_sbf_args) \o mount) = r5
    BY <1>1, <1>2, <1>3, <1>4, <1>9, ReadSbf
  <2> QED
    BY <1>9, <2>1, ConcatProperties DEF sbf
<1> HIDE DEF r5
<1>11. /\ Flag("--base-image", p.base_docker_image) \in Seq(Arg)
       /\ image \in Seq(Arg) /\ ClapParse(image) = r6
  <2>1. /\ Flag("--base-image", p.base_docker_image) \in Seq(Arg)
        /\ ClapParse(Flag("--base-image", p.base_docker_image) \o sbf) = r6
    BY <1>1, <1>2, <1>3, <1>4, <1>10, ReadFlag
  <2> QED
    BY <1>10, <2>1, ConcatProperties DEF image
<1> HIDE DEF r6
<1>12. /\ Flag("--library-name", p.lib_name) \in Seq(Arg)
       /\ ClapParse(lib) = r7
  BY <1>1, <1>2, <1>3, <1>4, <1>11, ReadFlag DEF lib
<1>13. build_command(p) = lib
  <2> DEFINE l == Flag("--library-name", p.lib_name)
             i == Flag("--base-image", p.base_docker_image)
             s == SbfPiece(p.cargo_build_sbf_args)
             m == Flag("--mount-path", p.mount_path)
             b == BpfPiece(p.bpf_flag)
             a == Flag("--arch", p.arch)
             li == l \o i
             lis == li \o s
             lism == lis \o m
             lismb == lism \o b
  <2>1. build_command(p) = (lismb \o a) \o cargo
    BY DEF build_command, SbfPiece, BpfPiece, CargoPiece, cargo
  <2>2. /\ arch = a \o cargo /\ bpf = b \o arch /\ mount = m \o bpf
        /\ sbf = s \o mount /\ image = i \o sbf /\ lib = l \o image
    BY DEF lib, image, sbf, mount, bpf, arch
  <2>3. /\ l \in Seq(Arg) /\ i \in Seq(Arg) /\ s \in Seq(Arg) /\ m \in Seq(Arg)
        /\ b \in Seq(Arg) /\ a \in Seq(Arg) /\ cargo \in Seq(Arg)
    BY <1>6, <1>7, <1>8, <1>9, <1>10, <1>11, <1>12
  <2>4. /\ arch \in Seq(Arg) /\ bpf \in Seq(Arg) /\ mount \in Seq(Arg)
        /\ sbf \in Seq(Arg) /\ image \in Seq(Arg)
    BY <1>7, <1>8, <1>9, <1>10, <1>11
  <2> HIDE DEF l, i, s, m, b, a
  <2>5. /\ li \in Seq(Arg) /\ lis \in Seq(Arg) /\ lism \in Seq(Arg)
        /\ lismb \in Seq(Arg)
    BY <2>3, ConcatProperties
  <2> HIDE DEF li, lis, lism, lismb
  <2>6. (lismb \o a) \o cargo = lismb \o arch
    <3>1. lismb \in Seq(Arg) /\ a \in Seq(Arg) /\ cargo \in Seq(Arg)
      BY <2>3, <2>4, <2>5
    <3>2. arch = a \o cargo
      BY <2>2
    <3> QED
      BY <3>1, <3>2, Assoc
  <2>7. lismb \o arch = lism \o bpf
    <3>1. lism \in Seq(Arg) /\ b \in Seq(Arg) /\ arch \in Seq(Arg)
      BY <2>3, <2>4, <2>5
    <3>2. bpf = b \o arch
      BY <2>2
    <3> QED
      BY <3>1, <3>2, Assoc DEF lismb
  <2>8. lism \o bpf = lis \o mount
    <3>1. lis \in Seq(Arg) /\ m \in Seq(Arg) /\ bpf \in Seq(Arg)
      BY <2>3, <2>4, <2>5
    <3>2. mount = m \o bpf
      BY <2>2
    <3> QED
      BY <3>1, <3>2, Assoc DEF lism
  <2>9. lis \o mount = li \o sbf
    <3>1. li \in Seq(Arg) /\ s \in Seq(Arg) /\ mount \in Seq(Arg)
      BY <2>3, <2>4, <2>5
    <3>2. sbf = s \o mount
      BY <2>2
    <3> QED
      BY <3>1, <3>2, Assoc DEF lis
  <2>10. li \o sbf = lib
    <3>1. l \in Seq(Arg) /\ i \in Seq(Arg) /\ sbf \in Seq(Arg)
      BY <2>3, <2>4, <2>5
    <3>2. image = i \o sbf /\ lib = l \o image
      BY <2>2
    <3> QED
      BY <3>1, <3>2, Assoc DEF li
  <2> QED
    BY <2>1, <2>6, <2>7, <2>8, <2>9, <2>10
<1> QED
  BY <1>5, <1>12, <1>13

-----------------------------------------------------------------------------
(* The args, option by option.                                             *)

LEMMA FirstOf == ASSUME NEW s \in SUBSET Nat, s # {}
                 PROVE  First(s) \in s /\ \A n \in s : First(s) <= n
<1>1. \E m \in s : \A n \in s : m <= n
  BY LeastOf
<1> QED
  BY <1>1 DEF First

\* Where the options end.
LEMMA EndOfOptions ==
    ASSUME NEW args \in Seq(Arg)
    PROVE  /\ Len(args) \in Nat /\ OptionsEnd(args) \in 1..(Len(args) + 1)
           /\ OptionsEnd(args) <= Len(args) => args[OptionsEnd(args)] = Word("--")
           /\ \A i \in 1..Len(args) : args[i] = Word("--") => OptionsEnd(args) <= i
           /\ (Positions(args, "--") = {}) <=> (OptionsEnd(args) = Len(args) + 1)
           /\ Positions(args, "--") # {} =>
                 OptionsEnd(args) = First(Positions(args, "--"))
<1> DEFINE at == Positions(args, "--")
           n == Len(args)
<1>1. n \in Nat /\ DOMAIN args = 1..n
  OBVIOUS
<1>2. at = {i \in 1..n : args[i] = Word("--")}
  BY <1>1 DEF Positions
<1>3. CASE at = {}
  <2>1. OptionsEnd(args) = n + 1
    BY <1>3 DEF OptionsEnd
  <2> HIDE DEF at
  <2> QED
    BY <1>1, <1>2, <1>3, <2>1 DEF at
<1>4. CASE at # {}
  <2>1. OptionsEnd(args) = First(at)
    BY <1>4 DEF OptionsEnd
  <2>2. at \in SUBSET Nat
    BY <1>1, <1>2
  <2> HIDE DEF at
  <2>3. First(at) \in at /\ \A i \in at : First(at) <= i
    BY <1>4, <2>2, FirstOf
  <2> QED
    BY <1>1, <1>2, <1>4, <2>1, <2>3 DEF at
<1> QED
  BY <1>3, <1>4

\* What follows an option, of args that are well formed.
LEMMA AfterOption ==
    ASSUME NEW args \in Seq(Arg), WellFormed(args),
           NEW i \in OptionsAt(args) \cup {OptionsEnd(args)}
    PROVE  /\ i \in 1..(Len(args) + 1)
           /\ i # OptionsEnd(args) =>
                 /\ i \in OptionsAt(args) /\ i < OptionsEnd(args) /\ i <= Len(args)
                 /\ TakesNext(args[i]) =>
                       /\ i < Len(args) /\ i + 1 \notin OptionsAt(args)
                       /\ ~IsName(args[i + 1])
                       /\ i + 2 \in OptionsAt(args) \cup {OptionsEnd(args)}
                 /\ ~TakesNext(args[i]) =>
                       i + 1 \in OptionsAt(args) \cup {OptionsEnd(args)}
<1> DEFINE n == Len(args)
           end == OptionsEnd(args)
           o == OptionsAt(args)
<1>1. n \in Nat /\ end \in 1..(n + 1)
  BY EndOfOptions
<1>2. o = {j \in 1..(end - 1) : IsName(args[j])}
  BY DEF OptionsAt
<1>3. /\ \A j \in o : TakesNext(args[j]) => j + 1 \in (1..(end - 1)) \ o
      /\ \A j \in (1..(end - 1)) \ o : j - 1 \in o /\ TakesNext(args[j - 1])
  BY DEF WellFormed
<1> HIDE DEF n, end, o
<1>4. i \in o \cup {end}
  BY DEF end, o
<1>5. CASE i = end
  BY <1>1, <1>5 DEF n, end
<1>6. CASE i # end
  <2>1. i \in o /\ i \in 1..(end - 1)
    BY <1>2, <1>4, <1>6
  <2>2. i < end /\ i <= n /\ i \in Nat
    BY <1>1, <2>1
  <2>3. ASSUME TakesNext(args[i])
        PROVE  i < n /\ i + 1 \notin o /\ ~IsName(args[i + 1]) /\ i + 2 \in o \cup {end}
    <3>1. i + 1 \in 1..(end - 1) /\ i + 1 \notin o
      BY <1>3, <2>1, <2>3
    <3>2. ~IsName(args[i + 1])
      BY <1>2, <3>1
    <3>3. i + 1 <= n /\ i < n
      BY <1>1, <2>2, <3>1
    <3>4. ASSUME i + 2 # end PROVE i + 2 \in o
      <4>1. i + 2 \in 1..(end - 1)
        BY <1>1, <2>2, <3>1, <3>4
      <4>2. (i + 2) - 1 = i + 1
        BY <2>2
      <4> QED
        BY <1>3, <3>1, <4>1, <4>2
    <3> QED
      BY <3>1, <3>2, <3>3, <3>4
  <2>4. ASSUME ~TakesNext(args[i])
        PROVE  i + 1 \in o \cup {end}
    <3>1. ASSUME i + 1 # end, i + 1 \notin o PROVE FALSE
      <4>1. i + 1 \in 1..(end - 1)
        BY <1>1, <2>1, <2>2, <3>1
      <4>2. (i + 1) - 1 = i
        BY <2>2
      <4>3. TakesNext(args[i])
        BY <1>3, <3>1, <4>1, <4>2
      <4> QED
        BY <2>4, <4>3
    <3> QED
      BY <3>1
  <2> QED
    BY <1>1, <2>1, <2>2, <2>3, <2>4 DEF n, end, o
<1> QED
  BY <1>5, <1>6

\* The value of the option at j.
ValueAt(args, j) ==
    LET v == IF args[j].value # None THEN args[j].value ELSE args[j + 1]
    IN  IF args[j].word = SBF THEN strip_surrounding_quotes(v) ELSE v

\* r is what the options from the i-th arg on say.
Says(args, i, r) ==
    /\ IsReading(r)
    /\ \A w \in Valued \cup {SBF} :
          /\ \A j \in OptionsAt(args) :
                j >= i /\ Names(args[j]) = w => r[w] = ValueAt(args, j)
          /\ (\A j \in OptionsAt(args) : j >= i => Names(args[j]) # w)
                => r[w] = None
    /\ r["--bpf"] = \E j \in OptionsAt(args) : j >= i /\ args[j].word = "--bpf"
    /\ r["--"] = IF OptionsEnd(args) <= Len(args)
                 THEN SubSeq(args, OptionsEnd(args) + 1, Len(args)) ELSE <<>>

\* What there is to know of an option.
LEMMA OptionAt ==
    ASSUME NEW args \in Seq(Arg), NEW i \in OptionsAt(args)
    PROVE  /\ i \in 1..Len(args) /\ args[i] \in Arg
           /\ args[i] # Word("--") /\ ~args[i].quoted
           /\ args[i].word \in OptionNames \cup {"--bpf"}
           /\ args[i].value \in PlainArg \cup {None}
           /\ args[i].value = None => args[i] = Word(args[i].word)
           /\ args[i].word = "--bpf" =>
                 /\ Names(args[i]) = "--bpf" /\ args[i] = Word("--bpf")
                 /\ ~TakesNext(args[i])
           /\ args[i].word # "--bpf" =>
                 /\ Names(args[i]) = OptionOf[args[i].word]
                 /\ args[i] # Word("--bpf") /\ args[i].word # "--bpf"
                 /\ Names(args[i]) \in Valued \cup {SBF}
                 /\ TakesNext(args[i]) <=> args[i].value = None
           /\ Names(args[i]) = SBF <=> args[i].word = SBF
<1>1. /\ i \in 1..(OptionsEnd(args) - 1) /\ IsName(args[i])
      /\ OptionsEnd(args) \in 1..(Len(args) + 1) /\ Len(args) \in Nat
      /\ \A j \in 1..Len(args) : args[j] = Word("--") => OptionsEnd(args) <= j
  BY EndOfOptions DEF OptionsAt
<1>2. i \in 1..Len(args) /\ args[i] # Word("--") /\ args[i] \in Arg
  <2>1. i \in 1..Len(args) /\ ~(OptionsEnd(args) <= i)
    BY <1>1
  <2>2. args[i] \in Arg
    BY <2>1
  <2> QED
    BY <1>1, <2>1, <2>2
<1> DEFINE arg == args[i]
<1> HIDE DEF arg
<1>3. /\ arg \in Arg /\ arg # Word("--") /\ ~arg.quoted
      /\ arg.word \in OptionNames \cup {"--bpf", "--"}
  BY <1>1, <1>2 DEF arg, IsName
<1>4. /\ arg.value \in PlainArg \cup {None}
      /\ arg.value = None => arg = Word(arg.word)
      /\ arg.word \notin OptionNames => arg.value = None
  BY <1>3, NoneIsNoArg DEF Arg, PlainArg, Word
<1>5. arg.word # "--"
  BY <1>3, <1>4 DEF OptionNames, SBF
<1>6. arg.word = "--bpf" => Names(arg) = "--bpf" /\ arg = Word("--bpf") /\ ~TakesNext(arg)
  BY <1>4 DEF Names, TakesNext, OptionNames, SBF
<1>7. arg.word # "--bpf" =>
        /\ Names(arg) = OptionOf[arg.word] /\ arg # Word("--bpf")
        /\ TakesNext(arg) <=> arg.value = None
  BY DEF Names, TakesNext, Word
<1>8. arg.word # "--bpf" => Names(arg) \in Valued \cup {SBF}
  BY <1>3, <1>5, <1>7 DEF OptionOf, OptionNames, Valued
<1>9. Names(arg) = SBF <=> arg.word = SBF
  BY <1>3, <1>5, <1>6, <1>7 DEF OptionOf, OptionNames, SBF
<1> QED
  BY <1>2, <1>3, <1>4, <1>5, <1>6, <1>7, <1>8, <1>9 DEF arg

\* At the end of the options.
LEMMA EndSays ==
    ASSUME NEW args \in Seq(Arg)
    PROVE  Says(args, OptionsEnd(args), Readings(args)[OptionsEnd(args)])
<1> DEFINE end == OptionsEnd(args)
           r == Readings(args)[end]
<1>1. /\ Len(args) \in Nat /\ end \in 1..(Len(args) + 1)
      /\ end <= Len(args) => args[end] = Word("--")
  BY EndOfOptions
<1>2. r = [NoOptions EXCEPT !["--"] =
             IF end <= Len(args) THEN SubSeq(args, end + 1, Len(args)) ELSE <<>>]
  <2>1. CASE end > Len(args)
    <3>1. r = NoOptions
      BY <1>1, <2>1, ReadingAt
    <3>2. [NoOptions EXCEPT !["--"] = <<>>] = NoOptions
      BY NoOptionsRead DEF IsReading
    <3> QED
      BY <1>1, <2>1, <3>1, <3>2
  <2>2. CASE end <= Len(args)
    <3>1. end \in 1..(Len(args) + 2)
      BY <1>1
    <3>2. r = read_arg(args, end, Readings(args)[end + 1], Readings(args)[end + 2])
      BY <2>2, <3>1, ReadingAt
    <3> QED
      BY <1>1, <2>2, <3>2 DEF read_arg
  <2> QED
    BY <1>1, <2>1, <2>2
<1>3. \A j \in OptionsAt(args) : ~(j >= end)
  BY <1>1 DEF OptionsAt
<1> HIDE DEF end, r
<1>4. /\ IsReading(r) /\ \A w \in Valued \cup {SBF} : r[w] = None
      /\ r["--bpf"] = FALSE
      /\ r["--"] = IF end <= Len(args) THEN SubSeq(args, end + 1, Len(args)) ELSE <<>>
  BY <1>2, NoOptionsRead DEF IsReading, Keys7, Valued, SBF
<1>5. Says(args, end, r)
  BY <1>3, <1>4 DEF Says, end
<1> QED
  BY <1>5 DEF end, r

\* One option more.
LEMMA OptionSays ==
    ASSUME NEW args \in Seq(Arg), WellFormed(args), NEW i \in OptionsAt(args),
           TakesNext(args[i]) => Says(args, i + 2, Readings(args)[i + 2]),
           ~TakesNext(args[i]) => Says(args, i + 1, Readings(args)[i + 1])
    PROVE  Says(args, i, Readings(args)[i])
<1> DEFINE k == IF TakesNext(args[i]) THEN i + 2 ELSE i + 1
           o == OptionsAt(args)
           r == Readings(args)[i]
           s == Readings(args)[k]
<1>1. /\ i \in 1..Len(args) /\ Len(args) \in Nat
      /\ TakesNext(args[i]) => i < Len(args) /\ i + 1 \notin o
  BY OptionAt, AfterOption DEF OptionsAt
<1>2. Says(args, k, s)
  OBVIOUS
<1>3. \A j \in o : j \in Nat /\ (j >= i <=> j = i \/ j >= k)
  BY <1>1 DEF OptionsAt
<1>4. ~(i >= k)
  BY <1>1
<1>5. r = IF args[i].word = "--bpf" THEN [s EXCEPT !["--bpf"] = TRUE]
          ELSE [s EXCEPT ![Names(args[i])] = ValueAt(args, i)]
  <2>1. r = read_arg(args, i, Readings(args)[i + 1], Readings(args)[i + 2])
    BY <1>1, ReadingAt
  <2>2. CASE args[i].word = "--bpf"
    <3>1. args[i] = Word("--bpf") /\ args[i] # Word("--") /\ ~TakesNext(args[i])
      BY <2>2, OptionAt
    <3> QED
      BY <2>1, <2>2, <3>1 DEF read_arg
  <2>3. CASE args[i].word # "--bpf"
    <3>1. /\ args[i] # Word("--bpf") /\ args[i] # Word("--")
          /\ Names(args[i]) = OptionOf[args[i].word]
          /\ TakesNext(args[i]) <=> args[i].value = None
      BY <2>3, OptionAt
    <3>2. CASE args[i].value = None
      BY <1>1, <2>1, <2>3, <3>1, <3>2 DEF read_arg, ValueAt
    <3>3. CASE args[i].value # None
      BY <1>1, <2>1, <2>3, <3>1, <3>3 DEF read_arg, ValueAt
    <3> QED
      BY <3>2, <3>3
  <2> QED
    BY <2>2, <2>3
<1>6. \A j \in o : Names(args[j]) = Names(args[i]) => j = i
  BY DEF WellFormed
<1>7. i \in o
  OBVIOUS
<1> HIDE DEF k, o, r, s
<1>8. /\ IsReading(s)
      /\ \A w \in Valued \cup {SBF} :
            /\ \A j \in o : j >= k /\ Names(args[j]) = w => s[w] = ValueAt(args, j)
            /\ (\A j \in o : j >= k => Names(args[j]) # w) => s[w] = None
      /\ s["--bpf"] = \E j \in o : j >= k /\ args[j].word = "--bpf"
      /\ s["--"] = IF OptionsEnd(args) <= Len(args)
                   THEN SubSeq(args, OptionsEnd(args) + 1, Len(args)) ELSE <<>>
  BY <1>2 DEF Says, o
<1>9. CASE args[i].word = "--bpf"
  <2>1. /\ IsReading(r) /\ r["--bpf"] = TRUE /\ r["--"] = s["--"]
        /\ \A w \in Valued \cup {SBF} : r[w] = s[w]
    BY <1>5, <1>8, <1>9 DEF IsReading, Keys7, Valued, SBF
  <2>2. Names(args[i]) \notin Valued \cup {SBF}
    BY <1>9 DEF Names, Valued, SBF
  <2>3. ASSUME NEW w \in Valued \cup {SBF}
        PROVE  /\ \A j \in o : j >= i /\ Names(args[j]) = w => r[w] = ValueAt(args, j)
               /\ (\A j \in o : j >= i => Names(args[j]) # w) => r[w] = None
    BY <1>3, <1>8, <2>1, <2>2
  <2>4. \E j \in o : j >= i /\ args[j].word = "--bpf"
    BY <1>3, <1>7, <1>9
  <2>5. r["--bpf"] = \E j \in o : j >= i /\ args[j].word = "--bpf"
    BY <2>1, <2>4, Zenon
  <2> QED
    BY <1>8, <2>1, <2>3, <2>5 DEF Says, o, r
<1>10. CASE args[i].word # "--bpf"
  <2> DEFINE name == Names(args[i])
             v == ValueAt(args, i)
  <2>1. name \in Valued \cup {SBF}
    BY <1>7, <1>10, OptionAt DEF o
  <2> HIDE DEF name, v
  <2>2. r = [s EXCEPT ![name] = v]
    BY <1>5, <1>10 DEF name, v
  <2>3. /\ IsReading(r) /\ r["--bpf"] = s["--bpf"] /\ r["--"] = s["--"]
        /\ r[name] = v /\ \A w \in Valued \cup {SBF} : w # name => r[w] = s[w]
    BY <1>8, <2>1, <2>2 DEF IsReading, Keys7, Valued, SBF
  <2>4. ASSUME NEW w \in Valued \cup {SBF}
        PROVE  /\ \A j \in o : j >= i /\ Names(args[j]) = w => r[w] = ValueAt(args, j)
               /\ (\A j \in o : j >= i => Names(args[j]) # w) => r[w] = None
    <3>1. CASE w = name
      BY <1>3, <1>6, <1>7, <2>3, <3>1 DEF name, v
    <3>2. CASE w # name
      BY <1>3, <1>8, <2>3, <3>2 DEF name
    <3> QED
      BY <3>1, <3>2
  <2>5. (\E j \in o : j >= i /\ args[j].word = "--bpf")
           <=> \E j \in o : j >= k /\ args[j].word = "--bpf"
    BY <1>3, <1>10
  <2>6. r["--bpf"] = \E j \in o : j >= i /\ args[j].word = "--bpf"
    BY <1>8, <2>3, <2>5, Zenon
  <2> QED
    BY <1>8, <2>3, <2>4, <2>6 DEF Says, o, r
<1> QED
  BY <1>9, <1>10

\* What solana-verify's parser reads from well-formed args.
LEMMA ArgsSay ==
    ASSUME NEW args \in Seq(Arg), WellFormed(args)
    PROVE  Says(args, 1, ClapParse(args))
<1> DEFINE n == Len(args)
           end == OptionsEnd(args)
           places == OptionsAt(args) \cup {end}
           s == {i \in places : ~Says(args, i, Readings(args)[i])}
<1>1. n \in Nat /\ end \in 1..(n + 1) /\ OptionsAt(args) \subseteq 1..(end - 1)
  BY EndOfOptions DEF OptionsAt
<1>2. s \in SUBSET (0..(n + 1)) /\ n + 1 \in Nat
  BY <1>1
<1>3. ASSUME s # {} PROVE FALSE
  <2> HIDE DEF s
  <2>1. PICK i \in s : \A j \in s : j <= i
    BY <1>2, <1>3, GreatestOf
  <2>2. i \in places /\ ~Says(args, i, Readings(args)[i])
    BY <2>1 DEF s
  <2>3. i # end
    BY <2>2, EndSays
  <2>4. i \in OptionsAt(args) /\ i \in Nat
    BY <1>1, <2>2, <2>3
  <2>5. ASSUME NEW j \in places, i < j PROVE Says(args, j, Readings(args)[j])
    <3>1. j \notin s
      <4>1. j \in Nat /\ ~(j <= i)
        BY <1>1, <2>4, <2>5
      <4> QED
        BY <2>1, <4>1
    <3> QED
      BY <3>1 DEF s
  <2>6. TakesNext(args[i]) => Says(args, i + 2, Readings(args)[i + 2])
    <3>1. ASSUME TakesNext(args[i]) PROVE i + 2 \in places /\ i < i + 2
      BY <2>3, <2>4, <3>1, AfterOption
    <3> QED
      BY <2>5, <3>1
  <2>7. ~TakesNext(args[i]) => Says(args, i + 1, Readings(args)[i + 1])
    <3>1. ASSUME ~TakesNext(args[i]) PROVE i + 1 \in places /\ i < i + 1
      BY <2>3, <2>4, <3>1, AfterOption
    <3> QED
      BY <2>5, <3>1
  <2> QED
    BY <2>2, <2>4, <2>6, <2>7, OptionSays
<1>4. 1 \in places
  <2>1. ASSUME 1 # end, 1 \notin OptionsAt(args) PROVE FALSE
    <3>1. 1 \in 1..(end - 1) /\ 1 - 1 = 0
      BY <1>1, <2>1
    <3>2. 1 - 1 \in OptionsAt(args)
      BY <2>1, <3>1 DEF WellFormed
    <3> QED
      BY <1>1, <3>1, <3>2
  <2> QED
    BY <2>1
<1> QED
  BY <1>3, <1>4 DEF ClapParse

\* There is only one thing to say.
LEMMA SaysOne ==
    ASSUME NEW args \in Seq(Arg), NEW q, NEW r,
           Says(args, 1, q), Says(args, 1, r)
    PROVE  q = r
<1>1. ASSUME NEW w \in Valued \cup {SBF} PROVE q[w] = r[w]
  <2>1. CASE \E j \in OptionsAt(args) : j >= 1 /\ Names(args[j]) = w
    BY <2>1 DEF Says
  <2>2. CASE ~\E j \in OptionsAt(args) : j >= 1 /\ Names(args[j]) = w
    BY <2>2 DEF Says
  <2> QED
    BY <2>1, <2>2
<1>2. q["--bpf"] = r["--bpf"] /\ q["--"] = r["--"]
  BY Zenon DEF Says
<1>3. \A w \in Keys7 : q[w] = r[w]
  BY <1>1, <1>2 DEF Keys7
<1>4. q = [w \in Keys7 |-> q[w]] /\ r = [w \in Keys7 |-> r[w]]
  BY DEF Says, IsReading
<1>5. [w \in Keys7 |-> q[w]] = [w \in Keys7 |-> r[w]]
  BY <1>3
<1> QED
  BY <1>4, <1>5, Zenon

-----------------------------------------------------------------------------
(* NewBuild keeps what the args say.                                       *)

LEMMA NamesAreOptions ==
    ASSUME NEW args \in Seq(Arg), WellFormed(args), NEW i \in DOMAIN args,
           IsName(args[i]), args[i] # Word("--")
    PROVE  i \in OptionsAt(args)
<1> DEFINE n == Len(args)
           end == OptionsEnd(args)
<1>1. /\ n \in Nat /\ end \in 1..(n + 1) /\ i \in 1..n
      /\ end <= n => args[end] = Word("--")
  BY EndOfOptions
<1>2. \A j \in (end + 1)..n : ~IsName(args[j])
  BY DEF WellFormed
<1> HIDE DEF n, end
<1>3. ~(i > end)
  BY <1>1, <1>2
<1>4. i # end
  BY <1>1
<1>5. i \in 1..(end - 1)
  BY <1>1, <1>3, <1>4
<1> QED
  BY <1>5 DEF OptionsAt, end

LEMMA OnlyPlace == ASSUME NEW j \in Nat PROVE First({j}) = j
BY DEF First

\* The value of a flag, of args that are well formed: only the one that is the
\* arg after it.
LEMMA ArgValue ==
    ASSUME NEW args \in Seq(Arg), WellFormed(args), NEW f \in Valued \cup {"-b"}
    PROVE  /\ \A j \in OptionsAt(args) :
                 args[j] = Word(f) => /\ arg_value(args, f) = ValueAt(args, j)
                                      /\ arg_value(args, f) \in Arg
           /\ (\A j \in OptionsAt(args) : args[j] # Word(f))
                 => arg_value(args, f) = None
<1>1. f \in OptionNames /\ f # SBF /\ f # "--bpf" /\ f # "--"
  BY DEF Valued, OptionNames, SBF
<1>2. Word(f).word = f /\ IsName(Word(f)) /\ Word(f) # Word("--")
  BY <1>1 DEF Word, IsName
<1>3. ASSUME NEW i \in Positions(args, f)
      PROVE  i \in OptionsAt(args) /\ args[i] = Word(f)
  <2>1. i \in DOMAIN args /\ args[i] = Word(f)
    BY DEF Positions
  <2> QED
    BY <1>2, <2>1, NamesAreOptions
<1>4. ASSUME NEW j \in OptionsAt(args), args[j] = Word(f)
      PROVE  arg_value(args, f) = ValueAt(args, j) /\ arg_value(args, f) \in Arg
  <2>1. /\ j \in 1..Len(args) /\ args[j].value = None /\ args[j].word = f
        /\ TakesNext(args[j])
    BY <1>1, <1>4, WordParts, OptionAt DEF TakesNext
  <2>2. j \in Positions(args, f)
    BY <1>4, <2>1 DEF Positions
  <2>3. ASSUME NEW i \in Positions(args, f) PROVE i = j
    <3>1. i \in OptionsAt(args) /\ Names(args[i]) = Names(args[j])
      BY <1>3, <1>4 DEF Names
    <3> QED
      BY <3>1 DEF WellFormed
  <2>4. Positions(args, f) = {j}
    BY <2>2, <2>3
  <2>5. j < Len(args) /\ j \in Nat
    <3>1. j # OptionsEnd(args)
      BY EndOfOptions DEF OptionsAt
    <3> QED
      BY <2>1, <3>1, AfterOption
  <2>6. arg_value(args, f) = args[j + 1]
    BY <2>1, <2>4, <2>5, OnlyPlace DEF arg_value
  <2>7. args[j + 1] \in Arg
    BY <2>1, <2>5
  <2>8. ValueAt(args, j) = args[j + 1]
    BY <1>1, <1>4, <2>1 DEF ValueAt
  <2> QED
    BY <2>6, <2>7, <2>8
<1>5. ASSUME \A j \in OptionsAt(args) : args[j] # Word(f)
      PROVE  arg_value(args, f) = None
  <2>1. Positions(args, f) = {}
    BY <1>3, <1>5
  <2> QED
    BY <2>1 DEF arg_value
<1> QED
  BY <1>4, <1>5

LEMMA SbfValue ==
    ASSUME NEW args \in Seq(Arg), WellFormed(args)
    PROVE  /\ \A j \in OptionsAt(args) :
                 args[j].word = SBF =>
                    /\ get_cargo_build_sbf_args(args) = ValueAt(args, j)
                    /\ get_cargo_build_sbf_args(args) \in PlainArg
                    /\ ~get_cargo_build_sbf_args(args).quoted
           /\ (\A j \in OptionsAt(args) : args[j].word # SBF)
                 => get_cargo_build_sbf_args(args) = None
<1> DEFINE at == {i \in DOMAIN args : args[i].word = SBF /\ ~args[i].quoted}
<1>1. ASSUME NEW i \in at
      PROVE  i \in OptionsAt(args) /\ args[i].word = SBF
  <2>1. i \in DOMAIN args /\ IsName(args[i]) /\ args[i] # Word("--")
    BY DEF IsName, OptionNames, Word, SBF
  <2> QED
    BY <2>1, NamesAreOptions
<1>2. ASSUME NEW j \in OptionsAt(args), args[j].word = SBF
      PROVE  /\ get_cargo_build_sbf_args(args) = ValueAt(args, j)
             /\ get_cargo_build_sbf_args(args) \in PlainArg
             /\ ~get_cargo_build_sbf_args(args).quoted
  <2>1. /\ j \in 1..Len(args) /\ ~args[j].quoted /\ j # OptionsEnd(args)
        /\ args[j].value \in PlainArg \cup {None}
        /\ TakesNext(args[j]) <=> args[j].value = None
    <3>1. args[j].word # "--bpf"
      BY <1>2 DEF SBF
    <3> QED
      BY <1>2, <3>1, OptionAt, EndOfOptions DEF OptionsAt
  <2>2. j \in at
    BY <1>2, <2>1
  <2>3. ASSUME NEW i \in at PROVE i = j
    <3>1. i \in OptionsAt(args) /\ Names(args[i]) = Names(args[j])
      BY <1>1, <1>2 DEF Names
    <3> QED
      BY <3>1 DEF WellFormed
  <2>4. at = {j} /\ First(at) = j
    BY <2>1, <2>2, <2>3, OnlyPlace
  <2>5. ASSUME NEW v \in PlainArg
        PROVE  strip_surrounding_quotes(v) \in PlainArg /\ ~strip_surrounding_quotes(v).quoted
    BY DEF strip_surrounding_quotes, PlainArg
  <2> HIDE DEF at
  <2>6. CASE args[j].value # None
    <3>1. get_cargo_build_sbf_args(args) = strip_surrounding_quotes(args[j].value)
      BY <2>4, <2>6 DEF get_cargo_build_sbf_args, at
    <3>2. ValueAt(args, j) = strip_surrounding_quotes(args[j].value)
      BY <1>2, <2>6 DEF ValueAt
    <3> QED
      BY <2>1, <2>5, <2>6, <3>1, <3>2
  <2>7. CASE args[j].value = None
    <3>1. j < Len(args) /\ ~IsName(args[j + 1])
      BY <2>1, <2>7, AfterOption
    <3>2. args[j + 1] \in PlainArg
      <4>1. args[j + 1] \in Arg
        BY <2>1, <3>1
      <4> HIDE DEF at
      <4> QED
        BY <3>1, <4>1 DEF Arg, IsName, OptionNames
    <3>3. get_cargo_build_sbf_args(args) = strip_surrounding_quotes(args[j + 1])
      BY <2>4, <2>7, <3>1, <2>1 DEF get_cargo_build_sbf_args, at
    <3>4. ValueAt(args, j) = strip_surrounding_quotes(args[j + 1])
      BY <1>2, <2>7 DEF ValueAt
    <3> QED
      BY <2>5, <3>2, <3>3, <3>4
  <2> QED
    BY <2>6, <2>7
<1>3. ASSUME \A j \in OptionsAt(args) : args[j].word # SBF
      PROVE  get_cargo_build_sbf_args(args) = None
  <2>1. at = {}
    BY <1>1, <1>3
  <2> QED
    BY <2>1 DEF get_cargo_build_sbf_args
<1> QED
  BY <1>2, <1>3

LEMMA ImageValue ==
    ASSUME NEW args \in Seq(Arg), WellFormed(args)
    PROVE  /\ \A j \in OptionsAt(args) :
                 Names(args[j]) = "--base-image" /\ args[j].value = None =>
                    /\ get_base_image(args) = ValueAt(args, j)
                    /\ get_base_image(args) \in Arg
           /\ (\A j \in OptionsAt(args) :
                 Names(args[j]) = "--base-image" => args[j].value # None)
                 => get_base_image(args) = None
<1>1. ASSUME NEW j \in OptionsAt(args)
      PROVE  /\ Names(args[j]) = "--base-image" <=> args[j].word \in {"--base-image", "-b"}
             /\ args[j].value = None => args[j] = Word(args[j].word)
  <2>1. args[j].word \in OptionNames \cup {"--bpf"}
    BY OptionAt
  <2> QED
    BY <2>1, OptionAt DEF Names, OptionOf, OptionNames, SBF
<1>2. "--base-image" \in Valued \cup {"-b"} /\ "-b" \in Valued \cup {"-b"}
  BY DEF Valued
<1>3. None \notin Arg
  BY NoneIsNoArg
<1>4. ASSUME NEW j \in OptionsAt(args), Names(args[j]) = "--base-image",
             args[j].value = None
      PROVE  get_base_image(args) = ValueAt(args, j) /\ get_base_image(args) \in Arg
  <2>1. CASE args[j] = Word("--base-image")
    <3>1. /\ arg_value(args, "--base-image") = ValueAt(args, j)
          /\ arg_value(args, "--base-image") \in Arg
      BY <1>2, <2>1, ArgValue
    <3> QED
      BY <1>3, <3>1 DEF get_base_image
  <2>2. CASE args[j] = Word("-b")
    <3>1. /\ arg_value(args, "-b") = ValueAt(args, j)
          /\ arg_value(args, "-b") \in Arg
      BY <1>2, <2>2, ArgValue
    <3>2. \A i \in OptionsAt(args) : args[i] # Word("--base-image")
      <4>1. SUFFICES ASSUME NEW i \in OptionsAt(args), args[i] = Word("--base-image")
                     PROVE  FALSE
        OBVIOUS
      <4>2. Names(args[i]) = Names(args[j])
        BY <1>1, <1>4, <4>1, WordParts
      <4>3. i = j
        BY <4>2 DEF WellFormed
      <4> QED
        BY <2>2, <4>1, <4>3, WordParts
    <3>3. arg_value(args, "--base-image") = None
      BY <1>2, <3>2, ArgValue
    <3> QED
      BY <3>1, <3>3 DEF get_base_image
  <2> QED
    BY <1>1, <1>4, <2>1, <2>2
<1>5. ASSUME \A j \in OptionsAt(args) :
                Names(args[j]) = "--base-image" => args[j].value # None
      PROVE  get_base_image(args) = None
  <2>1. \A j \in OptionsAt(args) :
            args[j] # Word("--base-image") /\ args[j] # Word("-b")
    BY <1>1, <1>5, WordParts
  <2> QED
    BY <1>2, <2>1, ArgValue DEF get_base_image
<1> QED
  BY <1>4, <1>5

LEMMA CargoValue ==
    ASSUME NEW args \in Seq(Arg)
    PROVE  /\ get_cargo_args(args) \in Seq(Arg) \cup {None}
           /\ (IF get_cargo_args(args) = None THEN <<>> ELSE get_cargo_args(args))
                 = IF OptionsEnd(args) <= Len(args)
                   THEN SubSeq(args, OptionsEnd(args) + 1, Len(args)) ELSE <<>>
<1> DEFINE n == Len(args)
           end == OptionsEnd(args)
<1>1. /\ n \in Nat /\ end \in 1..(n + 1)
      /\ (Positions(args, "--") = {}) <=> (end = n + 1)
      /\ Positions(args, "--") # {} => end = First(Positions(args, "--"))
  BY EndOfOptions
<1>2. CASE Positions(args, "--") = {}
  <2>1. get_cargo_args(args) = None /\ ~(end <= n)
    BY <1>1, <1>2 DEF get_cargo_args
  <2> QED
    BY <2>1
<1>3. CASE Positions(args, "--") # {}
  <2>1. get_cargo_args(args) = SubSeq(args, end + 1, n) /\ end <= n
    BY <1>1, <1>3 DEF get_cargo_args
  <2>2. SubSeq(args, end + 1, n) \in Seq(Arg)
    <3>1. \A i \in (end + 1)..n : i \in 1..n
      BY <1>1
    <3> HIDE DEF end
    <3> QED
      BY <1>1, <3>1, SubSeqProperties
  <2>3. SubSeq(args, end + 1, n) # None
    BY <2>2, NoneIsNoArg
  <2> QED
    BY <2>1, <2>2, <2>3
<1> QED
  BY <1>2, <1>3

LEMMA BuildIsTyped ==
    ASSUME NEW args \in Seq(Arg), WellFormed(args) PROVE IsBuild(NewBuild(args))
<1>1. ASSUME NEW f \in Valued \cup {"-b"} PROVE arg_value(args, f) \in Arg \cup {None}
  BY ArgValue
<1>2. /\ arg_value(args, "--library-name") \in Arg \cup {None}
      /\ arg_value(args, "--mount-path") \in Arg \cup {None}
      /\ arg_value(args, "--arch") \in Arg \cup {None}
  BY <1>1 DEF Valued
<1>3. get_base_image(args) \in Arg \cup {None}
  BY ImageValue
<1>4. /\ get_cargo_build_sbf_args(args) \in PlainArg \cup {None}
      /\ get_cargo_build_sbf_args(args) # None
            => ~get_cargo_build_sbf_args(args).quoted
  BY SbfValue
<1>5. get_cargo_args(args) \in Seq(Arg) \cup {None}
  BY CargoValue
<1>6. (Positions(args, "--bpf") # {}) \in BOOLEAN
  OBVIOUS
<1> QED
  BY <1>2, <1>3, <1>4, <1>5, <1>6 DEF IsBuild, NewBuild

\* What NewBuild keeps is what the args say, if each value is an arg of its own.
LEMMA BuildSays ==
    ASSUME NEW args \in Seq(Arg), WellFormed(args), ~LosesOption(args)
    PROVE  Says(args, 1, AskedFor(NewBuild(args)))
<1> DEFINE o == OptionsAt(args)
           r == AskedFor(NewBuild(args))
<1>1. /\ r["--library-name"] = arg_value(args, "--library-name")
      /\ r["--base-image"] = get_base_image(args)
      /\ r["--mount-path"] = arg_value(args, "--mount-path")
      /\ r["--arch"] = arg_value(args, "--arch")
      /\ r[SBF] = get_cargo_build_sbf_args(args)
      /\ r["--bpf"] = (Positions(args, "--bpf") # {})
      /\ r["--"] = IF get_cargo_args(args) = None THEN <<>> ELSE get_cargo_args(args)
      /\ IsReading(r)
  BY DEF AskedFor, NewBuild, Keys7, Valued, SBF, IsReading
<1>2. \A j \in o : j \in Nat /\ j >= 1
  BY DEF OptionsAt
<1>8. \A j \in o : args[j].word # SBF => args[j].value = None
  BY DEF LosesOption
<1> HIDE DEF r
<1>3. ASSUME NEW w \in Valued \cup {SBF}
      PROVE  /\ \A j \in o : Names(args[j]) = w => r[w] = ValueAt(args, j)
             /\ (\A j \in o : Names(args[j]) # w) => r[w] = None
  <2>1. CASE w = SBF
    <3>1. \A j \in o : Names(args[j]) = SBF <=> args[j].word = SBF
      BY OptionAt
    <3> QED
      BY <1>1, <2>1, <3>1, SbfValue
  <2>2. CASE w = "--base-image"
    BY <1>1, <1>8, <2>2, ImageValue DEF Names, OptionOf, OptionNames, SBF
  <2>3. CASE w \in {"--library-name", "--mount-path", "--arch"}
    <3>1. ASSUME NEW j \in o PROVE Names(args[j]) = w <=> args[j].word = w
      <4>1. args[j].word \in OptionNames \cup {"--bpf"}
        BY OptionAt
      <4> QED
        BY <2>3, <4>1 DEF Names, OptionOf, OptionNames, SBF
    <3>2. r[w] = arg_value(args, w) /\ w \in Valued \cup {"-b"}
      BY <1>1, <2>3 DEF Valued
    <3>3. \A j \in o : args[j].word = w <=> args[j] = Word(w)
      BY <1>8, <2>3, WordParts, OptionAt DEF SBF
    <3> QED
      BY <3>1, <3>2, <3>3, ArgValue
  <2> QED
    BY <2>1, <2>2, <2>3 DEF Valued
<1>4. (Positions(args, "--bpf") # {})
         <=> \E j \in o : j >= 1 /\ args[j].word = "--bpf"
  <2>1. ASSUME NEW i \in Positions(args, "--bpf")
        PROVE  i \in o /\ args[i].word = "--bpf"
    <3>1. /\ i \in DOMAIN args /\ args[i] = Word("--bpf")
          /\ IsName(args[i]) /\ args[i] # Word("--") /\ args[i].word = "--bpf"
      BY DEF Positions, IsName, Word
    <3> QED
      BY <3>1, NamesAreOptions
  <2>2. ASSUME NEW j \in o, args[j].word = "--bpf"
        PROVE  j \in Positions(args, "--bpf")
    <3>1. args[j] = Word("--bpf") /\ j \in 1..Len(args)
      BY <2>2, OptionAt
    <3> QED
      BY <3>1 DEF Positions
  <2> QED
    BY <1>2, <2>1, <2>2
<1>5. r["--bpf"] = \E j \in o : j >= 1 /\ args[j].word = "--bpf"
  BY <1>1, <1>4, Zenon
<1>6. r["--"] = IF OptionsEnd(args) <= Len(args)
                THEN SubSeq(args, OptionsEnd(args) + 1, Len(args)) ELSE <<>>
  BY <1>1, CargoValue
<1> HIDE DEF o
<1>7. Says(args, 1, r)
  BY <1>1, <1>2, <1>3, <1>5, <1>6 DEF Says, o
<1> QED
  BY <1>7 DEF r

\* The value of an option written --option=value is not among what NewBuild
\* keeps.
LEMMA BuildLoses ==
    ASSUME NEW args \in Seq(Arg), WellFormed(args), LosesOption(args)
    PROVE  AskedFor(NewBuild(args)) # ClapParse(args)
<1>1. PICK i \in OptionsAt(args) : args[i].word # SBF /\ args[i].value # None
  BY DEF LosesOption
<1> DEFINE w == Names(args[i])
<1>2. /\ w \in Valued /\ args[i].word # "--bpf" /\ i \in Nat /\ i >= 1
      /\ w = OptionOf[args[i].word] /\ args[i].value \in PlainArg
      /\ args[i].word \in OptionNames
  <2>1. args[i].word # "--bpf"
    BY <1>1, WordParts, OptionAt
  <2> QED
    BY <1>1, <2>1, OptionAt DEF OptionsAt
<1>3. \A j \in OptionsAt(args) : Names(args[j]) = w => j = i
  BY DEF WellFormed
<1> HIDE DEF w
<1>4. ClapParse(args)[w] = args[i].value
  <2>1. ClapParse(args)[w] = ValueAt(args, i)
    BY <1>2, ArgsSay DEF Says, w
  <2> QED
    BY <1>1, <2>1 DEF ValueAt
<1>5. AskedFor(NewBuild(args))[w] = None
  <2>1. CASE w = "--base-image"
    <3>1. get_base_image(args) = None
      BY <1>1, <1>3, <2>1, ImageValue
    <3> QED
      BY <2>1, <3>1 DEF AskedFor, NewBuild, Keys7, Valued, SBF
  <2>2. CASE w # "--base-image"
    <3>1. \A j \in OptionsAt(args) : args[j] # Word(w)
      <4>1. ASSUME NEW j \in OptionsAt(args), args[j] = Word(w) PROVE FALSE
        <5>1. args[j].word = w /\ args[j].value = None
          BY <4>1, WordParts
        <5>2. Names(args[j]) = w
          BY <1>2, <2>2, <5>1 DEF Names, OptionOf, OptionNames, Valued
        <5> QED
          BY <1>1, <1>3, <5>1, <5>2
      <4> QED
        BY <4>1
    <3>2. arg_value(args, w) = None
      BY <1>2, <3>1, ArgValue
    <3> QED
      BY <1>2, <2>2, <3>2 DEF AskedFor, NewBuild, Keys7, Valued, SBF
  <2> QED
    BY <2>1, <2>2
<1>6. None \notin PlainArg
  BY NoneIsNoArg DEF Arg
<1> QED
  BY <1>2, <1>4, <1>5, <1>6

\* Whatever well-formed args a PDA has, solana-verify's parser reads the same
\* from the command that is built from them, unless an option other than the
\* sbf one is written --option=value: then it never does (otter.rs:46-105,
\* mod.rs:95-133).
THEOREM CommandAsksTheSame ==
    ASSUME NEW args \in Seq(Arg), WellFormed(args)
    PROVE  ClapParse(build_command(NewBuild(args))) = ClapParse(args)
              <=> ~LosesOption(args)
<1>1. ClapParse(build_command(NewBuild(args))) = AskedFor(NewBuild(args))
  BY BuildIsTyped, CommandReads
<1>2. CASE ~LosesOption(args)
  <2>1. Says(args, 1, AskedFor(NewBuild(args))) /\ Says(args, 1, ClapParse(args))
    BY <1>2, BuildSays, ArgsSay
  <2>2. AskedFor(NewBuild(args)) = ClapParse(args)
    BY <2>1, SaysOne
  <2> QED
    BY <1>1, <1>2, <2>2
<1>3. CASE LosesOption(args)
  BY <1>1, <1>3, BuildLoses
<1> QED
  BY <1>2, <1>3
=============================================================================
