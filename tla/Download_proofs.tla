-------------------------- MODULE Download_proofs --------------------------
(***************************************************************************)
(* Download, for any number of downloads, any names the Web gives, any     *)
(* files already there and any limits: no download touches a file of       *)
(* another, and each ends leaving only what it reports, under a name the   *)
(* printer-side commands accept.                                           *)
(*                                                                         *)
(* Two ideas carry the proofs.  What the repairs of a name establish is    *)
(* Sound (no separator, no bad character, no blank at either end, not a    *)
(* device), and numbering a sound name keeps it so.  What a step needs of  *)
(* the directory is that a download owns exactly the files its variables   *)
(* name, at every label (DInv); one lemma per step shows it kept for the   *)
(* download that takes the step (Kept), and one that it is kept for the    *)
(* others, whose variables and files no step of another changes.           *)
(***************************************************************************)
EXTENDS Download, SequenceTheorems, WellFoundedInduction, TLAPS

----------------------------------------------------------------------------
(* Least and greatest elements. *)

\* A set of numbers that is not empty has a least one.
LEMMA MinExists ==
  ASSUME NEW S, S \subseteq Nat, S # {}
  PROVE  Min(S) \in S /\ \A y \in S : Min(S) <= y
<1>1. PICK x \in S : \A y \in S : ~ (<<y, x>> \in OpToRel(<, Nat))
  BY WFMin, NatLessThanWellFounded, Zenon
<1>2. \A y \in S : ~ (y < x)
  BY <1>1, Zenon DEF OpToRel
<1>3. \A y \in S : x <= y
  BY <1>2
<1>4. QED
  BY <1>3 DEF Min

\* One with a bound has a greatest one.
LEMMA MaxExists ==
  ASSUME NEW n \in Nat, NEW S, S \subseteq 0..n, S # {}
  PROVE  Max(S) \in S /\ \A y \in S : y <= Max(S)
<1> DEFINE T == {n - x : x \in S}
<1>0. \A x \in S : n - x \in Nat
  OBVIOUS
<1>1. T \subseteq Nat
  BY <1>0
<1>2. T # {}
  OBVIOUS
<1> HIDE DEF T
<1>3. Min(T) \in T /\ \A y \in T : Min(T) <= y
  BY <1>1, <1>2, MinExists
<1>4. PICK x \in S : Min(T) = n - x
  BY <1>3 DEF T
<1>5. \A y \in S : n - x <= n - y
  BY <1>3, <1>4 DEF T
<1>6. \A y \in S : x >= y
  BY <1>5
<1>7. QED
  BY <1>6 DEF Max

----------------------------------------------------------------------------
(* Names. *)

Letters == Tokens \cup {"_", "-", "step", "zip"}

Blank == {" ", "."}

\* What a name may begin with, before its extension.
Sound(s) ==
  /\ s \in Seq(Letters) /\ Len(s) > 0
  /\ s[1] \notin Blank
  /\ \A i \in 1..Len(s) : s[i] \notin {"/", "bad"}
  /\ s[1] = "dev" => Len(s) > 1 /\ s[2] # "."

\* A part of a name.
LEMMA PartOf ==
  ASSUME NEW s \in Seq(Letters), NEW m \in 1..(Len(s) + 1), NEW n \in 0..Len(s)
  PROVE  /\ SubSeq(s, m, n) \in Seq(Letters)
         /\ Len(SubSeq(s, m, n)) = IF m <= n THEN n - m + 1 ELSE 0
         /\ \A i \in 1..(n - m + 1) : SubSeq(s, m, n)[i] = s[m + i - 1]
<1>1. Len(s) \in Nat /\ \A i \in 1..Len(s) : s[i] \in Letters
  BY LenProperties, ElementOfSeq
<1>2. \A i \in m..n : s[i] \in Letters
  BY <1>1
<1>3. m \in Int /\ n \in Int
  BY <1>1
<1>4. QED
  BY <1>2, <1>3, SubSeqProperties

\* The positions of a name at which some condition holds.
LEMMA Positions ==
  ASSUME NEW s \in Seq(Letters), NEW I, I \subseteq DOMAIN s
  PROVE  /\ I \subseteq 1..Len(s) /\ Len(s) \in Nat
         /\ I # {} => Min(I) \in I /\ \A i \in I : Min(I) <= i
         /\ I # {} => Max(I) \in I /\ \A i \in I : i <= Max(I)
         /\ Max({0} \cup I) \in {0} \cup I /\ \A i \in I : i <= Max({0} \cup I)
<1>1. Len(s) \in Nat /\ \A i : i \in DOMAIN s <=> i \in 1..Len(s)
  BY LenProperties
<1>2. I \subseteq 1..Len(s) /\ I \subseteq Nat /\ I \subseteq 0..Len(s)
  BY <1>1
<1>3. {0} \cup I \subseteq 0..Len(s) /\ {0} \cup I # {}
  BY <1>1, <1>2
<1>4. Max({0} \cup I) \in {0} \cup I /\ \A i \in {0} \cup I : i <= Max({0} \cup I)
  BY <1>1, <1>3, MaxExists
<1>5. I # {} => Min(I) \in I /\ \A i \in I : Min(I) <= i
  BY <1>2, MinExists
<1>6. I # {} => Max(I) \in I /\ \A i \in I : i <= Max(I)
  BY <1>1, <1>2, MaxExists
<1>7. QED
  BY <1>1, <1>2, <1>4, <1>5, <1>6

\* Strip removes what is not part of a name at either end.
LEMMA StripFacts ==
  ASSUME NEW s \in Seq(Letters)
  PROVE  /\ Strip(s) \in Seq(Letters)
         /\ Strip(s) = s /\ s # <<>> =>
              Len(s) > 0 /\ s[1] \notin Blank
         /\ Len(s) > 0 /\ s[1] \notin Blank /\ s[Len(s)] \notin Blank => Strip(s) = s
<1> DEFINE I == {i \in DOMAIN s : s[i] \notin Blank}
           lo == Min(I)
           hi == Max(I)
<1>1. Strip(s) = IF I = {} THEN <<>> ELSE SubSeq(s, lo, hi)
  BY DEF Strip, Blank
<1>2. Len(s) \in Nat /\ \A i : i \in DOMAIN s <=> i \in 1..Len(s)
  BY LenProperties
<1>3. I \subseteq DOMAIN s
  OBVIOUS
<1>4. \A i \in 1..Len(s) : i \in I <=> s[i] \notin Blank
  BY <1>2
<1>5. /\ I \subseteq 1..Len(s)
      /\ I # {} => lo \in I /\ \A i \in I : lo <= i
      /\ I # {} => hi \in I /\ \A i \in I : i <= hi
  BY <1>3, Positions
<1> HIDE DEF I, lo, hi
<1>6. CASE I = {}
  <2>1. Strip(s) = <<>> /\ Strip(s) \in Seq(Letters)
    BY <1>1, <1>6, EmptySeq
  <2>2. ~ (Len(s) > 0 /\ s[1] \notin Blank)
    BY <1>2, <1>4, <1>6
  <2>3. QED
    BY <2>1, <2>2
<1>7. CASE I # {}
  <2>1. lo \in 1..Len(s) /\ hi \in 1..Len(s) /\ lo <= hi
    BY <1>5, <1>7
  <2>2. lo \in 1..(Len(s) + 1) /\ hi \in 0..Len(s)
    BY <1>2, <2>1
  <2>3. /\ Strip(s) \in Seq(Letters)
        /\ Len(Strip(s)) = IF lo <= hi THEN hi - lo + 1 ELSE 0
    BY <1>1, <1>7, <2>2, PartOf
  <2>4. Strip(s) = s => lo = 1
    BY <1>2, <2>1, <2>3
  <2>5. lo = 1 => Len(s) > 0 /\ s[1] \notin Blank
    BY <1>2, <1>4, <1>5, <1>7, <2>1
  <2>6. ASSUME Len(s) > 0, s[1] \notin Blank, s[Len(s)] \notin Blank
        PROVE  Strip(s) = s
    <3>1. 1 \in I
      BY <1>2, <1>4, <2>6
    <3>2. Len(s) \in I
      BY <1>2, <1>4, <2>6
    <3>3. lo <= 1 /\ Len(s) <= hi
      BY <1>5, <1>7, <3>1, <3>2
    <3>4. lo = 1 /\ hi = Len(s)
      BY <1>2, <2>1, <3>3
    <3>5. QED
      BY <1>1, <1>7, <3>4, SubSeqFull
  <2>7. QED
    BY <2>3, <2>4, <2>5, <2>6
<1>8. QED
  BY <1>6, <1>7

\* Basename removes the folders.
LEMMA BasenameFacts ==
  ASSUME NEW s \in Seq(Letters)
  PROVE  /\ Basename(s) \in Seq(Letters)
         /\ Basename(s) = s <=> \A i \in 1..Len(s) : s[i] # "/"
<1> DEFINE I == {i \in DOMAIN s : s[i] = "/"}
           k == Max({0} \cup I)
<1>1. Basename(s) = SubSeq(s, k + 1, Len(s))
  BY DEF Basename
<1>2. Len(s) \in Nat /\ \A i : i \in DOMAIN s <=> i \in 1..Len(s)
  BY LenProperties
<1>3. I \subseteq DOMAIN s /\ \A i \in DOMAIN s : i \in I <=> s[i] = "/"
  OBVIOUS
<1>4. k \in {0} \cup I /\ I \subseteq 1..Len(s) /\ \A i \in I : i <= k
  BY <1>3, Positions
<1> HIDE DEF I, k
<1>5. k \in 0..Len(s)
  BY <1>2, <1>4
<1>6. /\ Basename(s) \in Seq(Letters)
      /\ Len(Basename(s)) = Len(s) - k
  <2>1. k + 1 \in 1..(Len(s) + 1) /\ Len(s) \in 0..Len(s)
    BY <1>2, <1>5
  <2>2. /\ Basename(s) \in Seq(Letters)
        /\ Len(Basename(s)) = IF k + 1 <= Len(s) THEN Len(s) - (k + 1) + 1 ELSE 0
    BY <1>1, <2>1, PartOf
  <2>3. QED
    BY <1>2, <1>5, <2>2
<1>7. Basename(s) = s => k = 0
  BY <1>2, <1>5, <1>6
<1>8. k = 0 => Basename(s) = s
  BY <1>1, SubSeqFull
<1>9. k = 0 <=> \A i \in 1..Len(s) : s[i] # "/"
  BY <1>2, <1>3, <1>4
<1>10. QED
  BY <1>6, <1>7, <1>8, <1>9

\* Truncate keeps the beginning of a name.
LEMMA TruncateType ==
  ASSUME NEW s \in Seq(Letters), NEW budget
  PROVE  Truncate(s, budget) \in Seq(Letters)
<1> DEFINE I == {n \in 1..Len(s) : Bytes(SubSeq(s, 1, n)) <= budget}
           k == Max({0} \cup I)
<1>1. Truncate(s, budget) = SubSeq(s, 1, k)
  BY DEF Truncate
<1>2. Len(s) \in Nat /\ \A i : i \in DOMAIN s <=> i \in 1..Len(s)
  BY LenProperties
<1>3. I \subseteq DOMAIN s
  BY <1>2
<1> HIDE DEF I
<1>4. k \in {0} \cup I /\ I \subseteq 1..Len(s)
  BY <1>3, Positions
<1> HIDE DEF k
<1>5. k \in 0..Len(s) /\ 1 \in 1..(Len(s) + 1)
  BY <1>2, <1>4
<1>6. QED
  BY <1>1, <1>5, PartOf

\* The extension begins at a dot, and not all before it are dots.
LEMMA ExtensionAtFacts ==
  ASSUME NEW s \in Seq(Letters)
  PROVE  /\ ExtensionAt(s) \in 0..Len(s)
         /\ ExtensionAt(s) # 0 => ExtensionAt(s) > 1 /\ s[ExtensionAt(s)] = "."
         /\ \A i \in 1..Len(s) :
              s[i] = "." /\ (\E j \in 1..(i - 1) : s[j] # ".") => i <= ExtensionAt(s)
<1> DEFINE I == {i \in DOMAIN s : s[i] = "." /\ \E j \in 1..(i - 1) : s[j] # "."}
           k == Max({0} \cup I)
<1>1. ExtensionAt(s) = k
  BY DEF ExtensionAt
<1>2. Len(s) \in Nat /\ \A i : i \in DOMAIN s <=> i \in 1..Len(s)
  BY LenProperties
<1>3. I \subseteq DOMAIN s
  OBVIOUS
<1>4. \A i \in 1..Len(s) : i \in I <=> s[i] = "." /\ \E j \in 1..(i - 1) : s[j] # "."
  BY <1>2
<1>5. k \in {0} \cup I /\ I \subseteq 1..Len(s) /\ \A i \in I : i <= k
  BY <1>3, Positions
<1> HIDE DEF I, k
<1>6. k \in 0..Len(s)
  BY <1>2, <1>5
<1>7. ASSUME k # 0 PROVE k > 1 /\ s[k] = "."
  <2>1. k \in 1..Len(s) /\ k \in I
    BY <1>5, <1>7
  <2>2. s[k] = "." /\ \E j \in 1..(k - 1) : s[j] # "."
    BY <1>4, <2>1
  <2>3. QED
    BY <1>2, <2>1, <2>2
<1>8. \A i \in 1..Len(s) : s[i] = "." /\ (\E j \in 1..(i - 1) : s[j] # ".") => i <= k
  BY <1>4, <1>5
<1>9. QED
  BY <1>1, <1>6, <1>7, <1>8

\* splitext gives two parts of the name.
LEMMA SplitType ==
  ASSUME NEW s \in Seq(Letters)
  PROVE  Stem(s) \in Seq(Letters) /\ Extension(s) \in Seq(Letters)
<1> DEFINE k == ExtensionAt(s)
<1>1. Len(s) \in Nat /\ k \in 0..Len(s)
  BY LenProperties, ExtensionAtFacts
<1>2. /\ Stem(s) = IF k = 0 THEN s ELSE SubSeq(s, 1, k - 1)
      /\ Extension(s) = IF k = 0 THEN <<>> ELSE SubSeq(s, k, Len(s))
  BY DEF Stem, Extension
<1> HIDE DEF k
<1>3. CASE k = 0
  BY <1>2, <1>3, EmptySeq
<1>4. CASE k # 0
  <2>1. /\ 1 \in 1..(Len(s) + 1) /\ k - 1 \in 0..Len(s)
        /\ k \in 1..(Len(s) + 1) /\ Len(s) \in 0..Len(s)
    BY <1>1, <1>4
  <2>2. SubSeq(s, 1, k - 1) \in Seq(Letters) /\ SubSeq(s, k, Len(s)) \in Seq(Letters)
    BY <2>1, PartOf
  <2>3. QED
    BY <1>2, <1>4, <2>2
<1>5. QED
  BY <1>3, <1>4

\* What is left of a sound name without its extension is sound.
LEMMA StemSound ==
  ASSUME NEW s, Sound(s)
  PROVE  Sound(Stem(s))
<1> DEFINE k == ExtensionAt(s)
<1>0. s \in Seq(Letters)
  BY DEF Sound
<1>1. /\ Len(s) \in Nat /\ k \in 0..Len(s)
      /\ k # 0 => k > 1 /\ s[k] = "."
  BY <1>0, LenProperties, ExtensionAtFacts
<1>2. Stem(s) = IF k = 0 THEN s ELSE SubSeq(s, 1, k - 1)
  BY DEF Stem
<1> HIDE DEF k
<1>3. CASE k = 0
  BY <1>2, <1>3
<1>4. CASE k # 0
  <2>1. 1 \in 1..(Len(s) + 1) /\ k - 1 \in 0..Len(s) /\ 1 <= k - 1
    BY <1>1, <1>4
  <2>2. /\ Stem(s) \in Seq(Letters)
        /\ Len(Stem(s)) = IF 1 <= k - 1 THEN (k - 1) - 1 + 1 ELSE 0
        /\ \A i \in 1..((k - 1) - 1 + 1) : Stem(s)[i] = s[1 + i - 1]
    BY <1>0, <1>2, <1>4, <2>1, PartOf
  <2>3. Len(Stem(s)) = k - 1 /\ \A i \in 1..(k - 1) : Stem(s)[i] = s[i] /\ i \in 1..Len(s)
    BY <1>1, <1>4, <2>1, <2>2
  <2>4. s[1] = "dev" => k > 2
    BY <1>1, <1>4 DEF Sound
  <2>5. \A i \in 1..(k - 1) : Stem(s)[i] \notin {"/", "bad"}
    BY <2>3 DEF Sound
  <2>6. Stem(s)[1] \notin Blank
    BY <1>1, <2>1, <2>3 DEF Sound
  <2>7. Stem(s)[1] = "dev" => Len(Stem(s)) > 1 /\ Stem(s)[2] # "."
    BY <1>1, <2>1, <2>3, <2>4 DEF Sound
  <2>8. QED
    BY <1>1, <2>1, <2>2, <2>3, <2>5, <2>6, <2>7 DEF Sound
<1>5. QED
  BY <1>3, <1>4

\* A sound name with an extension: splitext finds that extension.
LEMMA SplitExtension ==
  ASSUME NEW s, Sound(s), NEW e \in AllExtensions
  PROVE  /\ s \o <<".", e>> \in Seq(Letters)
         /\ Stem(s \o <<".", e>>) = s
         /\ Extension(s \o <<".", e>>) = <<".", e>>
<1> DEFINE f == s \o <<".", e>>
           k == ExtensionAt(f)
<1>1. s \in Seq(Letters) /\ Len(s) \in Nat /\ Len(s) > 0 /\ s[1] \notin Blank
  BY LenProperties DEF Sound
<1>2. <<".", e>> \in Seq(Letters) /\ Len(<<".", e>>) = 2 /\ e # "."
  <2>1. e \in Letters /\ e # "." /\ "." \in Letters
    BY DEF Letters, Tokens, AllExtensions, Extensions
  <2>2. QED
    BY <2>1
<1>3. s[1] # "."
  BY <1>1 DEF Blank
<1>4. /\ f \in Seq(Letters)
      /\ Len(f) = Len(s) + 2
      /\ \A i \in 1..(Len(s) + 2) : f[i] = IF i <= Len(s) THEN s[i] ELSE <<".", e>>[i - Len(s)]
  BY <1>1, <1>2, ConcatProperties
<1>5. f[1] = s[1] /\ f[Len(s) + 1] = "." /\ f[Len(s) + 2] = e
  BY <1>1, <1>4
<1>6. /\ k \in 0..Len(f)
      /\ k # 0 => f[k] = "."
      /\ \A i \in 1..Len(f) : f[i] = "." /\ (\E j \in 1..(i - 1) : f[j] # ".") => i <= k
  BY <1>4, ExtensionAtFacts
<1>7. /\ Stem(f) = IF k = 0 THEN f ELSE SubSeq(f, 1, k - 1)
      /\ Extension(f) = IF k = 0 THEN <<>> ELSE SubSeq(f, k, Len(f))
  BY DEF Stem, Extension
<1>8. SubSeq(f, 1, Len(s)) = s /\ SubSeq(f, Len(s) + 1, Len(s) + 2) = <<".", e>>
  <2>1. 1 \in 1..Len(s) /\ Len(s) \in 1..Len(s)
    BY <1>1
  <2>2. SubSeq(f, 1, Len(s)) = s
    BY <1>1, <1>2, <2>1, SubSeqOfConcat1, SubSeqFull
  <2>3. /\ Len(s) + 1 \in (Len(s) + 1)..(Len(s) + 2)
        /\ Len(s) + 2 \in (Len(s) + 1)..(Len(s) + 2)
    BY <1>1
  <2>4. SubSeq(f, Len(s) + 1, Len(s) + 2)
          = SubSeq(<<".", e>>, Len(s) + 1 - Len(s), Len(s) + 2 - Len(s))
    BY <1>1, <1>2, <2>3, SubSeqOfConcat2
  <2>5. Len(s) + 1 - Len(s) = 1 /\ Len(s) + 2 - Len(s) = Len(<<".", e>>)
    BY <1>1, <1>2
  <2>6. SubSeq(f, Len(s) + 1, Len(s) + 2) = <<".", e>>
    BY <1>2, <2>4, <2>5, SubSeqFull
  <2>7. QED
    BY <2>2, <2>6
<1> HIDE DEF f, k
<1>9. Len(s) + 1 <= k
  BY <1>1, <1>3, <1>4, <1>5, <1>6
<1>10. k = Len(s) + 1
  BY <1>1, <1>2, <1>4, <1>5, <1>6, <1>9
<1>11. Stem(f) = s /\ Extension(f) = <<".", e>>
  BY <1>1, <1>4, <1>7, <1>8, <1>10
<1>12. QED
  BY <1>4, <1>11 DEF f

\* Nothing but sound letters, then an extension: a portable name.
LEMMA EndsPortable ==
  ASSUME NEW s, Sound(s), NEW e \in AllExtensions,
         NEW mid \in Seq(Letters), \A i \in 1..Len(mid) : mid[i] = "-"
  PROVE  /\ (s \o mid) \o <<".", e>> \in Seq(Letters)
         /\ Portable((s \o mid) \o <<".", e>>)
<1> DEFINE t == s \o mid
           f == t \o <<".", e>>
<1>1. /\ s \in Seq(Letters) /\ Len(s) \in Nat /\ Len(s) > 0 /\ s[1] \notin Blank
      /\ \A i \in 1..Len(s) : s[i] \notin {"/", "bad"}
      /\ s[1] = "dev" => Len(s) > 1 /\ s[2] # "."
      /\ Len(mid) \in Nat
  BY LenProperties DEF Sound
<1>2. <<".", e>> \in Seq(Letters) /\ Len(<<".", e>>) = 2
  <2>1. e \in Letters /\ "." \in Letters
    BY DEF Letters, Tokens, AllExtensions, Extensions
  <2>2. QED
    BY <2>1
<1>3. e \notin Blank /\ e \notin {"/", "bad"} /\ "." \notin {"/", "bad"} /\ "-" \notin {"/", "bad"}
  BY DEF Blank, AllExtensions, Extensions
<1>4. /\ t \in Seq(Letters)
      /\ Len(t) = Len(s) + Len(mid)
      /\ \A i \in 1..(Len(s) + Len(mid)) : t[i] = IF i <= Len(s) THEN s[i] ELSE mid[i - Len(s)]
  BY <1>1, ConcatProperties
<1>5. /\ Len(t) >= Len(s)
      /\ \A i \in 1..Len(s) : t[i] = s[i]
      /\ \A i \in 1..Len(t) : t[i] \notin {"/", "bad"}
  <2>1. \A i \in 1..Len(s) : t[i] = s[i] /\ t[i] \notin {"/", "bad"}
    BY <1>1, <1>4
  <2>2. \A i \in (Len(s) + 1)..(Len(s) + Len(mid)) : t[i] \notin {"/", "bad"}
    BY <1>1, <1>3, <1>4
  <2>3. QED
    BY <1>1, <1>4, <2>1, <2>2
<1> HIDE DEF t
<1>6. /\ f \in Seq(Letters)
      /\ Len(f) = Len(t) + 2
      /\ \A i \in 1..(Len(t) + 2) : f[i] = IF i <= Len(t) THEN t[i] ELSE <<".", e>>[i - Len(t)]
  BY <1>2, <1>4, ConcatProperties
<1>7. /\ \A i \in 1..Len(t) : f[i] = t[i]
      /\ f[Len(t) + 1] = "." /\ f[Len(t) + 2] = e
  BY <1>1, <1>4, <1>6
<1> HIDE DEF f
<1>8. Len(t) \in Nat /\ Len(t) > 0 /\ Len(f) \in Nat
  BY <1>1, <1>4, <1>5, <1>6
<1>9. f[1] = s[1] /\ (Len(s) > 1 => f[2] = s[2])
  BY <1>1, <1>4, <1>5, <1>7
<1>10. \A i \in 1..Len(f) : f[i] \notin {"/", "bad"}
  BY <1>3, <1>5, <1>6, <1>7, <1>8
<1>11. Basename(f) = f
  <2>1. \A i \in 1..Len(f) : f[i] # "/"
    BY <1>10
  <2>2. QED
    BY <1>6, <2>1, BasenameFacts
<1>12. Strip(f) = f
  <2>1. Len(f) > 0 /\ f[1] \notin Blank /\ f[Len(f)] \notin Blank
    BY <1>1, <1>3, <1>6, <1>7, <1>8, <1>9
  <2>2. QED
    BY <1>6, <2>1, StripFacts
<1>13. ~IsDevice(f)
  <2>1. "dev" # "."
    OBVIOUS
  <2>2. f[1] = "dev" => f[2] # "." /\ Len(f) # 1
    BY <1>1, <1>6, <1>8, <1>9
  <2>3. QED
    BY <2>2 DEF IsDevice
<1>14. f \notin {<<>>, <<".">>, <<".", ".">>}
  <2>1. f # <<>>
    BY <1>6, <1>8
  <2>2. f[1] # "."
    BY <1>1, <1>9 DEF Blank
  <2>3. QED
    BY <2>1, <2>2
<1>15. \A i \in DOMAIN f : f[i] # "bad"
  BY <1>6, <1>10, LenProperties
<1>16. QED
  BY <1>6, <1>11, <1>12, <1>13, <1>14, <1>15 DEF Portable, f, t

\* Sequences, built letter by letter.
LEMMA OneLetter ==
  ASSUME NEW S, NEW e \in S
  PROVE  <<e>> \in Seq(S)
OBVIOUS

\* A function on 1..k is a sequence.
LEMMA FunctionIsSeq ==
  ASSUME NEW S, NEW k \in Nat, NEW f \in [1..k -> S]
  PROVE  f \in Seq(S)
OBVIOUS

\* A portable name is a sound beginning.
LEMMA PortableSound ==
  ASSUME NEW s \in Seq(Letters), Portable(s)
  PROVE  Sound(s)
<1>1. /\ s # <<>> /\ Basename(s) = s /\ Strip(s) = s
      /\ \A i \in DOMAIN s : s[i] # "bad"
      /\ ~ (Len(s) > 0 /\ s[1] = "dev" /\ (Len(s) = 1 \/ s[2] = "."))
  BY DEF Portable, IsDevice
<1>2. Len(s) > 0 /\ s[1] \notin Blank /\ Len(s) \in Nat
  BY <1>1, StripFacts, LenProperties
<1>3. \A i \in 1..Len(s) : s[i] # "/"
  BY <1>1, BasenameFacts
<1>4. \A i \in 1..Len(s) : s[i] # "bad"
  BY <1>1, LenProperties
<1>5. s[1] = "dev" => Len(s) > 1 /\ s[2] # "."
  <2>1. s[1] = "dev" => Len(s) # 1 /\ s[2] # "."
    BY <1>1, <1>2, Zenon
  <2>2. Len(s) > 0 /\ Len(s) \in Nat
    BY <1>2
  <2>3. Len(s) # 1 => Len(s) > 1
    BY <2>2
  <2>4. QED
    BY <2>1, <2>3
<1>6. QED
  BY <1>2, <1>3, <1>4, <1>5 DEF Sound

\* Shorten keeps to the letters.
LEMMA ShortenType ==
  ASSUME NEW s \in Seq(Letters)
  PROVE  Shorten(s) \in Seq(Letters)
<1>1. PICK a, b : Shorten(s) = Truncate(Stem(s), a) \o Truncate(Extension(s), b)
  BY DEF Shorten
<1>2. Truncate(Stem(s), a) \in Seq(Letters) /\ Truncate(Extension(s), b) \in Seq(Letters)
  BY SplitType, TruncateType
<1>3. QED
  BY <1>1, <1>2, ConcatProperties

\* Whatever name comes in, sanitize gives a portable one.
LEMMA SanitizeSound ==
  ASSUME NEW raw \in Seq(Tokens)
  PROVE  Sound(Sanitize(raw))
<1> DEFINE base == Basename(raw)
           mapped == [i \in DOMAIN base |-> IF base[i] = "bad" THEN "_" ELSE base[i]]
           clean == Cleaned(raw)
           name == Undeviced(clean)
           short == Strip(IF Bytes(name) > Budget THEN Shorten(name) ELSE name)
<1>1. Tokens \subseteq Letters /\ "_" \in Letters
  BY DEF Letters
<1>2. raw \in Seq(Letters)
  BY <1>1, SeqMonotonic
<1>3. base \in Seq(Letters)
  BY <1>2, BasenameFacts
<1>4. clean = Strip(mapped)
  BY DEF Cleaned
<1> HIDE DEF base
<1>5. DOMAIN base = 1..Len(base) /\ Len(base) \in Nat /\ \A i \in 1..Len(base) : base[i] \in Letters
  BY <1>3, LenProperties, ElementOfSeq
<1>6. mapped \in [1..Len(base) -> Letters]
  BY <1>1, <1>5
<1>7. mapped \in Seq(Letters)
  <2>1. PICK k \in Nat : mapped \in [1..k -> Letters]
    BY <1>5, <1>6
  <2>2. QED
    BY <2>1, FunctionIsSeq, Zenon
<1> HIDE DEF mapped
<1>8. clean \in Seq(Letters)
  BY <1>4, <1>7, StripFacts
<1> HIDE DEF clean
<1>9. name \in Seq(Letters)
  <2>1. <<"_">> \in Seq(Letters)
    <3>1. "_" \in Letters
      BY <1>1
    <3>2. QED
      BY <3>1, OneLetter, Zenon
  <2>2. <<"_">> \o clean \in Seq(Letters)
    BY <1>8, <2>1, ConcatProperties
  <2>3. QED
    BY <1>8, <2>2 DEF Undeviced
<1> HIDE DEF name
<1>10. short \in Seq(Letters)
  BY <1>9, ShortenType, StripFacts
<1>11. Sanitize(raw) = IF clean = <<>> THEN Fallback
                      ELSE IF SafeRemoteName(short) THEN short ELSE Fallback
  BY DEF Sanitize, clean, name
<1> HIDE DEF short
<1>12. Sound(Fallback)
  <2>1. Fallback = <<"x", ".", "stl">>
    BY DEF Fallback
  <2>2. "x" \in Letters /\ "." \in Letters /\ "stl" \in Letters
    BY DEF Letters, Tokens
  <2>3. "x" \notin Blank
    BY DEF Blank
  <2>4. Fallback \in Seq(Letters) /\ Len(Fallback) = 3
    BY <2>1, <2>2
  <2>5. \A i \in 1..3 : Fallback[i] \notin {"/", "bad"}
    BY <2>1
  <2>6. QED
    BY <2>1, <2>3, <2>4, <2>5 DEF Sound
<1>13. SafeRemoteName(short) => Sound(short)
  BY <1>10, PortableSound DEF SafeRemoteName
<1>14. QED
  BY <1>11, <1>12, <1>13

\* The names a file may be given: portable, and none of a temporary file.
LEMMA SpellingsFacts ==
  ASSUME NEW raw \in Seq(Tokens), NEW e \in AllExtensions, NEW n \in 0..MaxSuffix
  PROVE  /\ Spellings(raw)[e][n] \in Seq(Letters)
         /\ Portable(Spellings(raw)[e][n])
         /\ Spellings(raw)[e][n] # NoFile
         /\ ~IsTemp(Spellings(raw)[e][n])
<1> DEFINE clean == Sanitize(raw)
           full == WithExtension(clean, e)
           f == Spellings(raw)[e][n]
           dashes == [i \in 1..n |-> "-"]
<1>1. Sound(clean)
  BY SanitizeSound
<1>2. f = Suffixed(full, n)
  BY DEF Spellings
<1>3. PICK s : Sound(s) /\ full = s \o <<".", e>>
  BY <1>1, StemSound DEF WithExtension
<1> HIDE DEF clean, f
<1>4. /\ full \in Seq(Letters)
      /\ Stem(full) = s
      /\ Extension(full) = <<".", e>>
  BY <1>3, SplitExtension
<1> HIDE DEF full
<1>5. s \in Seq(Letters)
  BY <1>3 DEF Sound
<1>6. n \in Nat
  BY DownloadAssumption DEF DownloadAssumption
<1>7. ASSUME n = 0 PROVE f \in Seq(Letters) /\ Portable(f)
  <2>1. f = s \o <<".", e>>
    BY <1>2, <1>3, <1>7 DEF Suffixed
  <2>2. <<>> \in Seq(Letters) /\ \A i \in 1..Len(<<>>) : <<>>[i] = "-"
    OBVIOUS
  <2>3. s \o <<>> = s
    BY <1>5, ConcatEmptySeq
  <2>4. (s \o <<>>) \o <<".", e>> \in Seq(Letters) /\ Portable((s \o <<>>) \o <<".", e>>)
    BY <1>3, <2>2, EndsPortable
  <2>5. QED
    BY <2>1, <2>3, <2>4
<1>8. ASSUME n # 0 PROVE f \in Seq(Letters) /\ Portable(f)
  <2>1. f = s \o dashes \o <<".", e>>
    BY <1>2, <1>4, <1>8 DEF Suffixed
  <2>2. "-" \in Letters
    BY DEF Letters
  <2>3. dashes \in [1..n -> Letters]
    BY <2>2
  <2>4. dashes \in Seq(Letters) /\ Len(dashes) = n
    BY <1>6, <2>3, IsASeq, LenProperties
  <2>5. \A i \in 1..n : dashes[i] = "-"
    OBVIOUS
  <2> HIDE DEF dashes
  <2>6. \A i \in 1..Len(dashes) : dashes[i] = "-"
    BY <2>4, <2>5
  <2>7. QED
    BY <1>3, <2>1, <2>4, <2>6, EndsPortable
<1>9. f \in Seq(Letters) /\ Portable(f)
  BY <1>7, <1>8
<1>10. f # <<>> /\ Sound(f)
  BY <1>9, PortableSound DEF Portable
<1>11. f[1] \in Letters
  BY <1>9, <1>10, EmptySeq, ElementOfSeq DEF Sound
<1>12. "tmp" \notin Letters
  BY DEF Letters, Tokens
<1>13. ~IsTemp(f)
  BY <1>11, <1>12 DEF IsTemp
<1>14. QED
  BY <1>9, <1>10, <1>13 DEF f, NoFile

----------------------------------------------------------------------------
(* The inductive invariant.                                                 *)
(*                                                                          *)
(* At every label, a download owns exactly the files its variables name:    *)
(* what it reserved, the file the bytes go to, and, while an archive is     *)
(* opened, the member's.  So the exits, which remove what the variables     *)
(* name, leave nothing; and no file of another is ever touched.             *)

NamesOf(p) == {names[p][ext][n] : ext \in AllExtensions, n \in 0..MaxSuffix}

\* d has exactly the files S of p.
Owns(d, p, S) ==
  /\ S \subseteq DOMAIN d
  /\ \A f \in DOMAIN d : d[f].by = p <=> f \in S

\* What may be in the directory: a temporary file belongs to its maker.
FileOK(f, p) == f # NoFile /\ (IsTemp(f) => f[2] = p)

DirOK(d) ==
  \A f \in DOMAIN d :
    /\ d[f].by \in Procs \cup {"user"} /\ d[f].is \in {"empty", "cut", "whole"}
    /\ FileOK(f, d[f].by)

Looking == {"open", "moved", "type", "named", "partial"}
Filling == {"transfer", "place"}
Opening == {"extract", "inflate", "sort"}

\* How far the bytes got that are in a file.
Ample(p, f) == dir[f].is = "whole" \/ (dir[f].is = "cut" /\ ~known[p])

Started(p) ==
  pc[p] = "start" => ~archive[p] /\ reserved[p] = {} /\ partial[p] = NoFile /\ Owns(dir, p, {})

Named(p) ==
  pc[p] \in {"begin", "page"} =>
    partial[p] = NoFile /\ Owns(dir, p, reserved[p]) /\ (pc[p] = "begin" => ~archive[p])

Looked(p) ==
  pc[p] \in Looking =>
    IF archive[p] THEN reserved[p] = {} /\ partial[p] = Temp(p, "zip") /\ Owns(dir, p, {partial[p]})
    ELSE /\ out[p] \in NamesOf(p) /\ reserved[p] = {out[p]} /\ partial[p] = NoFile
         /\ Owns(dir, p, {out[p]})

Filled(p) ==
  pc[p] \in Filling =>
    /\ IF archive[p]
       THEN reserved[p] = {} /\ partial[p] = Temp(p, "zip") /\ Owns(dir, p, {partial[p]})
       ELSE /\ out[p] \in NamesOf(p) /\ reserved[p] = {out[p]} /\ partial[p] = Temp(p, "part")
            /\ Owns(dir, p, {out[p], partial[p]})
    /\ pc[p] = "place" => Ample(p, partial[p])

Opened(p) ==
  pc[p] \in Opening =>
    /\ archive[p] /\ reserved[p] = {} /\ partial[p] = Temp(p, "zip") /\ Ample(p, partial[p])
    /\ pc[p] = "extract" => Owns(dir, p, {partial[p]})
    /\ pc[p] # "extract" => target[p] \in NamesOf(p)
    /\ pc[p] = "inflate" => Owns(dir, p, {partial[p], target[p], Member(p)})
    /\ pc[p] = "sort" => Owns(dir, p, {partial[p], target[p]}) /\ dir[target[p]].is = "whole"

Delivered(p) == IF archive[p] THEN target[p] ELSE out[p]

Ended(p) ==
  pc[p] = "over" =>
    /\ reserved[p] = {} /\ partial[p] = NoFile
    /\ ~strayed[p] => \A f \in DOMAIN dir : dir[f].by = p => dir[f].is # "empty" /\ ~IsTemp(f)
    /\ outcome[p] = "ok" =>
         /\ Delivered(p) \in NamesOf(p) /\ Delivered(p) \in DOMAIN dir
         /\ dir[Delivered(p)].by = p /\ Ample(p, Delivered(p))

Counted(p) ==
  /\ pc[p] \in {"start", "begin", "page", "over"} \cup Looking \cup Filling \cup Opening
  /\ pass[p] \in 1..(MaxPasses + 1) /\ tries[p] \in 0..MaxRetries
  /\ pass[p] > MaxPasses => pc[p] = "begin"
  /\ outcome[p] \in {"none", "ok", "failed"}
  /\ pc[p] = "over" <=> outcome[p] # "none"

Local(p) ==
  /\ Counted(p) /\ Started(p) /\ Named(p) /\ Looked(p) /\ Filled(p) /\ Opened(p) /\ Ended(p)

Table(f) == DOMAIN f = Procs

Tables ==
  /\ Table(pc) /\ Table(pass) /\ Table(tries) /\ Table(resolved) /\ Table(archive)
  /\ Table(out) /\ Table(partial) /\ Table(reserved) /\ Table(known) /\ Table(target)
  /\ Table(strayed) /\ Table(outcome)

NamesInv == names \in [Procs -> {Spellings(raw) : raw \in RawNames}]

DInv == NamesInv /\ Tables /\ DirOK(dir) /\ \A p \in Procs : Local(p)

----------------------------------------------------------------------------
(* The directory. *)

\* Between d and e nothing changed but files of p.
SameElse(d, e, p) ==
  /\ \A f \in DOMAIN d : d[f].by # p => f \in DOMAIN e /\ e[f] = d[f]
  /\ \A f \in DOMAIN e : e[f].by # p => f \in DOMAIN d /\ e[f] = d[f]

\* Sparing what other processes own is transitive.
LEMMA SameElseTrans ==
  ASSUME NEW d, NEW e, NEW g, NEW p, SameElse(d, e, p), SameElse(e, g, p)
  PROVE  SameElse(d, g, p)
BY DEF SameElse

\* Another process keeps what it has.
LEMMA SameElseOwns ==
  ASSUME NEW d, NEW e, NEW p, NEW q, p # q, SameElse(d, e, p), NEW S, Owns(d, q, S)
  PROVE  Owns(e, q, S) /\ \A f \in S : e[f] = d[f]
BY DEF SameElse, Owns

\* Removing files of its own, a process keeps the rest and spares the others.
LEMMA WithoutDir ==
  ASSUME NEW d, NEW p, NEW S, Owns(d, p, S), DirOK(d), NEW T, \A f \in T : f \in DOMAIN d => f \in S
  PROVE  /\ Owns(Without(d, T), p, S \ T)
         /\ DirOK(Without(d, T))
         /\ SameElse(d, Without(d, T), p)
         /\ \A f \in S \ T : Without(d, T)[f].is = d[f].is
<1> DEFINE e == Without(d, T)
<1>1. DOMAIN e = DOMAIN d \ T /\ \A f \in DOMAIN d \ T : e[f] = d[f]
  BY DEF Without, Restrict
<1> HIDE DEF e
<1>2. Owns(e, p, S \ T) /\ \A f \in S \ T : e[f].is = d[f].is
  BY <1>1 DEF Owns
<1>3. DirOK(e)
  BY <1>1 DEF DirOK
<1>4. SameElse(d, e, p)
  BY <1>1 DEF Owns, SameElse
<1>5. QED
  BY <1>2, <1>3, <1>4 DEF e

\* Writing a name that is free or its own, a process owns it and spares the others.
LEMMA WriteDir ==
  ASSUME NEW d, NEW p \in Procs, NEW S, Owns(d, p, S), DirOK(d),
         NEW f, FileOK(f, p), f \in DOMAIN d => f \in S,
         NEW how \in {"empty", "cut", "whole"}
  PROVE  /\ Owns(Write(d, p, f, how), p, S \cup {f})
         /\ DirOK(Write(d, p, f, how))
         /\ SameElse(d, Write(d, p, f, how), p)
         /\ Write(d, p, f, how)[f].is = how
         /\ \A g \in S : g # f => Write(d, p, f, how)[g].is = d[g].is
<1> DEFINE e == Write(d, p, f, how)
<1>1. /\ DOMAIN e = DOMAIN d \cup {f}
      /\ e[f] = [by |-> p, is |-> how]
      /\ \A g \in DOMAIN d : g # f => e[g] = d[g]
  BY DEF Write
<1> HIDE DEF e
<1>2. e[f].by = p /\ e[f].is = how
  BY <1>1
<1>3. Owns(e, p, S \cup {f}) /\ \A g \in S : g # f => e[g].is = d[g].is
  BY <1>1, <1>2 DEF Owns
<1>4. DirOK(e)
  BY <1>1, <1>2 DEF DirOK
<1>5. SameElse(d, e, p)
  BY <1>1, <1>2 DEF Owns, SameElse
<1>6. QED
  BY <1>1, <1>3, <1>4, <1>5 DEF e

\* Renaming to a name that is free or its own does too.
LEMMA MoveDir ==
  ASSUME NEW d, NEW p \in Procs, NEW S, Owns(d, p, S), DirOK(d),
         NEW f \in S, NEW g, g # f, FileOK(g, p), g \in DOMAIN d => g \in S
  PROVE  /\ Owns(Move(d, f, g), p, (S \ {f}) \cup {g})
         /\ DirOK(Move(d, f, g))
         /\ SameElse(d, Move(d, f, g), p)
         /\ Move(d, f, g)[g].is = d[f].is
         /\ \A h \in S \ {f} : h # g => Move(d, f, g)[h].is = d[h].is
<1> DEFINE e == Move(d, f, g)
<1>1. /\ DOMAIN e = (DOMAIN d \ {f}) \cup {g}
      /\ e[g] = d[f]
      /\ \A h \in DOMAIN d : h # f /\ h # g => e[h] = d[h]
  BY DEF Move, Without, Restrict
<1> HIDE DEF e
<1>2. f \in DOMAIN d /\ d[f].by = p
  BY DEF Owns
<1>3. Owns(e, p, (S \ {f}) \cup {g}) /\ \A h \in S \ {f} : h # g => e[h].is = d[h].is
  BY <1>1, <1>2 DEF Owns
<1>4. DirOK(e)
  BY <1>1, <1>2 DEF DirOK
<1>5. SameElse(d, e, p)
  BY <1>1, <1>2 DEF Owns, SameElse
<1>6. QED
  BY <1>1, <1>3, <1>4, <1>5 DEF e

\* Reserve creates a file that was not there, or none.
LEMMA ReserveDir ==
  ASSUME NEW d, NEW p \in Procs, NEW ext \in AllExtensions
  PROVE  LET got == Reserve(d, p, ext)
         IN  \/ got.file = NoFile /\ got.dir = d
             \/ /\ got.file \in NamesOf(p) /\ got.file \notin DOMAIN d
                /\ got.dir = Write(d, p, got.file, "empty")
<1> DEFINE free == {n \in 0..MaxSuffix : names[p][ext][n] \notin DOMAIN d}
           f == names[p][ext][Min(free)]
<1>1. Reserve(d, p, ext) = IF free = {} THEN [file |-> NoFile, dir |-> d]
                           ELSE [file |-> f, dir |-> Write(d, p, f, "empty")]
  BY DEF Reserve
<1>2. free \subseteq 0..MaxSuffix /\ free \subseteq Nat
  BY DownloadAssumption DEF DownloadAssumption
<1>3. \A n \in free : names[p][ext][n] \notin DOMAIN d
  OBVIOUS
<1> HIDE DEF free
<1>4. CASE free = {}
  BY <1>1, <1>4
<1>5. CASE free # {}
  <2>1. Min(free) \in free
    BY <1>2, <1>5, MinExists
  <2>2. f \in NamesOf(p) /\ f \notin DOMAIN d
    <3>1. Min(free) \in 0..MaxSuffix
      BY <1>2, <2>1
    <3>2. f \notin DOMAIN d
      BY <1>3, <2>1
    <3>3. f \in NamesOf(p)
      BY <3>1 DEF NamesOf
    <3>4. QED
      BY <3>2, <3>3
  <2> HIDE DEF f
  <2>3. QED
    BY <1>1, <1>5, <2>2
<1>6. QED
  BY <1>4, <1>5

\* The names of a download are portable and none of a temporary file.
LEMMA NamesFacts ==
  ASSUME NamesInv, NEW p \in Procs, NEW f \in NamesOf(p)
  PROVE  Portable(f) /\ f # NoFile /\ ~IsTemp(f) /\ FileOK(f, p)
<1>1. PICK ext \in AllExtensions, n \in 0..MaxSuffix : f = names[p][ext][n]
  BY DEF NamesOf
<1>2. PICK raw \in RawNames : names[p] = Spellings(raw)
  BY DEF NamesInv
<1>3. raw \in Seq(Tokens)
  BY DownloadAssumption DEF DownloadAssumption
<1>4. QED
  BY <1>1, <1>2, <1>3, SpellingsFacts DEF FileOK

\* Temporary files are told apart by their makers and their kinds.
LEMMA TempFacts ==
  ASSUME NEW p \in Procs, NEW kind
  PROVE  /\ IsTemp(Temp(p, kind)) /\ FileOK(Temp(p, kind), p)
         /\ Temp(p, kind) # NoFile
         /\ \A other : Temp(p, kind) = Temp(p, other) => kind = other
<1>1. \A f, a, b, c, e : f = <<a, b, c, e>> => Len(f) = 4 /\ f[1] = a /\ f[2] = b /\ f[3] = c
  OBVIOUS
<1>2. Len(Temp(p, kind)) = 4 /\ Temp(p, kind)[1] = "tmp" /\ Temp(p, kind)[2] = p
  BY <1>1 DEF Temp
<1>3. Temp(p, kind) # <<>>
  BY <1>2
<1>4. \A other : Temp(p, other)[3] = other
  BY <1>1 DEF Temp
<1>5. QED
  BY <1>2, <1>3, <1>4 DEF IsTemp, FileOK, NoFile

\* A temporary file of p that exists is one p owns.
LEMMA OwnTemp ==
  ASSUME NEW d, DirOK(d), NEW p \in Procs, NEW S, Owns(d, p, S), NEW f, IsTemp(f), f[2] = p
  PROVE  f \in DOMAIN d => f \in S
BY DEF DirOK, FileOK, Owns

----------------------------------------------------------------------------
(* A step of p keeps what holds of p, and the files of others. *)

Kept(p) == Local(p)' /\ DirOK(dir)' /\ SameElse(dir, dir', p)

\* While a download looks for its file, only that part of the invariant says anything.
LEMMA LookingIs ==
  ASSUME NEW label \in Looking
  PROVE  /\ label \notin {"start", "begin", "page", "over"}
         /\ label \notin Filling /\ label \notin Opening
BY DEF Looking, Filling, Opening

\* A failed download.
LEMMA FailedKeeps ==
  ASSUME Tables, NEW p \in Procs, Failed(p),
         strayed'[p] \/ \A f \in DOMAIN dir' : dir'[f].by = p => dir'[f].is # "empty" /\ ~IsTemp(f)
  PROVE  Local(p)'
<1>1. /\ pc'[p] = "over" /\ outcome'[p] = "failed" /\ reserved'[p] = {} /\ partial'[p] = NoFile
      /\ pass'[p] = 1 /\ tries'[p] = 0
  BY DEF Failed, Over, Tables, Table
<1>2. Counted(p)'
  BY <1>1, DownloadAssumption DEF Counted, DownloadAssumption
<1>3. Ended(p)'
  BY <1>1 DEF Ended
<1>4. QED
  BY <1>1, <1>2, <1>3 DEF Local, Started, Named, Looked, Filled, Opened, Looking, Filling, Opening

\* A failure that removes the reserved name leaves a download that ended.
LEMMA AbortKeeps ==
  ASSUME Tables, NEW p \in Procs, NEW d, SameElse(dir, d, p), NEW S, Owns(d, p, S), DirOK(d),
         S \subseteq reserved[p], \A f \in reserved[p] : f \in DOMAIN d => f \in S,
         Abort(p, d)
  PROVE  Kept(p)
<1>1. dir' = Without(d, reserved[p]) /\ Failed(p)
  BY DEF Abort
<1>2. Owns(dir', p, S \ reserved[p]) /\ DirOK(dir') /\ SameElse(d, dir', p)
  BY <1>1, WithoutDir
<1>3. SameElse(dir, dir', p)
  BY <1>2, SameElseTrans
<1>4. \A f \in DOMAIN dir' : dir'[f].by # p
  BY <1>2 DEF Owns
<1>5. Local(p)'
  BY <1>1, <1>4, FailedKeeps
<1>6. QED
  BY <1>2, <1>3, <1>5 DEF Kept, DirOK

\* A failure that removes the reserved and the partial file does too.
LEMMA RaiseKeeps ==
  ASSUME Tables, NEW p \in Procs, NEW d, SameElse(dir, d, p), NEW S, Owns(d, p, S), DirOK(d),
         \A f \in S : f \notin reserved[p] /\ f # partial[p] => d[f].is # "empty" /\ ~IsTemp(f),
         \A f \in reserved[p] : f \in DOMAIN d => f \in S, partial[p] \in DOMAIN d => partial[p] \in S,
         Raise(p, d)
  PROVE  Kept(p)
<1> DEFINE T == reserved[p] \cup {partial[p]}
<1>1. dir' = Without(d, T) /\ Failed(p)
  BY DEF Raise
<1>2. \A f \in T : f \in DOMAIN d => f \in S
  OBVIOUS
<1> HIDE DEF T
<1>3. /\ Owns(dir', p, S \ T) /\ DirOK(dir') /\ SameElse(d, dir', p)
      /\ \A f \in S \ T : dir'[f].is = d[f].is
  BY <1>1, <1>2, WithoutDir
<1>4. SameElse(dir, dir', p)
  BY <1>3, SameElseTrans
<1>5. \A f \in DOMAIN dir' : dir'[f].by = p => dir'[f].is # "empty" /\ ~IsTemp(f)
  BY <1>3 DEF Owns, T
<1>6. Local(p)'
  BY <1>1, <1>5, FailedKeeps
<1>7. QED
  BY <1>3, <1>4, <1>6 DEF Kept, DirOK

\* Bytes that are all there, or cut short where nobody could tell.
LEMMA DoneKeeps ==
  ASSUME Tables, NEW p \in Procs, Done(p), Delivered(p) \in NamesOf(p),
         DirOK(dir'), SameElse(dir, dir', p), NEW S, Owns(dir', p, S), Delivered(p) \in S,
         dir'[Delivered(p)].is = "whole" \/ (dir'[Delivered(p)].is = "cut" /\ ~known[p]),
         strayed'[p] \/ \A f \in S : dir'[f].is # "empty" /\ ~IsTemp(f)
  PROVE  Kept(p)
<1>1. /\ pc'[p] = "over" /\ outcome'[p] = "ok" /\ reserved'[p] = {} /\ partial'[p] = NoFile
      /\ pass'[p] = 1 /\ tries'[p] = 0 /\ archive' = archive /\ out' = out /\ target' = target
      /\ known' = known /\ names' = names
  BY DEF Done, Over, Tables, Table, inputs
<1>2. Counted(p)'
  BY <1>1, DownloadAssumption DEF Counted, DownloadAssumption
<1>3. Delivered(p)' = Delivered(p) /\ NamesOf(p)' = NamesOf(p)
  BY <1>1 DEF Delivered, NamesOf
<1>4. Ended(p)'
  <2>1. strayed'[p] \/ \A f \in DOMAIN dir' : dir'[f].by = p => dir'[f].is # "empty" /\ ~IsTemp(f)
    BY DEF Owns
  <2>2. Delivered(p) \in DOMAIN dir' /\ dir'[Delivered(p)].by = p
    BY DEF Owns
  <2>3. QED
    BY <1>1, <1>3, <2>1, <2>2 DEF Ended, Ample
<1>5. Local(p)'
  BY <1>1, <1>2, <1>4 DEF Local, Started, Named, Looked, Filled, Opened, Looking, Filling, Opening
<1>6. QED
  BY <1>5 DEF Kept, DirOK

\* A download that looks for its archive: a temporary file in the place of what it held.
LEMMA IntoArchiveKeeps ==
  ASSUME Tables, DirOK(dir), NEW p \in Procs, NEW label \in Looking,
         Counted(p), pass[p] <= MaxPasses, Owns(dir, p, reserved[p]),
         IntoArchive(p, dir), Goto(p, label), pass' = pass, tries' = tries, pc[p] # "over"
  PROVE  Kept(p)
<1> DEFINE f == Temp(p, "zip")
           d == Without(dir, reserved[p])
<1>1. /\ dir' = Write(d, p, f, "empty")
      /\ out'[p] = f /\ partial'[p] = f /\ reserved'[p] = {} /\ archive'[p]
      /\ pc'[p] = label /\ outcome' = outcome
  BY DEF IntoArchive, Goto, Tables, Table
<1>2. Owns(d, p, {}) /\ DirOK(d) /\ SameElse(dir, d, p)
  <2>1. Owns(d, p, reserved[p] \ reserved[p]) /\ DirOK(d) /\ SameElse(dir, d, p)
    BY WithoutDir
  <2>2. QED
    BY <2>1
<1>3. FileOK(f, p) /\ IsTemp(f)
  BY TempFacts
<1>4. f \in DOMAIN d => f \in {}
  BY <1>2, TempFacts, OwnTemp DEF FileOK
<1> HIDE DEF d
<1>5. Owns(dir', p, {f}) /\ DirOK(dir') /\ SameElse(d, dir', p)
  <2> DEFINE e == Write(d, p, f, "empty")
  <2>1. Owns(d, p, {}) /\ DirOK(d) /\ FileOK(f, p) /\ (f \in DOMAIN d => f \in {})
    BY <1>2, <1>3, <1>4
  <2> HIDE DEF f
  <2>2. Owns(e, p, {} \cup {f}) /\ DirOK(e) /\ SameElse(d, e, p)
    BY <2>1, WriteDir
  <2>3. e = dir' /\ {} \cup {f} = {f}
    BY <1>1
  <2>4. QED
    BY <2>2, <2>3
<1>6. SameElse(dir, dir', p)
  BY <1>2, <1>5, SameElseTrans
<1>7. Temp(p, "zip")' = f
  BY DEF Temp
<1> HIDE DEF f
<1>8. Looked(p)'
  BY <1>1, <1>5, <1>7 DEF Looked
<1>9. Counted(p)'
  <2>1. label \notin {"start", "begin", "page", "over"}
    BY LookingIs
  <2>2. outcome[p] = "none"
    BY DEF Counted
  <2>3. outcome'[p] = "none" /\ pc'[p] = label /\ label \in Looking
    BY <1>1, <2>2
  <2>4. pass'[p] \in 1..(MaxPasses + 1) /\ tries'[p] \in 0..MaxRetries /\ ~(pass'[p] > MaxPasses)
    BY <1>1, DownloadAssumption DEF Counted, DownloadAssumption
  <2>5. QED
    BY <2>1, <2>3, <2>4 DEF Counted
<1>10. Local(p)'
  BY <1>1, <1>8, <1>9, LookingIs DEF Local, Started, Named, Filled, Opened, Ended
<1>11. QED
  BY <1>5, <1>6, <1>10 DEF Kept, DirOK

\* A download that looks for its file: the reservation moves to another name.
LEMMA RetargetKeeps ==
  ASSUME NamesInv, Tables, DirOK(dir), NEW p \in Procs, NEW label \in Looking, NEW ext \in Extensions,
         Counted(p), pass[p] <= MaxPasses, Owns(dir, p, reserved[p]), partial[p] = NoFile, ~archive[p],
         Retarget(p, dir, ext, label), pc[p] # "over"
  PROVE  Kept(p)
<1> DEFINE d == Without(dir, reserved[p])
           got == Reserve(d, p, ext)
<1>1. Owns(d, p, {}) /\ DirOK(d) /\ SameElse(dir, d, p)
  <2>1. Owns(d, p, reserved[p] \ reserved[p]) /\ DirOK(d) /\ SameElse(dir, d, p)
    BY WithoutDir
  <2>2. QED
    BY <2>1
<1>2. \/ got.file = NoFile /\ got.dir = d
      \/ /\ got.file \in NamesOf(p) /\ got.file \notin DOMAIN d
         /\ got.dir = Write(d, p, got.file, "empty")
  BY ReserveDir DEF AllExtensions
<1>3. CASE got.file = NoFile
  <2>1. Raise(p, dir)
    BY <1>3 DEF Retarget
  <2>2. SameElse(dir, dir, p)
    BY DEF SameElse
  <2>3. NoFile \notin DOMAIN dir
    BY DEF DirOK, FileOK
  <2>4. QED
    BY <2>1, <2>2, <2>3, RaiseKeeps
<1>4. CASE got.file # NoFile
  <2> DEFINE f == got.file
  <2>1. /\ dir' = got.dir /\ out' = [out EXCEPT ![p] = f]
        /\ reserved' = [reserved EXCEPT ![p] = {f}] /\ Goto(p, label)
        /\ UNCHANGED <<pass, tries, resolved, archive, partial, known, target>>
    BY <1>4 DEF Retarget
  <2>2. f \in NamesOf(p) /\ f \notin DOMAIN d /\ dir' = Write(d, p, f, "empty")
    BY <1>2, <1>4, <2>1
  <2> HIDE DEF f, d, got
  <2>3. /\ out'[p] = f /\ reserved'[p] = {f} /\ pc'[p] = label /\ outcome' = outcome
        /\ pass' = pass /\ tries' = tries /\ archive' = archive /\ partial' = partial /\ names' = names
    BY <2>1 DEF Goto, Tables, Table, inputs
  <2>4. Owns(dir', p, {f}) /\ DirOK(dir') /\ SameElse(d, dir', p)
    <3>1. Owns(dir', p, {} \cup {f}) /\ DirOK(dir') /\ SameElse(d, dir', p)
      BY <1>1, <2>2, NamesFacts, WriteDir
    <3>2. QED
      BY <3>1
  <2>5. SameElse(dir, dir', p)
    BY <1>1, <2>4, SameElseTrans
  <2>6. NamesOf(p)' = NamesOf(p)
    BY <2>3 DEF NamesOf
  <2>7. Looked(p)'
    BY <2>2, <2>3, <2>4, <2>6 DEF Looked
  <2>8. Counted(p)'
    <3>1. label \notin {"start", "begin", "page", "over"}
      BY LookingIs
    <3>2. outcome[p] = "none"
      BY DEF Counted
    <3>3. outcome'[p] = "none" /\ pc'[p] = label /\ label \in Looking
      BY <2>3, <3>2
    <3>4. pass'[p] \in 1..(MaxPasses + 1) /\ tries'[p] \in 0..MaxRetries /\ ~(pass'[p] > MaxPasses)
      BY <2>3, DownloadAssumption DEF Counted, DownloadAssumption
    <3>5. QED
      BY <3>1, <3>3, <3>4 DEF Counted
  <2>9. Local(p)'
    BY <2>3, <2>7, <2>8, LookingIs DEF Local, Started, Named, Filled, Opened, Ended
  <2>10. QED
    BY <2>4, <2>5, <2>9 DEF Kept, DirOK
<1>5. QED
  BY <1>3, <1>4

----------------------------------------------------------------------------
(* The steps. *)

\* A step that leaves the directory alone spares everybody.
LEMMA SameElseRefl ==
  ASSUME NEW d, NEW p
  PROVE  SameElse(d, d, p)
BY DEF SameElse

\* Where a step goes, and what it never touches.
LEMMA GotoFacts ==
  ASSUME Tables, NEW p \in Procs, NEW label, Goto(p, label)
  PROVE  /\ pc'[p] = label /\ outcome' = outcome /\ strayed' = strayed
         /\ NamesOf(p)' = NamesOf(p)
BY DEF Goto, Tables, Table, inputs, NamesOf

\* A step to another label keeps the counters within their limits.
LEMMA StepCounted ==
  ASSUME Tables, NEW p \in Procs, Counted(p), pc[p] # "over",
         NEW label \in {"begin", "page"} \cup Looking \cup Filling \cup Opening, Goto(p, label),
         pass'[p] \in 1..(MaxPasses + 1), pass'[p] > MaxPasses => label = "begin",
         tries'[p] \in 0..MaxRetries
  PROVE  Counted(p)'
<1>1. pc'[p] = label /\ outcome'[p] = outcome[p]
  BY GotoFacts
<1>2. label # "over" /\ outcome[p] = "none"
  BY DEF Counted, Looking, Filling, Opening
<1>3. QED
  BY <1>1, <1>2 DEF Counted

\* Before an archive is inflated, a download owns what its variables hold.
LEMMA HeldOwned ==
  ASSUME DInv, NEW p \in Procs,
         pc[p] \in {"start", "begin", "page", "extract"} \cup Looking \cup Filling
  PROVE  Owns(dir, p, Held(p))
<1> DEFINE S == Held(p)
<1>1. Started(p) /\ Named(p) /\ Looked(p) /\ Filled(p) /\ Opened(p) /\ NamesInv
  BY DEF DInv, Local
<1>2. \A kind : Temp(p, kind) # NoFile
  BY TempFacts
<1>3. CASE pc[p] = "start"
  <2>1. S = {}
    BY <1>1, <1>3 DEF Started, Held
  <2>2. QED
    BY <1>1, <1>3, <2>1 DEF Started
<1>4. CASE pc[p] \in {"begin", "page"}
  <2>1. S = reserved[p]
    BY <1>1, <1>4 DEF Named, Held
  <2>2. QED
    BY <1>1, <1>4, <2>1 DEF Named
<1>5. CASE pc[p] \in Looking
  <2>1. archive[p] => S = {partial[p]}
    BY <1>1, <1>2, <1>5 DEF Looked, Held
  <2>2. ~archive[p] => S = {out[p]}
    BY <1>1, <1>5 DEF Looked, Held
  <2>3. QED
    BY <1>1, <1>5, <2>1, <2>2 DEF Looked
<1>6. CASE pc[p] \in Filling
  <2>1. archive[p] => S = {partial[p]}
    BY <1>1, <1>2, <1>6 DEF Filled, Held
  <2>2. ~archive[p] => S = {out[p], partial[p]}
    BY <1>1, <1>2, <1>6 DEF Filled, Held
  <2>3. QED
    BY <1>1, <1>6, <2>1, <2>2 DEF Filled
<1>7. CASE pc[p] = "extract"
  <2>1. S = {partial[p]}
    BY <1>1, <1>2, <1>7 DEF Opened, Opening, Held
  <2>2. QED
    BY <1>1, <1>7, <2>1 DEF Opened, Opening
<1>8. QED
  BY <1>3, <1>4, <1>5, <1>6, <1>7

\* So an error there leaves nothing, whether the step removed the partial file or not.
LEMMA RaiseHeld ==
  ASSUME DInv, NEW p \in Procs, Owns(dir, p, Held(p)), Raise(p, dir)
  PROVE  Kept(p)
<1>1. Tables /\ DirOK(dir) /\ SameElse(dir, dir, p)
  BY SameElseRefl DEF DInv
<1>2. NoFile \notin DOMAIN dir
  BY <1>1 DEF DirOK, FileOK
<1>3. \A f \in Held(p) : f \in reserved[p] \/ f = partial[p]
  BY DEF Held
<1>4. \A f \in reserved[p] : f \in Held(p)
  BY DEF Held
<1>5. partial[p] \in DOMAIN dir => partial[p] \in Held(p)
  BY <1>2 DEF Held
<1>6. QED
  BY <1>1, <1>3, <1>4, <1>5, RaiseKeeps

\* A failure that removed the partial file itself leaves nothing either.
LEMMA AbortHeld ==
  ASSUME DInv, NEW p \in Procs, Owns(dir, p, Held(p)), Abort(p, Without(dir, {partial[p]}))
  PROVE  Kept(p)
<1> DEFINE d == Without(dir, {partial[p]})
           S == Held(p) \ {partial[p]}
<1>1. Tables /\ DirOK(dir)
  BY DEF DInv
<1>2. NoFile \notin DOMAIN dir
  BY <1>1 DEF DirOK, FileOK
<1>3. \A f \in {partial[p]} : f \in DOMAIN dir => f \in Held(p)
  BY <1>2 DEF Held
<1>4. Owns(d, p, S) /\ DirOK(d) /\ SameElse(dir, d, p)
  BY <1>1, <1>3, WithoutDir
<1>5. S \subseteq reserved[p]
  BY DEF Held
<1>6. \A f \in reserved[p] : f \in DOMAIN d => f \in S
  <2>1. \A f \in DOMAIN d : f # partial[p]
    BY DEF Without, Restrict
  <2>2. QED
    BY <2>1 DEF Held
<1> HIDE DEF d, S
<1>7. QED
  BY <1>1, <1>4, <1>5, <1>6, AbortKeeps DEF d

\* Where no partial file exists there is none to remove.
LEMMA AbortReserved ==
  ASSUME DInv, NEW p \in Procs, Owns(dir, p, reserved[p]), Abort(p, dir)
  PROVE  Kept(p)
BY AbortKeeps, SameElseRefl DEF DInv

\* A step of the search that changes neither names nor files.
LEMMA LookOn ==
  ASSUME DInv, NEW p \in Procs, pc[p] \in Looking, NEW label \in Looking, Goto(p, label),
         UNCHANGED <<pass, archive, out, partial, reserved, dir>>, tries'[p] \in 0..MaxRetries
  PROVE  Kept(p)
<1>1. Tables /\ Counted(p) /\ Looked(p) /\ DirOK(dir)
  BY DEF DInv, Local
<1>2. pc[p] # "over" /\ pc[p] # "begin"
  BY LookingIs
<1>3. pass[p] \in 1..(MaxPasses + 1) /\ ~(pass[p] > MaxPasses)
  BY <1>1, <1>2 DEF Counted
<1>4. Counted(p)'
  BY <1>1, <1>2, <1>3, StepCounted
<1>5. pc'[p] = label /\ NamesOf(p)' = NamesOf(p) /\ Temp(p, "zip")' = Temp(p, "zip")
  BY <1>1, GotoFacts DEF Temp
<1>6. Looked(p)'
  BY <1>1, <1>5 DEF Looked
<1>7. Local(p)'
  BY <1>4, <1>5, <1>6, LookingIs DEF Local, Started, Named, Filled, Opened, Ended
<1>8. QED
  BY <1>1, <1>7, SameElseRefl DEF Kept, DirOK

\* The URL and the output directory are accepted, or the download ends.
LEMMA StartKeeps ==
  ASSUME DInv, NEW p \in Procs, Start(p)
  PROVE  Kept(p)
<1>1. /\ Tables /\ Counted(p) /\ Started(p) /\ DirOK(dir) /\ pc[p] = "start"
      /\ ~archive[p] /\ reserved[p] = {} /\ partial[p] = NoFile /\ Owns(dir, p, {})
  BY DEF DInv, Local, Start, Started
<1>2. CASE Goto(p, "begin") /\ UNCHANGED <<pass, tries, archive, out, partial, reserved, known, target, dir>>
  <2>1. pass[p] \in 1..(MaxPasses + 1) /\ tries[p] \in 0..MaxRetries
    BY <1>1 DEF Counted
  <2>2. Counted(p)'
    BY <1>1, <1>2, <2>1, StepCounted
  <2>3. pc'[p] = "begin"
    BY <1>1, <1>2, GotoFacts
  <2>4. Named(p)'
    BY <1>1, <1>2 DEF Named
  <2>5. Local(p)'
    BY <2>2, <2>3, <2>4
    DEF Local, Started, Looked, Filled, Opened, Ended, Looking, Filling, Opening
  <2>6. QED
    BY <1>1, <1>2, <2>5, SameElseRefl DEF Kept, DirOK
<1>3. CASE Abort(p, dir)
  BY <1>1, <1>3, AbortReserved
<1>4. QED
  BY <1>2, <1>3 DEF Start

\* A pass makes its archive file or reserves its name.
LEMMA BeginKeeps ==
  ASSUME DInv, NEW p \in Procs, Begin(p)
  PROVE  Kept(p)
<1>1. /\ Tables /\ NamesInv /\ Counted(p) /\ DirOK(dir) /\ pc[p] = "begin"
      /\ ~archive[p] /\ partial[p] = NoFile /\ Owns(dir, p, reserved[p])
  BY DEF DInv, Local, Begin, Named
<1>2. "open" \in Looking
  BY DEF Looking
<1>3. CASE pass[p] > MaxPasses
  BY <1>1, <1>3, AbortReserved DEF Begin
<1>4. CASE ~(pass[p] > MaxPasses)
  <2>1. pass[p] <= MaxPasses
    BY <1>1, <1>4, DownloadAssumption DEF Counted, DownloadAssumption
  <2>2. CASE IntoArchive(p, dir) /\ Goto(p, "open") /\ UNCHANGED <<pass, tries, resolved, known, target>>
    BY <1>1, <1>2, <2>1, <2>2, IntoArchiveKeeps
  <2>3. CASE \E ext \in Extensions : Retarget(p, dir, ext, "open")
    BY <1>1, <1>2, <2>1, <2>3, RetargetKeeps
  <2>4. QED
    BY <1>4, <2>2, <2>3 DEF Begin
<1>5. QED
  BY <1>3, <1>4

\* What a download knows while it looks for its file.
LEMMA LookingFacts ==
  ASSUME DInv, NEW p \in Procs, pc[p] \in Looking
  PROVE  /\ Tables /\ NamesInv /\ DirOK(dir) /\ Counted(p) /\ Looked(p)
         /\ pc[p] # "over" /\ pass[p] <= MaxPasses /\ tries[p] \in 0..MaxRetries
         /\ Owns(dir, p, Held(p))
         /\ ~archive[p] => partial[p] = NoFile /\ Owns(dir, p, reserved[p])
<1>1. Tables /\ NamesInv /\ DirOK(dir) /\ Counted(p) /\ Looked(p)
  BY DEF DInv, Local
<1>2. pc[p] # "over" /\ pc[p] # "begin"
  BY LookingIs
<1>3. pass[p] <= MaxPasses /\ tries[p] \in 0..MaxRetries
  BY <1>1, <1>2, DownloadAssumption DEF Counted, DownloadAssumption
<1>4. ~archive[p] => partial[p] = NoFile /\ Owns(dir, p, reserved[p])
  BY <1>1 DEF Looked
<1>5. QED
  BY <1>1, <1>2, <1>3, <1>4, HeldOwned

\* The request is answered, repeated, or given up.
LEMMA OpenKeeps ==
  ASSUME DInv, NEW p \in Procs, Open(p)
  PROVE  Kept(p)
<1>1. pc[p] \in Looking /\ "moved" \in Looking /\ "open" \in Looking
  BY DEF Open, Looking
<1>2. Tables /\ tries[p] \in 0..MaxRetries /\ Owns(dir, p, Held(p))
  BY <1>1, LookingFacts
<1>3. MaxRetries \in Nat
  BY DownloadAssumption DEF DownloadAssumption
<1>4. CASE /\ Goto(p, "moved") /\ tries' = [tries EXCEPT ![p] = 0]
           /\ UNCHANGED <<pass, resolved, archive, out, partial, reserved, known, target, dir>>
  <2>1. tries'[p] \in 0..MaxRetries
    BY <1>2, <1>3, <1>4 DEF Tables, Table
  <2>2. QED
    BY <1>1, <1>4, <2>1, LookOn
<1>5. CASE /\ tries[p] < MaxRetries
           /\ tries' = [tries EXCEPT ![p] = @ + 1] /\ Goto(p, "open")
           /\ UNCHANGED <<pass, resolved, archive, out, partial, reserved, known, target, dir>>
  <2>1. tries'[p] \in 0..MaxRetries
    BY <1>2, <1>3, <1>5 DEF Tables, Table
  <2>2. QED
    BY <1>1, <1>5, <2>1, LookOn
<1>6. CASE Raise(p, dir)
  BY <1>2, <1>6, RaiseHeld
<1>7. QED
  BY <1>4, <1>5, <1>6 DEF Open

\* A redirection may decide on the name.
LEMMA MovedKeeps ==
  ASSUME DInv, NEW p \in Procs, Moved(p)
  PROVE  Kept(p)
<1>1. pc[p] \in Looking /\ "type" \in Looking
  BY DEF Moved, Looking
<1>2. CASE /\ Goto(p, "type")
           /\ UNCHANGED <<pass, tries, resolved, archive, out, partial, reserved, known, target, dir>>
  BY <1>1, <1>2, LookingFacts, LookOn
<1>3. CASE Abort(p, Without(dir, {partial[p]}))
  BY <1>1, <1>3, LookingFacts, AbortHeld
<1>4. CASE ~archive[p] /\ \E ext \in Extensions : Retarget(p, dir, ext, "type")
  BY <1>1, <1>4, LookingFacts, RetargetKeeps
<1>5. QED
  BY <1>2, <1>3, <1>4 DEF Moved

\* The content type: a file, an archive, a page, or a refusal.
LEMMA TypeKeeps ==
  ASSUME DInv, NEW p \in Procs, Type(p)
  PROVE  Kept(p)
<1>1. pc[p] \in Looking /\ "named" \in Looking
  BY DEF Type, Looking
<1>2. CASE /\ ~archive[p] /\ IntoArchive(p, dir) /\ Goto(p, "named")
           /\ UNCHANGED <<pass, tries, resolved, known, target>>
  BY <1>1, <1>2, LookingFacts, IntoArchiveKeeps
<1>3. CASE /\ Goto(p, "named")
           /\ UNCHANGED <<pass, tries, resolved, archive, out, partial, reserved, known, target, dir>>
  BY <1>1, <1>3, LookingFacts, LookOn
<1>4. CASE ~archive[p] /\ Abort(p, dir)
  BY <1>1, <1>4, LookingFacts, AbortReserved
<1>5. CASE /\ Goto(p, "page")
           /\ dir' = Without(dir, {partial[p]}) /\ partial' = [partial EXCEPT ![p] = NoFile]
           /\ UNCHANGED <<pass, tries, resolved, archive, out, reserved, known, target>>
  <2>1. /\ Tables /\ NamesInv /\ DirOK(dir) /\ Counted(p) /\ pc[p] # "over" /\ Looked(p)
        /\ pass[p] <= MaxPasses /\ tries[p] \in 0..MaxRetries /\ Owns(dir, p, Held(p))
    BY <1>1, LookingFacts
  <2>2. NoFile \notin DOMAIN dir
    BY <2>1 DEF DirOK, FileOK
  <2>3. \A f \in {partial[p]} : f \in DOMAIN dir => f \in Held(p)
    BY <2>2 DEF Held
  <2>4. Owns(dir', p, Held(p) \ {partial[p]}) /\ DirOK(dir') /\ SameElse(dir, dir', p)
    BY <1>5, <2>1, <2>3, WithoutDir
  <2>5. Held(p) \ {partial[p]} = reserved[p]
    <3>1. partial[p] \notin reserved[p]
      BY <1>1, <2>1, NamesFacts DEF Looked
    <3>2. QED
      BY <3>1 DEF Held
  <2>6. pc'[p] = "page" /\ partial'[p] = NoFile /\ reserved' = reserved
    BY <1>5, <2>1, GotoFacts DEF Tables, Table
  <2>7. Named(p)'
    BY <2>4, <2>5, <2>6 DEF Named
  <2>8. pass[p] \in 1..(MaxPasses + 1) /\ ~(pass[p] > MaxPasses)
    BY <2>1, DownloadAssumption DEF Counted, DownloadAssumption
  <2>9. Counted(p)'
    BY <1>5, <2>1, <2>8, StepCounted
  <2>10. Local(p)'
    BY <2>6, <2>7, <2>9
    DEF Local, Started, Looked, Filled, Opened, Ended, Looking, Filling, Opening
  <2>11. QED
    BY <2>4, <2>10 DEF Kept, DirOK
<1>6. QED
  BY <1>2, <1>3, <1>4, <1>5 DEF Type

\* An HTML page names the next link, or none.
LEMMA PageKeeps ==
  ASSUME DInv, NEW p \in Procs, Page(p)
  PROVE  Kept(p)
<1>1. /\ Tables /\ Counted(p) /\ DirOK(dir) /\ pc[p] = "page"
      /\ partial[p] = NoFile /\ Owns(dir, p, reserved[p]) /\ Owns(dir, p, Held(p))
  BY HeldOwned DEF DInv, Local, Page, Named
<1>2. CASE /\ Goto(p, "begin")
           /\ pass' = [pass EXCEPT ![p] = @ + 1]
           /\ resolved' = [resolved EXCEPT ![p] = TRUE] /\ archive' = [archive EXCEPT ![p] = FALSE]
           /\ UNCHANGED <<tries, out, partial, reserved, known, target, dir>>
  <2>1. pass'[p] = pass[p] + 1 /\ ~archive'[p] /\ pc'[p] = "begin"
    BY <1>1, <1>2, GotoFacts DEF Tables, Table
  <2>2. pass'[p] \in 1..(MaxPasses + 1) /\ tries'[p] \in 0..MaxRetries
    BY <1>1, <1>2, <2>1, DownloadAssumption DEF Counted, DownloadAssumption
  <2>3. Counted(p)'
    BY <1>1, <1>2, <2>2, StepCounted
  <2>4. Named(p)'
    BY <1>1, <1>2, <2>1 DEF Named
  <2>5. Local(p)'
    BY <2>1, <2>3, <2>4
    DEF Local, Started, Looked, Filled, Opened, Ended, Looking, Filling, Opening
  <2>6. QED
    BY <1>1, <1>2, <2>5, SameElseRefl DEF Kept, DirOK
<1>3. CASE Abort(p, dir)
  BY <1>1, <1>3, AbortReserved
<1>4. CASE Raise(p, dir)
  BY <1>1, <1>4, RaiseHeld
<1>5. QED
  BY <1>2, <1>3, <1>4 DEF Page

\* The Content-Disposition header may decide on the name.
LEMMA NameFromHeaderKeeps ==
  ASSUME DInv, NEW p \in Procs, NameFromHeader(p)
  PROVE  Kept(p)
<1>1. pc[p] \in Looking /\ "partial" \in Looking
  BY DEF NameFromHeader, Looking
<1>2. CASE /\ Goto(p, "partial")
           /\ UNCHANGED <<pass, tries, resolved, archive, out, partial, reserved, known, target, dir>>
  BY <1>1, <1>2, LookingFacts, LookOn
<1>3. CASE /\ ~archive[p] /\ IntoArchive(p, dir) /\ Goto(p, "partial")
           /\ UNCHANGED <<pass, tries, resolved, known, target>>
  BY <1>1, <1>3, LookingFacts, IntoArchiveKeeps
<1>4. CASE ~archive[p] /\ Abort(p, dir)
  BY <1>1, <1>4, LookingFacts, AbortReserved
<1>5. CASE ~archive[p] /\ \E ext \in Extensions : Retarget(p, dir, ext, "partial")
  BY <1>1, <1>5, LookingFacts, RetargetKeeps
<1>6. QED
  BY <1>2, <1>3, <1>4, <1>5 DEF NameFromHeader

\* The partial file is made beside the target.
LEMMA MakePartialKeeps ==
  ASSUME DInv, NEW p \in Procs, MakePartial(p)
  PROVE  Kept(p)
<1> DEFINE f == IF archive[p] THEN partial[p] ELSE Temp(p, "part")
<1>1. pc[p] \in Looking
  BY DEF MakePartial, Looking
<1>2. /\ Tables /\ NamesInv /\ DirOK(dir) /\ Counted(p) /\ Looked(p) /\ pc[p] # "over"
      /\ pass[p] <= MaxPasses /\ tries[p] \in 0..MaxRetries /\ Owns(dir, p, Held(p))
  BY <1>1, LookingFacts
<1>3. /\ archive[p] => f = Temp(p, "zip") /\ Held(p) = {f} /\ reserved[p] = {}
      /\ ~archive[p] => /\ f = Temp(p, "part") /\ Held(p) = {out[p]} /\ reserved[p] = {out[p]}
                        /\ out[p] \in NamesOf(p)
  BY <1>1, <1>2, TempFacts DEF Looked, Held
<1>4. IsTemp(f) /\ FileOK(f, p) /\ f[2] = p
  BY <1>3, TempFacts DEF FileOK
<1>5. f \in DOMAIN dir => f \in Held(p)
  BY <1>2, <1>4, OwnTemp
<1>6. CASE /\ Goto(p, "transfer")
           /\ dir' = Write(dir, p, f, "empty") /\ partial' = [partial EXCEPT ![p] = f]
           /\ UNCHANGED <<pass, tries, resolved, archive, out, reserved, target>>
  <2> HIDE DEF f
  <2>1. Owns(dir', p, Held(p) \cup {f}) /\ DirOK(dir') /\ SameElse(dir, dir', p)
    <3> DEFINE e == Write(dir, p, f, "empty")
               S == Held(p)
    <3>1. Owns(dir, p, S) /\ DirOK(dir) /\ FileOK(f, p) /\ (f \in DOMAIN dir => f \in S)
      BY <1>2, <1>4, <1>5
    <3> HIDE DEF S
    <3>2. Owns(e, p, S \cup {f}) /\ DirOK(e) /\ SameElse(dir, e, p)
      BY <3>1, WriteDir
    <3>3. e = dir'
      BY <1>6
    <3>4. QED
      BY <3>2, <3>3 DEF S
  <2>2. partial'[p] = f /\ pc'[p] = "transfer" /\ NamesOf(p)' = NamesOf(p)
    BY <1>2, <1>6, GotoFacts DEF Tables, Table
  <2>3. archive[p] => Held(p) \cup {f} = {f}
    BY <1>3
  <2>4. ~archive[p] => Held(p) \cup {f} = {out[p], f}
    BY <1>3
  <2>5. \A kind : Temp(p, kind)' = Temp(p, kind)
    BY <1>6 DEF Temp
  <2>6. Filled(p)'
    BY <1>3, <1>6, <2>1, <2>2, <2>3, <2>4, <2>5 DEF Filled
  <2>7. pass[p] \in 1..(MaxPasses + 1) /\ ~(pass[p] > MaxPasses)
    BY <1>2, DownloadAssumption DEF Counted, DownloadAssumption
  <2>8. "transfer" \in Filling
    BY DEF Filling
  <2>9. Counted(p)'
    BY <1>2, <1>6, <2>7, <2>8, StepCounted
  <2>10. Local(p)'
    BY <2>2, <2>6, <2>9
    DEF Local, Started, Named, Looked, Opened, Ended, Looking, Filling, Opening
  <2>11. QED
    BY <2>1, <2>10 DEF Kept, DirOK
<1>7. CASE Abort(p, Without(dir, {f}))
  <2> DEFINE d == Without(dir, {f})
  <2>1. \A g \in {f} : g \in DOMAIN dir => g \in Held(p)
    BY <1>5
  <2> HIDE DEF f
  <2>2. Owns(d, p, Held(p) \ {f}) /\ DirOK(d) /\ SameElse(dir, d, p)
    BY <1>2, <2>1, WithoutDir
  <2>3. Held(p) \ {f} \subseteq reserved[p]
    BY <1>3
  <2>4. \A g \in reserved[p] : g \in DOMAIN d => g \in Held(p) \ {f}
    BY <1>3, <1>4, <1>2, NamesFacts DEF Held
  <2> HIDE DEF d
  <2>5. QED
    BY <1>2, <1>7, <2>2, <2>3, <2>4, AbortKeeps DEF d
<1>8. CASE Raise(p, dir)
  BY <1>2, <1>8, RaiseHeld
<1>9. QED
  BY <1>6, <1>7, <1>8 DEF MakePartial

\* What a download knows while the bytes come in.
LEMMA FillingFacts ==
  ASSUME DInv, NEW p \in Procs, pc[p] \in Filling
  PROVE  /\ Tables /\ NamesInv /\ DirOK(dir) /\ Counted(p) /\ Filled(p)
         /\ pc[p] # "over" /\ pass[p] \in 1..(MaxPasses + 1) /\ ~(pass[p] > MaxPasses)
         /\ tries[p] \in 0..MaxRetries
         /\ Owns(dir, p, Held(p)) /\ partial[p] \in Held(p)
         /\ IsTemp(partial[p]) /\ FileOK(partial[p], p)
<1>1. Tables /\ NamesInv /\ DirOK(dir) /\ Counted(p) /\ Filled(p)
  BY DEF DInv, Local
<1>2. pc[p] # "over" /\ pc[p] # "begin"
  BY DEF Filling
<1>3. partial[p] = Temp(p, "zip") \/ partial[p] = Temp(p, "part")
  BY <1>1 DEF Filled
<1>4. IsTemp(partial[p]) /\ FileOK(partial[p], p) /\ partial[p] # NoFile
  BY <1>3, TempFacts
<1>5. QED
  BY <1>1, <1>2, <1>4, HeldOwned DEF Counted, Held

\* The body is written whole, cut short, or refused.
LEMMA TransferKeeps ==
  ASSUME DInv, NEW p \in Procs, Transfer(p)
  PROVE  Kept(p)
<1>1. pc[p] = "transfer" /\ pc[p] \in Filling /\ "place" \in Filling
  BY DEF Transfer, Filling
<1> DEFINE f == partial[p]
<1>2. /\ Tables /\ NamesInv /\ DirOK(dir) /\ Counted(p) /\ Filled(p)
      /\ pc[p] # "over" /\ pass[p] \in 1..(MaxPasses + 1) /\ ~(pass[p] > MaxPasses)
      /\ tries[p] \in 0..MaxRetries
      /\ Owns(dir, p, Held(p)) /\ f \in Held(p)
      /\ IsTemp(f) /\ FileOK(f, p)
  BY <1>1, FillingFacts
<1>3. ASSUME NEW how \in {"whole", "cut"}, how = "cut" => ~known[p],
             dir' = Write(dir, p, f, how), Goto(p, "place"),
             UNCHANGED <<pass, tries, resolved, archive, out, partial, reserved, known, target>>
      PROVE  Kept(p)
  <2>1. /\ Owns(dir', p, Held(p) \cup {f}) /\ DirOK(dir') /\ SameElse(dir, dir', p)
        /\ dir'[f].is = how
    <3> HIDE DEF f
    <3>1. how \in {"empty", "cut", "whole"}
      OBVIOUS
    <3>2. /\ Owns(Write(dir, p, f, how), p, Held(p) \cup {f}) /\ DirOK(Write(dir, p, f, how))
          /\ SameElse(dir, Write(dir, p, f, how), p)
          /\ Write(dir, p, f, how)[f].is = how
      <4>1. Owns(dir, p, Held(p)) /\ DirOK(dir) /\ FileOK(f, p)
        BY <1>2
      <4>2. f \in DOMAIN dir => f \in Held(p)
        BY <1>2
      <4>3. QED
        BY <3>1, <4>1, <4>2, WriteDir
    <3>3. QED
      BY <1>3, <3>2
  <2>2. Held(p) \cup {f} = Held(p) /\ dir'[f].is = how
    BY <1>2, <2>1
  <2>3. pc'[p] = "place" /\ NamesOf(p)' = NamesOf(p) /\ \A kind : Temp(p, kind)' = Temp(p, kind)
    BY <1>2, <1>3, GotoFacts DEF Temp
  <2>4. Ample(p, f)'
    BY <1>3, <2>2 DEF Ample
  <2>5. archive[p] => Held(p) = {f}
    BY <1>1, <1>2, TempFacts DEF Filled, Held
  <2>6. ~archive[p] => Held(p) = {out[p], f}
    BY <1>1, <1>2, TempFacts DEF Filled, Held
  <2>7. Filled(p)'
    BY <1>1, <1>2, <1>3, <2>1, <2>2, <2>3, <2>4, <2>5, <2>6 DEF Filled
  <2>8. Counted(p)'
    BY <1>1, <1>2, <1>3, StepCounted
  <2>9. Local(p)'
    BY <2>3, <2>7, <2>8
    DEF Local, Started, Named, Looked, Opened, Ended, Looking, Filling, Opening
  <2>10. QED
    BY <2>1, <2>9 DEF Kept, DirOK
<1>4. CASE Abort(p, Without(dir, {partial[p]}))
  BY <1>2, <1>4, AbortHeld
<1>5. CASE Raise(p, dir)
  BY <1>2, <1>5, RaiseHeld
<1>6. QED
  BY <1>3, <1>4, <1>5 DEF Transfer

\* The partial file takes its final name; an archive goes on to be opened.
LEMMA PlaceKeeps ==
  ASSUME DInv, NEW p \in Procs, Place(p)
  PROVE  Kept(p)
<1>1. pc[p] = "place" /\ pc[p] \in Filling /\ "extract" \in Opening
  BY DEF Place, Filling, Opening
<1> DEFINE f == partial[p]
<1>2. /\ Tables /\ NamesInv /\ DirOK(dir) /\ Counted(p) /\ Filled(p)
      /\ pc[p] # "over" /\ pass[p] \in 1..(MaxPasses + 1) /\ ~(pass[p] > MaxPasses)
      /\ tries[p] \in 0..MaxRetries
      /\ Owns(dir, p, Held(p)) /\ f \in Held(p)
      /\ IsTemp(f) /\ FileOK(f, p)
  BY <1>1, FillingFacts
<1>3. CASE /\ archive[p] /\ Goto(p, "extract")
           /\ UNCHANGED <<pass, tries, resolved, archive, out, partial, reserved, known, target, dir>>
  <2>1. pc'[p] = "extract" /\ Temp(p, "zip")' = Temp(p, "zip")
    BY <1>2, <1>3, GotoFacts DEF Temp
  <2>2. Opened(p)'
    BY <1>1, <1>2, <1>3, <2>1 DEF Filled, Opened, Ample
  <2>3. Counted(p)'
    BY <1>1, <1>2, <1>3, StepCounted
  <2>4. Local(p)'
    BY <2>1, <2>2, <2>3
    DEF Local, Started, Named, Looked, Filled, Ended, Looking, Filling, Opening
  <2>5. QED
    BY <1>2, <1>3, <2>4, SameElseRefl DEF Kept, DirOK
<1>4. CASE ~archive[p] /\ Done(p) /\ dir' = Move(dir, f, out[p])
  <2> DEFINE g == out[p]
  <2>1. g \in NamesOf(p) /\ Ample(p, f) /\ Held(p) = {g, f}
    BY <1>1, <1>2, <1>4, TempFacts DEF Filled, Held
  <2>2. FileOK(g, p) /\ ~IsTemp(g) /\ g # f /\ g \in Held(p)
    BY <1>2, <2>1, NamesFacts
  <2>3. /\ Owns(dir', p, (Held(p) \ {f}) \cup {g}) /\ DirOK(dir') /\ SameElse(dir, dir', p)
        /\ dir'[g].is = dir[f].is
    <3> HIDE DEF f, g
    <3>1. /\ Owns(Move(dir, f, g), p, (Held(p) \ {f}) \cup {g}) /\ DirOK(Move(dir, f, g))
          /\ SameElse(dir, Move(dir, f, g), p)
          /\ Move(dir, f, g)[g].is = dir[f].is
      <4>1. Owns(dir, p, Held(p)) /\ DirOK(dir) /\ FileOK(g, p) /\ g # f /\ f \in Held(p)
        BY <1>2, <2>2
      <4>2. g \in DOMAIN dir => g \in Held(p)
        BY <2>2
      <4>3. QED
        BY <4>1, <4>2, MoveDir
    <3>2. dir' = Move(dir, f, g)
      BY <1>4 DEF g
    <3>3. QED
      BY <3>1, <3>2
  <2>4. (Held(p) \ {f}) \cup {g} = {g}
    BY <2>1, <2>2
  <2>5. Delivered(p) = g
    BY <1>4 DEF Delivered
  <2>6. dir'[g].is = "whole" \/ (dir'[g].is = "cut" /\ ~known[p])
    BY <2>1, <2>3 DEF Ample
  <2>7. \A h \in {g} : dir'[h].is # "empty" /\ ~IsTemp(h)
    BY <2>2, <2>6
  <2> HIDE DEF g
  <2>8. QED
    BY <1>2, <1>4, <2>1, <2>3, <2>4, <2>5, <2>6, <2>7, DoneKeeps
<1>5. CASE Raise(p, dir)
  BY <1>2, <1>5, RaiseHeld
<1>6. QED
  BY <1>3, <1>4, <1>5 DEF Place

\* A failure nobody handles leaves what it leaves, but only of its own.
LEMMA StrayKeeps ==
  ASSUME Tables, NEW p \in Procs, NEW d, DirOK(d), SameElse(dir, d, p), Stray(p, d)
  PROVE  Kept(p)
<1>1. Failed(p) /\ strayed'[p] /\ dir' = d
  BY DEF Stray, Tables, Table
<1>2. Local(p)'
  BY <1>1, FailedKeeps
<1>3. QED
  BY <1>1, <1>2 DEF Kept, DirOK

\* What a download knows while an archive is opened.
LEMMA OpeningFacts ==
  ASSUME DInv, NEW p \in Procs, pc[p] \in Opening
  PROVE  /\ Tables /\ NamesInv /\ DirOK(dir) /\ Counted(p) /\ Opened(p)
         /\ pc[p] # "over" /\ pass[p] \in 1..(MaxPasses + 1) /\ ~(pass[p] > MaxPasses)
         /\ tries[p] \in 0..MaxRetries
         /\ archive[p] /\ reserved[p] = {} /\ partial[p] = Temp(p, "zip") /\ Ample(p, partial[p])
         /\ IsTemp(partial[p]) /\ partial[p] # Member(p)
         /\ IsTemp(Member(p)) /\ FileOK(Member(p), p) /\ Member(p)[2] = p
<1>1. Tables /\ NamesInv /\ DirOK(dir) /\ Counted(p) /\ Opened(p)
  BY DEF DInv, Local
<1>2. pc[p] # "over" /\ pc[p] # "begin"
  BY DEF Opening
<1>3. archive[p] /\ reserved[p] = {} /\ partial[p] = Temp(p, "zip") /\ Ample(p, partial[p])
  BY <1>1 DEF Opened
<1>4. IsTemp(Temp(p, "zip")) /\ Temp(p, "zip") # Temp(p, "member")
  BY TempFacts
<1>5. IsTemp(Member(p)) /\ FileOK(Member(p), p)
  BY TempFacts DEF Member
<1>6. Member(p)[2] = p
  BY <1>5 DEF FileOK
<1>7. QED
  BY <1>1, <1>2, <1>3, <1>4, <1>5, <1>6 DEF Counted, Member

\* The archive member gets a temporary file and a final name.
LEMMA ExtractKeeps ==
  ASSUME DInv, NEW p \in Procs, Extract(p)
  PROVE  Kept(p)
<1> DEFINE z == partial[p]
           m == Member(p)
<1>1. pc[p] = "extract" /\ pc[p] \in Opening /\ "inflate" \in Opening
  BY DEF Extract, Opening
<1>2. /\ Tables /\ NamesInv /\ DirOK(dir) /\ Counted(p) /\ Opened(p)
      /\ pc[p] # "over" /\ pass[p] \in 1..(MaxPasses + 1) /\ ~(pass[p] > MaxPasses)
      /\ tries[p] \in 0..MaxRetries
      /\ archive[p] /\ reserved[p] = {} /\ z = Temp(p, "zip") /\ Ample(p, z)
      /\ IsTemp(z) /\ z # m /\ IsTemp(m) /\ FileOK(m, p) /\ m[2] = p
  BY <1>1, OpeningFacts
<1>3. Owns(dir, p, {z}) /\ Owns(dir, p, Held(p))
  BY <1>1, <1>2, HeldOwned DEF Opened
<1>4. CASE Abort(p, Without(dir, {partial[p]}))
  BY <1>3, <1>4, AbortHeld
<1>5. ASSUME NEW ext \in Extensions, NEW got, got = Reserve(dir, p, ext), got.file # NoFile,
             \/ /\ Goto(p, "inflate")
                /\ target' = [target EXCEPT ![p] = got.file]
                /\ dir' = Write(got.dir, p, Member(p), "empty")
                /\ UNCHANGED <<pass, tries, resolved, archive, out, partial, reserved, known>>
             \/ Stray(p, Without(got.dir, {partial[p]}))
      PROVE  Kept(p)
  <2> DEFINE f == got.file
             d == got.dir
  <2>1. f \in NamesOf(p) /\ f \notin DOMAIN dir /\ d = Write(dir, p, f, "empty")
    BY <1>5, ReserveDir DEF AllExtensions
  <2>2. FileOK(f, p) /\ ~IsTemp(f)
    BY <1>2, <2>1, NamesFacts
  <2> HIDE DEF f, d
  <2>3. /\ Owns(d, p, {z} \cup {f}) /\ DirOK(d) /\ SameElse(dir, d, p)
        /\ d[z].is = dir[z].is
    <3>1. z # f
      BY <1>2, <2>2
    <3> DEFINE S == {z}
    <3>2. Owns(dir, p, S) /\ DirOK(dir) /\ FileOK(f, p) /\ (f \in DOMAIN dir => f \in S) /\ z \in S
      BY <1>2, <1>3, <2>1, <2>2
    <3> HIDE DEF S, z
    <3>3. /\ Owns(d, p, S \cup {f}) /\ DirOK(d) /\ SameElse(dir, d, p)
          /\ \A g \in S : g # f => d[g].is = dir[g].is
      BY <2>1, <3>2, WriteDir
    <3>4. QED
      BY <3>1, <3>2, <3>3 DEF S
  <2>4. CASE /\ Goto(p, "inflate")
             /\ target' = [target EXCEPT ![p] = f]
             /\ dir' = Write(d, p, m, "empty")
             /\ UNCHANGED <<pass, tries, resolved, archive, out, partial, reserved, known>>
    <3> DEFINE S == {z} \cup {f}
    <3>1. Owns(d, p, S) /\ DirOK(d) /\ FileOK(m, p) /\ (m \in DOMAIN d => m \in S) /\ z \in S
      <4>1. Owns(d, p, S) /\ DirOK(d) /\ z \in S
        BY <2>3
      <4>2. FileOK(m, p) /\ IsTemp(m) /\ m[2] = p
        BY <1>2 DEF FileOK
      <4> HIDE DEF S, m, z
      <4>3. m \in DOMAIN d => m \in S
        BY <4>1, <4>2, OwnTemp
      <4>4. QED
        BY <4>1, <4>2, <4>3
    <3>2. /\ Owns(dir', p, S \cup {m}) /\ DirOK(dir') /\ SameElse(d, dir', p)
          /\ dir'[z].is = d[z].is
      <4> HIDE DEF S, m, z
      <4>1. /\ Owns(Write(d, p, m, "empty"), p, S \cup {m}) /\ DirOK(Write(d, p, m, "empty"))
            /\ SameElse(d, Write(d, p, m, "empty"), p)
            /\ \A g \in S : g # m => Write(d, p, m, "empty")[g].is = d[g].is
        BY <3>1, WriteDir
      <4>2. QED
        BY <1>2, <2>4, <3>1, <4>1
    <3>3. SameElse(dir, dir', p)
      BY <2>3, <3>2, SameElseTrans
    <3>4. /\ pc'[p] = "inflate" /\ NamesOf(p)' = NamesOf(p) /\ target'[p] = f
          /\ Member(p)' = m /\ Temp(p, "zip")' = Temp(p, "zip")
      BY <1>2, <2>4, GotoFacts DEF Tables, Table, Member, Temp
    <3>5. S \cup {m} = {z, f, m}
      OBVIOUS
    <3>6. Ample(p, z)'
      BY <1>2, <2>3, <2>4, <3>2 DEF Ample
    <3>7. Opened(p)'
      BY <1>2, <2>1, <2>4, <3>2, <3>4, <3>5, <3>6 DEF Opened
    <3>8. Counted(p)'
      BY <1>1, <1>2, <2>4, StepCounted
    <3>9. Local(p)'
      BY <3>4, <3>7, <3>8
      DEF Local, Started, Named, Looked, Filled, Ended, Looking, Filling, Opening
    <3>10. QED
      BY <3>2, <3>3, <3>9 DEF Kept, DirOK
  <2>5. CASE Stray(p, Without(d, {z}))
    <3>1. \A g \in {z} : g \in DOMAIN d => g \in {z} \cup {f}
      OBVIOUS
    <3>2. DirOK(Without(d, {z})) /\ SameElse(d, Without(d, {z}), p)
      BY <2>3, <3>1, WithoutDir
    <3>3. SameElse(dir, Without(d, {z}), p)
      BY <2>3, <3>2, SameElseTrans
    <3>4. QED
      BY <1>2, <2>5, <3>2, <3>3, StrayKeeps
  <2>6. QED
    BY <1>5, <2>4, <2>5 DEF f, d
<1>6. QED
  BY <1>4, <1>5 DEF Extract

\* The member is inflated and takes its name, or everything is removed.
LEMMA InflateKeeps ==
  ASSUME DInv, NEW p \in Procs, Inflate(p)
  PROVE  Kept(p)
<1> DEFINE z == partial[p]
           m == Member(p)
           t == target[p]
           S == {z, t, m}
           w == Write(dir, p, m, "whole")
<1>1. pc[p] = "inflate" /\ pc[p] \in Opening /\ "sort" \in Opening
  BY DEF Inflate, Opening
<1>2. /\ Tables /\ NamesInv /\ DirOK(dir) /\ Counted(p) /\ Opened(p)
      /\ pc[p] # "over" /\ pass[p] \in 1..(MaxPasses + 1) /\ ~(pass[p] > MaxPasses)
      /\ tries[p] \in 0..MaxRetries
      /\ archive[p] /\ reserved[p] = {} /\ z = Temp(p, "zip") /\ Ample(p, z)
      /\ IsTemp(z) /\ z # m /\ IsTemp(m) /\ FileOK(m, p) /\ m[2] = p
  BY <1>1, OpeningFacts
<1>3. Owns(dir, p, S) /\ t \in NamesOf(p)
  BY <1>1, <1>2 DEF Opened
<1>4. FileOK(t, p) /\ ~IsTemp(t) /\ t # z /\ t # m
  BY <1>2, <1>3, NamesFacts
<1>5. m \in S /\ t \in S /\ z \in S /\ S \cup {m} = S /\ (S \ {m}) \cup {t} = {z, t}
  BY <1>2, <1>4
<1> HIDE DEF S, w, m, z, t
<1>6. /\ Owns(w, p, S) /\ DirOK(w) /\ SameElse(dir, w, p)
      /\ w[m].is = "whole" /\ w[z].is = dir[z].is
  <2>1. /\ Owns(Write(dir, p, m, "whole"), p, S \cup {m}) /\ DirOK(Write(dir, p, m, "whole"))
        /\ SameElse(dir, Write(dir, p, m, "whole"), p)
        /\ Write(dir, p, m, "whole")[m].is = "whole"
        /\ \A g \in S : g # m => Write(dir, p, m, "whole")[g].is = dir[g].is
    BY <1>2, <1>3, <1>5, WriteDir
  <2>2. QED
    BY <1>2, <1>5, <2>1 DEF w
<1>7. CASE /\ Goto(p, "sort")
           /\ dir' = Move(w, m, t)
           /\ UNCHANGED <<pass, tries, resolved, archive, out, partial, reserved, known, target>>
  <2>1. /\ Owns(dir', p, (S \ {m}) \cup {t}) /\ DirOK(dir') /\ SameElse(w, dir', p)
        /\ dir'[t].is = w[m].is
        /\ \A h \in S \ {m} : h # t => dir'[h].is = w[h].is
    BY <1>4, <1>5, <1>6, <1>7, MoveDir
  <2>2. SameElse(dir, dir', p)
    BY <1>6, <2>1, SameElseTrans
  <2>3. dir'[t].is = "whole" /\ dir'[z].is = dir[z].is
    BY <1>2, <1>4, <1>5, <1>6, <2>1
  <2>4. Owns(dir', p, {z, t})
    BY <1>5, <2>1
  <2>5. pc'[p] = "sort" /\ NamesOf(p)' = NamesOf(p) /\ Temp(p, "zip")' = Temp(p, "zip")
    BY <1>2, <1>7, GotoFacts DEF Temp
  <2>6. Ample(p, z)'
    BY <1>2, <1>7, <2>3 DEF Ample, z
  <2>7. Opened(p)'
    BY <1>2, <1>3, <1>7, <2>3, <2>4, <2>5, <2>6 DEF Opened, z, t
  <2>8. Counted(p)'
    BY <1>1, <1>2, <1>7, StepCounted
  <2>9. Local(p)'
    BY <2>5, <2>7, <2>8
    DEF Local, Started, Named, Looked, Filled, Ended, Looking, Filling, Opening
  <2>10. QED
    BY <2>1, <2>2, <2>9 DEF Kept, DirOK
<1>8. CASE Abort(p, Without(dir, {m, t, z}))
  <2> DEFINE T == {m, t, z}
             d == Without(dir, T)
  <2>1. (\A g \in T : g \in DOMAIN dir => g \in S) /\ S \ T = {}
    BY <1>5 DEF S
  <2> HIDE DEF T
  <2>2. Owns(d, p, S \ T) /\ DirOK(d) /\ SameElse(dir, d, p)
    BY <1>2, <1>3, <2>1, WithoutDir
  <2>3. Abort(p, d)
    BY <1>8 DEF T
  <2> HIDE DEF d
  <2>4. QED
    BY <1>2, <2>1, <2>2, <2>3, AbortKeeps
<1>9. CASE Stray(p, Without(w, {z}))
  <2>1. \A g \in {z} : g \in DOMAIN w => g \in S
    BY <1>5
  <2>2. DirOK(Without(w, {z})) /\ SameElse(w, Without(w, {z}), p)
    BY <1>6, <2>1, WithoutDir
  <2>3. SameElse(dir, Without(w, {z}), p)
    BY <1>6, <2>2, SameElseTrans
  <2>4. QED
    BY <1>2, <1>9, <2>2, <2>3, StrayKeeps
<1>10. QED
  BY <1>7, <1>8, <1>9 DEF Inflate, w, m, t, z

\* An archive with further models is kept under a .zip name, any other is removed.
LEMMA SortKeeps ==
  ASSUME DInv, NEW p \in Procs, Sort(p)
  PROVE  Kept(p)
<1> DEFINE z == partial[p]
           t == target[p]
           S == {z, t}
           got == Reserve(dir, p, "zip")
<1>1. pc[p] = "sort" /\ pc[p] \in Opening
  BY DEF Sort, Opening
<1>2. /\ Tables /\ NamesInv /\ DirOK(dir) /\ Opened(p)
      /\ archive[p] /\ reserved[p] = {} /\ z = Temp(p, "zip") /\ Ample(p, z) /\ IsTemp(z)
  BY <1>1, OpeningFacts
<1>3. Owns(dir, p, S) /\ t \in NamesOf(p) /\ dir[t].is = "whole"
  BY <1>1, <1>2 DEF Opened
<1>4. FileOK(t, p) /\ ~IsTemp(t) /\ t # z
  BY <1>2, <1>3, NamesFacts
<1>5. z \in S /\ t \in S /\ S \ {z} = {t} /\ Delivered(p) = t
  BY <1>2, <1>4 DEF Delivered
<1>6. \/ got.file = NoFile /\ got.dir = dir
      \/ /\ got.file \in NamesOf(p) /\ got.file \notin DOMAIN dir
         /\ got.dir = Write(dir, p, got.file, "empty")
  BY ReserveDir DEF AllExtensions
<1> HIDE DEF S, z, t, got
<1>7. CASE Done(p) /\ dir' = Without(dir, {z})
  <2>1. \A g \in {z} : g \in DOMAIN dir => g \in S
    BY <1>5
  <2>2. Owns(dir', p, S \ {z}) /\ DirOK(dir') /\ SameElse(dir, dir', p)
    BY <1>2, <1>3, <1>7, <2>1, WithoutDir
  <2>3. Owns(dir', p, {t}) /\ dir'[t].is = "whole"
    <3>1. t \in DOMAIN dir \ {z}
      BY <1>3, <1>4, <1>5 DEF Owns
    <3>2. dir'[t] = dir[t]
      BY <1>7, <3>1 DEF Without, Restrict
    <3>3. QED
      BY <1>3, <1>5, <2>2, <3>2
  <2>4. \A f \in {t} : dir'[f].is # "empty" /\ ~IsTemp(f)
    BY <1>4, <2>3
  <2>5. QED
    BY <1>2, <1>3, <1>5, <1>7, <2>2, <2>3, <2>4, DoneKeeps
<1>8. CASE got.file = NoFile /\ Raise(p, dir)
  <2>1. \A f \in S : f # z => dir[f].is # "empty" /\ ~IsTemp(f)
    BY <1>3, <1>4, <1>5
  <2>2. QED
    BY <1>2, <1>3, <1>5, <1>8, <2>1, RaiseKeeps, SameElseRefl DEF z
<1>9. ASSUME got.file # NoFile,
             \/ Done(p) /\ dir' = Move(dir, z, got.file)
             \/ /\ Done(p) /\ dir' = got.dir
                /\ strayed' = [strayed EXCEPT ![p] = TRUE]
      PROVE  Kept(p)
  <2> DEFINE g == got.file
  <2>1. g \in NamesOf(p) /\ g \notin DOMAIN dir /\ got.dir = Write(dir, p, g, "empty")
    BY <1>6, <1>9
  <2>2. FileOK(g, p) /\ ~IsTemp(g) /\ g # z
    BY <1>2, <2>1, NamesFacts
  <2>3. t # g
    BY <1>3, <1>5, <2>1 DEF Owns
  <2> HIDE DEF g
  <2>4. CASE Done(p) /\ dir' = Move(dir, z, g)
    <3>1. /\ Owns(dir', p, (S \ {z}) \cup {g}) /\ DirOK(dir') /\ SameElse(dir, dir', p)
          /\ dir'[g].is = dir[z].is
          /\ \A h \in S \ {z} : h # g => dir'[h].is = dir[h].is
      <4>1. /\ Owns(dir, p, S) /\ DirOK(dir) /\ z \in S /\ FileOK(g, p) /\ g # z
            /\ g \in DOMAIN dir => g \in S
        BY <1>2, <1>3, <1>5, <2>1, <2>2
      <4>2. /\ Owns(Move(dir, z, g), p, (S \ {z}) \cup {g}) /\ DirOK(Move(dir, z, g))
            /\ SameElse(dir, Move(dir, z, g), p)
        BY <4>1, MoveDir
      <4>3. Move(dir, z, g)[g].is = dir[z].is
        BY DEF Move
      <4>4. \A h \in S \ {z} : h # g => Move(dir, z, g)[h].is = dir[h].is
        BY <4>1 DEF Move, Owns
      <4>5. QED
        BY <2>4, <4>2, <4>3, <4>4
    <3>2. Owns(dir', p, {t, g})
      BY <1>5, <3>1
    <3>3. dir'[t].is = "whole"
      BY <1>3, <1>4, <1>5, <2>3, <3>1
    <3>4. dir'[g].is # "empty"
      BY <1>2, <3>1 DEF Ample
    <3>5. \A f \in {t, g} : dir'[f].is # "empty" /\ ~IsTemp(f)
      BY <1>4, <2>2, <3>3, <3>4
    <3>6. QED
      BY <1>2, <1>3, <1>5, <2>4, <3>1, <3>2, <3>3, <3>5, DoneKeeps
  <2>5. CASE Done(p) /\ dir' = Write(dir, p, g, "empty") /\ strayed' = [strayed EXCEPT ![p] = TRUE]
    <3>1. /\ Owns(dir', p, S \cup {g}) /\ DirOK(dir') /\ SameElse(dir, dir', p)
          /\ \A h \in S : h # g => dir'[h].is = dir[h].is
      BY <1>2, <1>3, <2>1, <2>2, <2>5, WriteDir
    <3>2. dir'[t].is = "whole" /\ t \in S \cup {g}
      BY <1>3, <1>5, <2>3, <3>1
    <3>3. strayed'[p]
      BY <1>2, <2>5 DEF Tables, Table
    <3>4. QED
      BY <1>2, <1>3, <1>5, <2>5, <3>1, <3>2, <3>3, DoneKeeps
  <2>6. QED
    BY <1>9, <2>1, <2>4, <2>5 DEF g
<1>10. QED
  BY <1>7, <1>8, <1>9 DEF Sort, got, z, t

\* A Ctrl-C at any label.
LEMMA InterruptKeeps ==
  ASSUME DInv, NEW p \in Procs, Interrupt(p)
  PROVE  Kept(p)
<1>1. DInv /\ Tables /\ NamesInv /\ DirOK(dir) /\ Counted(p) /\ Opened(p) /\ pc[p] # "over"
  BY DEF DInv, Local, Interrupt
<1>2. CASE pc[p] = "inflate"
  <2> DEFINE z == partial[p]
             T == {Member(p), target[p]}
             S == {z, target[p], Member(p)}
             d == Without(dir, T)
  <2>1. Owns(dir, p, S) /\ reserved[p] = {}
    BY <1>1, <1>2 DEF Opened, Opening
  <2>2. (\A g \in T : g \in DOMAIN dir => g \in S) /\ S \ T \subseteq {z}
    OBVIOUS
  <2>3. Raise(p, d)
    BY <1>2 DEF Interrupt
  <2>4. NoFile \notin DOMAIN dir
    BY <1>1 DEF DirOK, FileOK
  <2>5. z \in DOMAIN d => z \in S \ T
    BY DEF Without, Restrict
  <2> HIDE DEF S, T, d
  <2>6. Owns(d, p, S \ T) /\ DirOK(d) /\ SameElse(dir, d, p)
    BY <1>1, <2>1, <2>2, WithoutDir DEF d
  <2>7. \A f \in S \ T : f = partial[p]
    BY <2>2
  <2>8. QED
    BY <1>1, <2>1, <2>3, <2>5, <2>6, <2>7, RaiseKeeps
<1>3. CASE pc[p] = "sort"
  <2> DEFINE S == {partial[p], target[p]}
  <2>1. Owns(dir, p, S) /\ reserved[p] = {} /\ dir[target[p]].is = "whole" /\ target[p] \in NamesOf(p)
    BY <1>1, <1>3 DEF Opened, Opening
  <2>2. ~IsTemp(target[p])
    BY <1>1, <2>1, NamesFacts
  <2>3. \A f \in S : f # partial[p] => dir[f].is # "empty" /\ ~IsTemp(f)
    BY <2>1, <2>2
  <2>4. partial[p] \in S /\ Raise(p, dir)
    BY <1>3 DEF Interrupt
  <2> HIDE DEF S
  <2>5. QED
    BY <1>1, <2>1, <2>3, <2>4, RaiseKeeps, SameElseRefl
<1>4. CASE pc[p] # "inflate" /\ pc[p] # "sort"
  <2>1. pc[p] \in {"start", "begin", "page", "extract"} \cup Looking \cup Filling
    BY <1>1, <1>4 DEF Counted, Opening
  <2>2. Owns(dir, p, Held(p)) /\ Raise(p, dir)
    BY <1>1, <1>4, <2>1, HeldOwned DEF Interrupt
  <2>3. QED
    BY <1>1, <2>2, RaiseHeld
<1>5. QED
  BY <1>2, <1>3, <1>4

----------------------------------------------------------------------------
(* The other downloads. *)

\* From f to g only the entry of p changed.
Only(f, g, p) == DOMAIN g = Procs /\ \A q \in Procs \ {p} : g[q] = f[q]

Framed(p) ==
  /\ names' = names
  /\ Only(pc, pc', p) /\ Only(pass, pass', p) /\ Only(tries, tries', p)
  /\ Only(resolved, resolved', p) /\ Only(archive, archive', p) /\ Only(out, out', p)
  /\ Only(partial, partial', p) /\ Only(reserved, reserved', p) /\ Only(known, known', p)
  /\ Only(target, target', p) /\ Only(strayed, strayed', p) /\ Only(outcome, outcome', p)

\* A step that sets one entry of a table changes only that one.
LEMMA OnlyIs ==
  ASSUME NEW f, Table(f), NEW p \in Procs
  PROVE  Only(f, f, p) /\ \A v : Only(f, [f EXCEPT ![p] = v], p)
BY DEF Table, Only

\* A failure changes only the entries of its own download,
LEMMA FailedFramed ==
  ASSUME Tables, NEW p \in Procs, Failed(p),
         strayed' = strayed \/ strayed' = [strayed EXCEPT ![p] = TRUE]
  PROVE  Framed(p)
BY OnlyIs DEF Failed, Over, Framed, Tables, inputs

\* a success too,
LEMMA DoneFramed ==
  ASSUME Tables, NEW p \in Procs, Done(p),
         strayed' = strayed \/ strayed' = [strayed EXCEPT ![p] = TRUE]
  PROVE  Framed(p)
BY OnlyIs DEF Done, Over, Framed, Tables, inputs

\* and so does every way out.
LEMMA ExitFramed ==
  ASSUME Tables, NEW p \in Procs, NEW d, Abort(p, d) \/ Raise(p, d) \/ Stray(p, d)
  PROVE  Framed(p) /\ pc'[p] = "over"
<1>1. Failed(p) /\ (strayed' = strayed \/ strayed' = [strayed EXCEPT ![p] = TRUE])
  BY DEF Abort, Raise, Stray
<1>2. pc'[p] = "over"
  BY <1>1 DEF Failed, Over, Tables, Table
<1>3. QED
  BY <1>1, <1>2, FailedFramed

\* Going on as an archive changes only its own entries,
LEMMA IntoArchiveFramed ==
  ASSUME Tables, NEW p \in Procs, NEW label, IntoArchive(p, dir), Goto(p, label),
         UNCHANGED <<pass, tries, resolved, known, target>>
  PROVE  Framed(p) /\ pc'[p] = label
<1>1. pc'[p] = label
  BY GotoFacts
<1>2. QED
  BY <1>1, OnlyIs DEF IntoArchive, Goto, Framed, Tables, inputs

\* and so does taking another name.
LEMMA RetargetFramed ==
  ASSUME Tables, NEW p \in Procs, NEW label, NEW ext, Retarget(p, dir, ext, label)
  PROVE  Framed(p) /\ pc'[p] \in {"over", label}
<1> DEFINE got == Reserve(Without(dir, reserved[p]), p, ext)
<1>1. CASE got.file = NoFile
  BY <1>1, ExitFramed DEF Retarget
<1>2. CASE got.file # NoFile
  <2>1. PICK f : /\ out' = [out EXCEPT ![p] = f] /\ reserved' = [reserved EXCEPT ![p] = {f}]
                 /\ Goto(p, label)
                 /\ UNCHANGED <<pass, tries, resolved, archive, partial, known, target>>
    BY <1>2 DEF Retarget
  <2>2. pc'[p] = label
    BY <2>1, GotoFacts
  <2>3. Framed(p)
    BY <2>1, OnlyIs DEF Goto, Framed, Tables, inputs
  <2>4. QED
    BY <2>2, <2>3
<1>3. QED
  BY <1>1, <1>2

\* A step of p changes the variables of p only, and its files only on its way on.
LEMMA StepFramed ==
  ASSUME Tables, NEW p \in Procs, Request(p) \/ Body(p) \/ Interrupt(p)
  PROVE  Framed(p) /\ (pc'[p] # pc[p] \/ dir' = dir)
<1> DEFINE Claim == Framed(p) /\ (pc'[p] # pc[p] \/ dir' = dir)
<1>1. ASSUME NEW label, Goto(p, label), label # pc[p],
             \/ archive' = archive \/ \E v : archive' = [archive EXCEPT ![p] = v],
             \/ pass' = pass \/ \E v : pass' = [pass EXCEPT ![p] = v],
             \/ tries' = tries \/ \E v : tries' = [tries EXCEPT ![p] = v],
             \/ resolved' = resolved \/ \E v : resolved' = [resolved EXCEPT ![p] = v],
             \/ partial' = partial \/ \E v : partial' = [partial EXCEPT ![p] = v],
             \/ known' = known \/ \E v : known' = [known EXCEPT ![p] = v],
             \/ target' = target \/ \E v : target' = [target EXCEPT ![p] = v],
             UNCHANGED <<out, reserved>>
      PROVE  Claim
  <2>1. pc'[p] = label
    BY <1>1, GotoFacts
  <2>2. Framed(p)
    <3>1. Only(archive, archive', p)
      BY <1>1, OnlyIs DEF Tables
    <3>2. Only(pass, pass', p)
      BY <1>1, OnlyIs DEF Tables
    <3>3. Only(tries, tries', p)
      BY <1>1, OnlyIs DEF Tables
    <3>4. Only(resolved, resolved', p)
      BY <1>1, OnlyIs DEF Tables
    <3>5. Only(partial, partial', p)
      BY <1>1, OnlyIs DEF Tables
    <3>6. Only(known, known', p)
      BY <1>1, OnlyIs DEF Tables
    <3>7. Only(target, target', p)
      BY <1>1, OnlyIs DEF Tables
    <3>8. names' = names /\ Only(pc, pc', p) /\ Only(out, out', p) /\ Only(reserved, reserved', p)
      BY <1>1, OnlyIs DEF Goto, Tables, inputs
    <3>9. Only(strayed, strayed', p) /\ Only(outcome, outcome', p)
      BY <1>1, OnlyIs DEF Goto, Tables
    <3>10. QED
      BY <3>1, <3>2, <3>3, <3>4, <3>5, <3>6, <3>7, <3>8, <3>9 DEF Framed
  <2>3. QED
    BY <1>1, <2>1, <2>2
<1>2. ASSUME NEW d, Abort(p, d) \/ Raise(p, d) \/ Stray(p, d), pc[p] # "over"
      PROVE  Claim
  BY <1>2, ExitFramed
<1>3. CASE Start(p)
  <2>1. pc[p] = "start"
    BY <1>3 DEF Start
  <2>2. CASE /\ Goto(p, "begin")
             /\ \E named \in BOOLEAN : resolved' = [resolved EXCEPT ![p] = named]
             /\ UNCHANGED <<pass, tries, archive, out, partial, reserved, known, target, dir>>
    BY <1>1, <2>1, <2>2
  <2>3. CASE Abort(p, dir)
    BY <1>2, <2>1, <2>3
  <2>4. QED
    BY <1>3, <2>2, <2>3 DEF Start
<1>4. CASE Begin(p)
  <2>1. pc[p] = "begin"
    BY <1>4 DEF Begin
  <2>2. CASE Abort(p, dir)
    BY <1>2, <2>1, <2>2
  <2>3. CASE IntoArchive(p, dir) /\ Goto(p, "open") /\ UNCHANGED <<pass, tries, resolved, known, target>>
    BY <2>1, <2>3, IntoArchiveFramed
  <2>4. CASE \E ext \in Extensions : Retarget(p, dir, ext, "open")
    BY <2>1, <2>4, RetargetFramed
  <2>5. QED
    BY <1>4, <2>2, <2>3, <2>4 DEF Begin
<1>5. CASE Open(p)
  <2>1. pc[p] = "open"
    BY <1>5 DEF Open
  <2>2. CASE /\ Goto(p, "moved") /\ tries' = [tries EXCEPT ![p] = 0]
             /\ UNCHANGED <<pass, resolved, archive, out, partial, reserved, known, target, dir>>
    BY <1>1, <2>1, <2>2
  <2>3. CASE /\ tries' = [tries EXCEPT ![p] = @ + 1] /\ Goto(p, "open")
             /\ UNCHANGED <<pass, resolved, archive, out, partial, reserved, known, target, dir>>
    BY <2>3, OnlyIs DEF Goto, Framed, Tables, inputs
  <2>4. CASE Raise(p, dir)
    BY <1>2, <2>1, <2>4
  <2>5. QED
    BY <1>5, <2>2, <2>3, <2>4 DEF Open
<1>6. CASE Moved(p)
  <2>1. pc[p] = "moved"
    BY <1>6 DEF Moved
  <2>2. CASE /\ Goto(p, "type")
             /\ UNCHANGED <<pass, tries, resolved, archive, out, partial, reserved, known, target, dir>>
    BY <1>1, <2>1, <2>2
  <2>3. CASE Abort(p, Without(dir, {partial[p]}))
    BY <1>2, <2>1, <2>3
  <2>4. CASE \E ext \in Extensions : Retarget(p, dir, ext, "type")
    BY <2>1, <2>4, RetargetFramed
  <2>5. QED
    BY <1>6, <2>2, <2>3, <2>4 DEF Moved
<1>7. CASE Type(p)
  <2>1. pc[p] = "type"
    BY <1>7 DEF Type
  <2>2. CASE IntoArchive(p, dir) /\ Goto(p, "named") /\ UNCHANGED <<pass, tries, resolved, known, target>>
    BY <2>1, <2>2, IntoArchiveFramed
  <2>3. CASE /\ Goto(p, "named")
             /\ UNCHANGED <<pass, tries, resolved, archive, out, partial, reserved, known, target, dir>>
    BY <1>1, <2>1, <2>3
  <2>4. CASE Abort(p, dir)
    BY <1>2, <2>1, <2>4
  <2>5. CASE /\ Goto(p, "page")
             /\ partial' = [partial EXCEPT ![p] = NoFile]
             /\ UNCHANGED <<pass, tries, resolved, archive, out, reserved, known, target>>
    BY <1>1, <2>1, <2>5
  <2>6. QED
    BY <1>7, <2>2, <2>3, <2>4, <2>5 DEF Type
<1>8. CASE Page(p)
  <2>1. pc[p] = "page"
    BY <1>8 DEF Page
  <2>2. CASE /\ Goto(p, "begin")
             /\ pass' = [pass EXCEPT ![p] = @ + 1]
             /\ resolved' = [resolved EXCEPT ![p] = TRUE] /\ archive' = [archive EXCEPT ![p] = FALSE]
             /\ UNCHANGED <<tries, out, partial, reserved, known, target, dir>>
    BY <1>1, <2>1, <2>2
  <2>3. CASE Abort(p, dir) \/ Raise(p, dir)
    BY <1>2, <2>1, <2>3
  <2>4. QED
    BY <1>8, <2>2, <2>3 DEF Page
<1>9. CASE NameFromHeader(p)
  <2>1. pc[p] = "named"
    BY <1>9 DEF NameFromHeader
  <2>2. CASE /\ Goto(p, "partial")
             /\ UNCHANGED <<pass, tries, resolved, archive, out, partial, reserved, known, target, dir>>
    BY <1>1, <2>1, <2>2
  <2>3. CASE IntoArchive(p, dir) /\ Goto(p, "partial") /\ UNCHANGED <<pass, tries, resolved, known, target>>
    BY <2>1, <2>3, IntoArchiveFramed
  <2>4. CASE Abort(p, dir)
    BY <1>2, <2>1, <2>4
  <2>5. CASE \E ext \in Extensions : Retarget(p, dir, ext, "partial")
    BY <2>1, <2>5, RetargetFramed
  <2>6. QED
    BY <1>9, <2>2, <2>3, <2>4, <2>5 DEF NameFromHeader
<1>10. CASE MakePartial(p)
  <2>1. pc[p] = "partial"
    BY <1>10 DEF MakePartial
  <2>2. PICK f : \/ /\ Goto(p, "transfer")
                    /\ partial' = [partial EXCEPT ![p] = f]
                    /\ \E told \in BOOLEAN : known' = [known EXCEPT ![p] = told]
                    /\ UNCHANGED <<pass, tries, resolved, archive, out, reserved, target>>
                 \/ Abort(p, Without(dir, {f}))
                 \/ Raise(p, dir)
    BY <1>10 DEF MakePartial
  <2>3. CASE /\ Goto(p, "transfer")
             /\ partial' = [partial EXCEPT ![p] = f]
             /\ \E told \in BOOLEAN : known' = [known EXCEPT ![p] = told]
             /\ UNCHANGED <<pass, tries, resolved, archive, out, reserved, target>>
    BY <1>1, <2>1, <2>3
  <2>4. CASE Abort(p, Without(dir, {f})) \/ Raise(p, dir)
    BY <1>2, <2>1, <2>4
  <2>5. QED
    BY <2>2, <2>3, <2>4
<1>11. CASE Transfer(p)
  <2>1. pc[p] = "transfer"
    BY <1>11 DEF Transfer
  <2>2. CASE /\ Goto(p, "place")
             /\ UNCHANGED <<pass, tries, resolved, archive, out, partial, reserved, known, target>>
    BY <1>1, <2>1, <2>2
  <2>3. CASE Abort(p, Without(dir, {partial[p]})) \/ Raise(p, dir)
    BY <1>2, <2>1, <2>3
  <2>4. QED
    BY <1>11, <2>2, <2>3 DEF Transfer
<1>12. CASE Place(p)
  <2>1. pc[p] = "place"
    BY <1>12 DEF Place
  <2>2. CASE /\ Goto(p, "extract")
             /\ UNCHANGED <<pass, tries, resolved, archive, out, partial, reserved, known, target, dir>>
    BY <1>1, <2>1, <2>2
  <2>3. CASE Done(p) /\ UNCHANGED strayed
    BY <2>1, <2>3, DoneFramed DEF Done, Over, Tables, Table
  <2>4. CASE Raise(p, dir)
    BY <1>2, <2>1, <2>4
  <2>5. QED
    BY <1>12, <2>2, <2>3, <2>4 DEF Place
<1>13. CASE Extract(p)
  <2>1. pc[p] = "extract"
    BY <1>13 DEF Extract
  <2>2. PICK f, d : \/ /\ Goto(p, "inflate")
                       /\ target' = [target EXCEPT ![p] = f]
                       /\ UNCHANGED <<pass, tries, resolved, archive, out, partial, reserved, known>>
                    \/ Stray(p, d) \/ Abort(p, d)
    BY <1>13 DEF Extract
  <2>3. CASE /\ Goto(p, "inflate")
             /\ target' = [target EXCEPT ![p] = f]
             /\ UNCHANGED <<pass, tries, resolved, archive, out, partial, reserved, known>>
    BY <1>1, <2>1, <2>3
  <2>4. CASE Stray(p, d) \/ Abort(p, d)
    BY <1>2, <2>1, <2>4
  <2>5. QED
    BY <2>2, <2>3, <2>4
<1>14. CASE Inflate(p)
  <2>1. pc[p] = "inflate"
    BY <1>14 DEF Inflate
  <2>2. CASE /\ Goto(p, "sort")
             /\ UNCHANGED <<pass, tries, resolved, archive, out, partial, reserved, known, target>>
    BY <1>1, <2>1, <2>2
  <2>3. CASE \E d : Abort(p, d) \/ Stray(p, d)
    BY <1>2, <2>1, <2>3
  <2>4. QED
    BY <1>14, <2>2, <2>3 DEF Inflate
<1>15. CASE Sort(p)
  <2>1. pc[p] = "sort"
    BY <1>15 DEF Sort
  <2>2. CASE Done(p) /\ (UNCHANGED strayed \/ strayed' = [strayed EXCEPT ![p] = TRUE])
    BY <2>1, <2>2, DoneFramed DEF Done, Over, Tables, Table
  <2>3. CASE Raise(p, dir)
    BY <1>2, <2>1, <2>3
  <2>4. QED
    BY <1>15, <2>2, <2>3 DEF Sort
<1>16. CASE Interrupt(p)
  <2>1. PICK d : Raise(p, d) /\ pc[p] # "over"
    BY <1>16 DEF Interrupt
  <2>2. QED
    BY <1>2, <2>1
<1>17. QED
  BY <1>3, <1>4, <1>5, <1>6, <1>7, <1>8, <1>9, <1>10, <1>11, <1>12, <1>13, <1>14, <1>15, <1>16
  DEF Request, Body

\* What holds of another download goes on to hold.
LEMMA OthersKeep ==
  ASSUME DInv, NEW p \in Procs, NEW q \in Procs, p # q, Framed(p), SameElse(dir, dir', p)
  PROVE  Local(q)'
<1>1. /\ pc'[q] = pc[q] /\ pass'[q] = pass[q] /\ tries'[q] = tries[q]
      /\ outcome'[q] = outcome[q] /\ archive'[q] = archive[q] /\ strayed'[q] = strayed[q]
  BY DEF Framed, Only
<1>2. /\ out'[q] = out[q] /\ partial'[q] = partial[q] /\ reserved'[q] = reserved[q]
      /\ known'[q] = known[q] /\ target'[q] = target[q]
  BY DEF Framed, Only
<1>3. NamesOf(q)' = NamesOf(q)
  BY DEF Framed, NamesOf
<1>4. \A kind : Temp(q, kind)' = Temp(q, kind)
  BY <1>1 DEF Temp
<1>5. \A S : Owns(dir, q, S) => Owns(dir', q, S)
  BY SameElseOwns
<1>6. \A f \in DOMAIN dir : dir[f].by = q => f \in DOMAIN dir' /\ dir'[f] = dir[f]
  BY DEF SameElse
<1>7. \A f \in DOMAIN dir' : dir'[f].by = q => f \in DOMAIN dir /\ dir'[f] = dir[f]
  BY DEF SameElse
<1>8. Counted(q)' /\ Started(q)' /\ Named(q)'
  <2>1. Counted(q) /\ Started(q) /\ Named(q)
    BY DEF DInv, Local
  <2>2. Counted(q)'
    BY <1>1, <2>1 DEF Counted
  <2>3. Started(q)' /\ Named(q)'
    BY <1>1, <1>2, <1>5, <2>1 DEF Started, Named
  <2>4. QED
    BY <2>2, <2>3
<1>9. Looked(q)'
  <2>1. Looked(q)
    BY DEF DInv, Local
  <2>2. QED
    BY <1>1, <1>2, <1>3, <1>4, <1>5, <2>1 DEF Looked
<1>10. \A f : f \in DOMAIN dir /\ dir[f].by = q /\ Ample(q, f) => Ample(q, f)'
  BY <1>2, <1>6 DEF Ample
<1>11. Filled(q)'
  <2>1. Filled(q)
    BY DEF DInv, Local
  <2>2. pc[q] \in Filling =>
          /\ IF archive[q]
             THEN reserved[q] = {} /\ partial[q] = Temp(q, "zip") /\ Owns(dir, q, {partial[q]})
             ELSE /\ out[q] \in NamesOf(q) /\ reserved[q] = {out[q]} /\ partial[q] = Temp(q, "part")
                  /\ Owns(dir, q, {out[q], partial[q]})
          /\ partial[q] \in DOMAIN dir /\ dir[partial[q]].by = q
    BY <2>1 DEF Filled, Owns
  <2>3. pc[q] = "place" => Ample(q, partial[q])'
    BY <1>1, <1>2, <1>10, <2>1, <2>2 DEF Filled, Filling, Ample
  <2>4. QED
    BY <1>1, <1>2, <1>3, <1>4, <1>5, <2>2, <2>3 DEF Filled
<1>12. Opened(q)'
  <2>1. Opened(q)
    BY DEF DInv, Local
  <2>2. pc[q] \in Opening => partial[q] \in DOMAIN dir /\ dir[partial[q]].by = q
    BY <2>1 DEF Opened, Opening, Owns
  <2>3. pc[q] \in Opening => Ample(q, partial[q])'
    BY <1>2, <1>10, <2>1, <2>2 DEF Opened, Ample
  <2>4. Member(q)' = Member(q)
    BY <1>4 DEF Member
  <2>5. pc[q] = "sort" => target[q] \in DOMAIN dir /\ dir[target[q]].by = q
    BY <2>1 DEF Opened, Opening, Owns
  <2>6. pc[q] = "sort" => dir'[target[q]].is = "whole"
    BY <1>6, <2>1, <2>5 DEF Opened, Opening
  <2>7. QED
    BY <1>1, <1>2, <1>3, <1>4, <1>5, <2>1, <2>3, <2>4, <2>6 DEF Opened
<1>13. Ended(q)'
  <2>1. Ended(q)
    BY DEF DInv, Local
  <2>2. QED
    BY <1>1, <1>2, <1>3, <1>6, <1>7, <2>1 DEF Ended, Ample, Delivered
<1>14. QED
  BY <1>8, <1>9, <1>11, <1>12, <1>13 DEF Local

----------------------------------------------------------------------------
(* The invariant. *)

\* At first the directory holds only what was there before.
LEMMA DownloadStarts == Init => DInv
<1> SUFFICES ASSUME Init PROVE DInv
  OBVIOUS
<1>1. NamesInv /\ Tables
  BY DEF Init, InitLocals, NamesInv, Tables, Table
<1>2. \A f \in DOMAIN dir : f \in Present /\ dir[f].by = "user" /\ dir[f].is = "whole"
  BY DEF Init, InitLocals
<1>3. \A f \in Present : f # <<>> /\ f[1] # "tmp"
  BY DownloadAssumption DEF DownloadAssumption
<1>4. DirOK(dir)
  BY <1>2, <1>3 DEF DirOK, FileOK, IsTemp, NoFile
<1>5. ASSUME NEW p \in Procs
      PROVE  Local(p)
  <2>1. /\ pc[p] \in {"start", "over"} /\ pass[p] = 1 /\ tries[p] = 0 /\ ~archive[p]
        /\ partial[p] = NoFile /\ reserved[p] = {}
        /\ outcome[p] = IF pc[p] = "over" THEN "failed" ELSE "none"
    BY DEF Init, InitLocals
  <2>2. \A f \in DOMAIN dir : dir[f].by # p
    BY <1>2, DownloadAssumption DEF DownloadAssumption
  <2>3. Owns(dir, p, {})
    BY <2>2 DEF Owns
  <2>4. Counted(p)
    BY <2>1, DownloadAssumption DEF Counted, DownloadAssumption
  <2>5. Started(p) /\ Ended(p)
    BY <2>1, <2>2, <2>3 DEF Started, Ended
  <2>6. Named(p) /\ Looked(p) /\ Filled(p) /\ Opened(p)
    BY <2>1 DEF Named, Looked, Filled, Opened, Looking, Filling, Opening
  <2>7. QED
    BY <2>4, <2>5, <2>6 DEF Local
<1>6. QED
  BY <1>1, <1>4, <1>5 DEF DInv

\* A step keeps it for the download that takes it.
LEMMA StepKeeps ==
  ASSUME DInv, NEW p \in Procs, Request(p) \/ Body(p) \/ Interrupt(p)
  PROVE  Kept(p)
BY StartKeeps, BeginKeeps, OpenKeeps, MovedKeeps, TypeKeeps, PageKeeps, NameFromHeaderKeeps,
   MakePartialKeeps, TransferKeeps, PlaceKeeps, ExtractKeeps, InflateKeeps, SortKeeps,
   InterruptKeeps DEF Request, Body

\* And for all the others.
LEMMA DownloadKeeps == DInv /\ [Next]_vars => DInv'
<1> SUFFICES ASSUME DInv, [Next]_vars PROVE DInv'
  OBVIOUS
<1>1. CASE UNCHANGED vars
  BY <1>1 DEF DInv, vars, inputs, NamesInv, Tables, Table, DirOK, FileOK, Local, Counted, Started,
     Named, Looked, Filled, Opened, Ended, Delivered, Ample, Owns, NamesOf, Member, Temp
<1>2. ASSUME NEW p \in Procs, Request(p) \/ Body(p) \/ Interrupt(p)
      PROVE  DInv'
  <2>1. Kept(p)
    BY <1>2, StepKeeps
  <2>2. Tables
    BY DEF DInv
  <2>3. Framed(p)
    BY <1>2, <2>2, StepFramed
  <2>4. NamesInv' /\ Tables'
    BY <2>2, <2>3 DEF DInv, NamesInv, Framed, Only, Tables, Table
  <2>5. \A q \in Procs : Local(q)'
    BY <2>1, <2>3, OthersKeep DEF Kept
  <2>6. QED
    BY <2>1, <2>4, <2>5 DEF DInv, Kept
<1>3. QED
  BY <1>1, <1>2 DEF Next

\* At every label each download owns exactly the files its variables name.
THEOREM DownloadInvariant == Spec => []DInv
<1>1. Init => DInv
  BY DownloadStarts
<1>2. DInv /\ [Next]_vars => DInv'
  BY DownloadKeeps
<1>3. QED
  BY <1>1, <1>2, PTL DEF Spec

----------------------------------------------------------------------------
(* The properties. *)

\* Type correctness (TypeOK): the passes and the repeated requests stay within their
\* bounds, and what a download holds is in the directory.
THEOREM TypeCorrect == Spec => []TypeOK
<1>1. DInv => TypeOK
  <2> SUFFICES ASSUME DInv PROVE TypeOK
    OBVIOUS
  <2>1. DirOK(dir)
    BY DEF DInv
  <2>2. ASSUME NEW p \in Procs
        PROVE  /\ pass[p] \in 1..(MaxPasses + 1) /\ tries[p] \in 0..MaxRetries
               /\ Held(p) \subseteq DOMAIN dir
               /\ outcome[p] \in {"none", "ok", "failed"} /\ (pc[p] = "over" <=> outcome[p] # "none")
    <3>1. Local(p)
      BY DEF DInv
    <3>2. Held(p) \subseteq DOMAIN dir
      <4>1. CASE pc[p] = "over"
        BY <3>1, <4>1 DEF Local, Ended, Held
      <4>2. CASE pc[p] \in Opening
        BY <3>1, <4>2 DEF Local, Opened, Opening, Owns, Held
      <4>3. CASE pc[p] \in {"start", "begin", "page"} \cup Looking \cup Filling
        BY <4>3, HeldOwned DEF Owns
      <4>4. QED
        BY <3>1, <4>1, <4>2, <4>3 DEF Local, Counted
    <3>3. QED
      BY <3>1, <3>2 DEF Local, Counted
  <2>3. QED
    BY <2>1, <2>2 DEF TypeOK, DirOK
<1>2. QED
  BY <1>1, DownloadInvariant, PTL

\* However a download ends (EndsRight): unless a step failed that has no handler, it
\* leaves no placeholder and no temporary file; what it reports is there, whole where
\* its length was known; and its name is one the printer-side commands accept.
THEOREM EveryDownloadEndsRight == Spec => []EndsRight
<1>1. DInv => EndsRight
  <2> SUFFICES ASSUME DInv PROVE EndsRight
    OBVIOUS
  <2>1. \A p \in Procs : Counted(p) /\ Ended(p) /\ NamesInv
    BY DEF DInv, Local
  <2>2. NoDebris
    BY <2>1 DEF NoDebris, Ended
  <2>3. DeliveredWhole
    BY <2>1 DEF DeliveredWhole, Ended, Counted, Delivered, Ample
  <2>4. NamePortable
    BY <2>1, NamesFacts DEF NamePortable, Ended, Counted, Delivered
  <2>5. QED
    BY <2>2, <2>3, <2>4 DEF EndsRight
<1>2. QED
  BY <1>1, DownloadInvariant, PTL

\* A download never removes, renames or overwrites a file of another one or of the user
\* (OwnFilesOnly), and it leaves its own alone but where it moves on.
THEOREM OwnFiles == Spec => OwnFilesOnly
<1> DEFINE Safe == \A f \in DOMAIN dir :
                     \/ f \in DOMAIN dir' /\ dir'[f] = dir[f]
                     \/ \E p \in Procs : dir[f].by = p /\ pc'[p] # pc[p]
<1>1. ASSUME DInv, [Next]_vars
      PROVE  [Safe]_vars
  <2>1. CASE UNCHANGED vars
    BY <2>1
  <2>2. ASSUME NEW p \in Procs, Request(p) \/ Body(p) \/ Interrupt(p)
        PROVE  Safe
    <3>1. SameElse(dir, dir', p)
      BY <1>1, <2>2, StepKeeps DEF Kept
    <3>2. pc'[p] # pc[p] \/ dir' = dir
      BY <1>1, <2>2, StepFramed DEF DInv
    <3>3. QED
      BY <3>1, <3>2 DEF SameElse
  <2>3. QED
    BY <1>1, <2>1, <2>2 DEF Next
<1>2. QED
  BY <1>1, DownloadInvariant, PTL DEF Spec, OwnFilesOnly

\* A step goes on or ends the download, and no download goes on after its end.
LEMMA StepAnswers ==
  ASSUME NEW p \in Procs, Request(p) \/ Body(p) \/ Interrupt(p)
  PROVE  pc[p] # "over" /\ (Failed(p) \/ Done(p) \/ \E label : Goto(p, label))
<1>1. ASSUME NEW d, Abort(p, d) \/ Raise(p, d) \/ Stray(p, d) PROVE Failed(p)
  BY <1>1 DEF Abort, Raise, Stray
<1>2. ASSUME NEW d, NEW ext, NEW label, Retarget(p, d, ext, label) PROVE Failed(p) \/ Goto(p, label)
  BY <1>1, <1>2 DEF Retarget
<1>3. CASE Start(p)
  BY <1>1, <1>3 DEF Start
<1>4. CASE Begin(p)
  BY <1>1, <1>2, <1>4 DEF Begin
<1>5. CASE Open(p)
  BY <1>1, <1>5 DEF Open
<1>6. CASE Moved(p)
  BY <1>1, <1>2, <1>6 DEF Moved
<1>7. CASE Type(p)
  BY <1>1, <1>7 DEF Type
<1>8. CASE Page(p)
  BY <1>1, <1>8 DEF Page
<1>9. CASE NameFromHeader(p)
  BY <1>1, <1>2, <1>9 DEF NameFromHeader
<1>10. CASE MakePartial(p)
  BY <1>1, <1>10 DEF MakePartial
<1>11. CASE Transfer(p)
  BY <1>1, <1>11 DEF Transfer
<1>12. CASE Place(p)
  BY <1>1, <1>12 DEF Place
<1>13. CASE Extract(p)
  BY <1>1, <1>13 DEF Extract
<1>14. CASE Inflate(p)
  BY <1>1, <1>14 DEF Inflate
<1>15. CASE Sort(p)
  BY <1>1, <1>15 DEF Sort
<1>16. CASE Interrupt(p)
  BY <1>1, <1>16 DEF Interrupt
<1>17. QED
  BY <1>3, <1>4, <1>5, <1>6, <1>7, <1>8, <1>9, <1>10, <1>11, <1>12, <1>13, <1>14, <1>15, <1>16
  DEF Request, Body

\* What is on the shelf.
LEMMA ShelfHas ==
  /\ \A f : f \in DOMAIN Shelf <=> f \in DOMAIN dir /\ OnShelf(f)
  /\ \A f \in DOMAIN Shelf :
       Shelf[f] = [by |-> dir[f].by, is |-> IF Unfinished(f) THEN "unfinished" ELSE dir[f].is]
BY DEF Shelf

\* What a step of p does to files of others: they are on the shelf as they were.
LEMMA OthersOnShelf ==
  ASSUME DInv, NEW p \in Procs, outcome[p] = "none", Only(outcome, outcome', p),
         Only(strayed, strayed', p), SameElse(dir, dir', p), DirOK(dir)'
  PROVE  /\ \A f \in DOMAIN Shelf : f \in DOMAIN Shelf' /\ Shelf'[f] = Shelf[f]
         /\ \A f \in DOMAIN Shelf' \ DOMAIN Shelf : dir'[f].by = p
<1>1. p # "user" /\ \A q \in Procs \ {p} : outcome'[q] = outcome[q] /\ strayed'[q] = strayed[q]
  BY DownloadAssumption DEF DownloadAssumption, Only
<1>2. ASSUME NEW f \in DOMAIN dir, f \in DOMAIN dir', dir'[f] = dir[f], dir[f].by # p
      PROVE  OnShelf(f)' = OnShelf(f) /\ Unfinished(f)' = Unfinished(f)
  <2>1. dir[f].by = "user" \/ dir[f].by \in Procs \ {p}
    BY <1>2 DEF DInv, DirOK
  <2>2. Unfinished(f)' <=> Unfinished(f)
    BY <1>2 DEF Unfinished
  <2>3. OnShelf(f)' <=> OnShelf(f)
    BY <1>1, <1>2, <2>1, <2>2 DEF OnShelf
  <2>4. QED
    BY <2>2, <2>3 DEF Unfinished, OnShelf
<1>3. /\ \A f : f \in DOMAIN Shelf' <=> f \in DOMAIN dir' /\ OnShelf(f)'
      /\ \A f \in DOMAIN Shelf' :
           Shelf'[f] = [by |-> dir'[f].by, is |-> IF Unfinished(f)' THEN "unfinished" ELSE dir'[f].is]
  BY DEF Shelf
<1>4. ASSUME NEW f \in DOMAIN Shelf PROVE f \in DOMAIN Shelf' /\ Shelf'[f] = Shelf[f]
  <2>1. f \in DOMAIN dir /\ OnShelf(f)
    BY ShelfHas
  <2>2. dir[f].by # p
    BY <1>1, <2>1 DEF OnShelf
  <2>3. f \in DOMAIN dir' /\ dir'[f] = dir[f]
    BY <2>1, <2>2 DEF SameElse
  <2>4. OnShelf(f)' /\ Unfinished(f)' = Unfinished(f)
    BY <1>2, <2>1, <2>2, <2>3
  <2>5. f \in DOMAIN Shelf'
    BY <1>3, <2>3, <2>4
  <2>6. QED
    BY <1>3, <2>3, <2>4, <2>5, ShelfHas
<1>5. ASSUME NEW f \in DOMAIN Shelf' \ DOMAIN Shelf PROVE dir'[f].by = p
  <2> SUFFICES ASSUME dir'[f].by # p PROVE FALSE
    OBVIOUS
  <2>1. f \in DOMAIN dir' /\ OnShelf(f)'
    BY <1>3
  <2>2. f \in DOMAIN dir /\ dir'[f] = dir[f]
    BY <2>1 DEF SameElse
  <2>3. OnShelf(f)
    BY <1>2, <2>1, <2>2
  <2>4. QED
    BY <2>2, <2>3, ShelfHas
<1>6. QED
  BY <1>4, <1>5

\* A download that goes on has put nothing on the shelf.
LEMMA ShelfStays ==
  ASSUME DInv, NEW p \in Procs, outcome[p] = "none", outcome'[p] = "none",
         Only(outcome, outcome', p), Only(strayed, strayed', p), SameElse(dir, dir', p), DirOK(dir)'
  PROVE  Shelf' = Shelf
<1> DEFINE kept == {g \in DOMAIN dir : OnShelf(g)}
           next == {g \in DOMAIN dir' : OnShelf(g)'}
           seen(f) == [by |-> dir[f].by, is |-> IF Unfinished(f) THEN "unfinished" ELSE dir[f].is]
           anew(f) == [by |-> dir'[f].by, is |-> IF Unfinished(f)' THEN "unfinished" ELSE dir'[f].is]
<1>1. Shelf = [f \in kept |-> seen(f)] /\ Shelf' = [f \in next |-> anew(f)]
  BY DEF Shelf
<1>2. /\ \A f \in DOMAIN Shelf : f \in DOMAIN Shelf' /\ Shelf'[f] = Shelf[f]
      /\ \A f \in DOMAIN Shelf' \ DOMAIN Shelf : dir'[f].by = p
  BY OthersOnShelf
<1>3. \A f \in DOMAIN Shelf' : dir'[f].by # p
  <2>1. p # "user"
    BY DownloadAssumption DEF DownloadAssumption
  <2>2. \A f \in next : dir'[f].by # p
    BY <2>1 DEF OnShelf
  <2> HIDE DEF next, anew
  <2>3. QED
    BY <1>1, <2>2
<1> HIDE DEF kept, next, seen, anew
<1>4. kept = next
  BY <1>1, <1>2, <1>3
<1>5. \A f \in kept : anew(f) = seen(f)
  BY <1>1, <1>2, <1>4
<1>6. QED
  BY <1>1, <1>4, <1>5

\* One that ends adds files of its own, finished ones, and the one it reports.
LEMMA ShelfGains ==
  ASSUME DInv, NEW p \in Procs, outcome[p] = "none", outcome'[p] # "none",
         Only(outcome, outcome', p), Only(strayed, strayed', p), SameElse(dir, dir', p), DirOK(dir)',
         names' = names, Ended(p)', pc'[p] = "over"
  PROVE  Promise!Adds(p) /\ (outcome'[p] = "ok" => Promise!New # {})
<1>1. /\ \A f : f \in DOMAIN Shelf' <=> f \in DOMAIN dir' /\ OnShelf(f)'
      /\ \A f \in DOMAIN Shelf' :
           Shelf'[f] = [by |-> dir'[f].by, is |-> IF Unfinished(f)' THEN "unfinished" ELSE dir'[f].is]
  BY DEF Shelf
<1>2. /\ \A f \in DOMAIN Shelf : f \in DOMAIN Shelf' /\ Shelf'[f] = Shelf[f]
      /\ \A f \in DOMAIN Shelf' \ DOMAIN Shelf : dir'[f].by = p
  BY OthersOnShelf
<1>3. p # "user"
  BY DownloadAssumption DEF DownloadAssumption
<1>4. ASSUME NEW f \in DOMAIN Shelf' \ DOMAIN Shelf
      PROVE  Shelf'[f].by = p /\ Shelf'[f].is # "unfinished"
  <2>1. f \in DOMAIN dir' /\ OnShelf(f)' /\ dir'[f].by = p
    BY <1>1, <1>2
  <2>2. ~Unfinished(f)'
    <3>1. CASE strayed'[p]
      BY <1>3, <2>1, <3>1 DEF OnShelf
    <3>2. CASE ~strayed'[p]
      BY <2>1, <3>2 DEF Ended, Unfinished
    <3>3. QED
      BY <3>1, <3>2
  <2>3. dir'[f].is \in {"empty", "cut", "whole"}
    BY <2>1 DEF DirOK
  <2>4. Shelf'[f] = [by |-> p, is |-> dir'[f].is]
    BY <1>1, <2>1, <2>2
  <2>5. QED
    BY <2>3, <2>4
<1>5. ASSUME outcome'[p] = "ok" PROVE \E f : f \in DOMAIN Shelf' \ DOMAIN Shelf
  <2>1. Delivered(p)' \in NamesOf(p)
    BY <1>5 DEF Ended, NamesOf
  <2>2. PICK f : /\ f \in DOMAIN dir' /\ dir'[f].by = p /\ dir'[f].is \in {"whole", "cut"}
                 /\ f \in NamesOf(p)
    BY <1>5, <2>1 DEF Ended, Ample
  <2>3. ~Unfinished(f)'
    BY <2>2, NamesFacts DEF Unfinished, DInv
  <2>4. f \in DOMAIN Shelf'
    BY <1>1, <2>2, <2>3 DEF OnShelf
  <2>5. f \notin DOMAIN Shelf
    <3> SUFFICES ASSUME f \in DOMAIN Shelf PROVE FALSE
      OBVIOUS
    <3>1. f \in DOMAIN dir /\ dir[f].by # p
      BY <1>3, ShelfHas DEF OnShelf
    <3>2. dir'[f] = dir[f]
      BY <3>1 DEF SameElse
    <3>3. QED
      BY <2>2, <3>1, <3>2
  <2>6. QED
    BY <2>4, <2>5
<1>6. Promise!New = DOMAIN Shelf' \ DOMAIN Shelf
  BY DEF Promise!New
<1>7. Promise!Adds(p)
  BY <1>2, <1>4, <1>6 DEF Promise!Adds
<1>8. QED
  BY <1>5, <1>6, <1>7

\* Download implements Delivery (DeliversAtOnce): to everyone else a download is one step,
\* that adds finished files under new names and changes none.
THEOREM DeliveryIsKept == Spec => DeliversAtOnce
<1>1. Init => Promise!Init
  <2> SUFFICES ASSUME Init PROVE Promise!Init
    OBVIOUS
  <2>1. outcome \in [Procs -> {"none", "failed"}]
    BY DEF Init, InitLocals
  <2>2. \A f \in DOMAIN Shelf : Shelf[f].by = "user"
    <3>1. \A f \in DOMAIN dir : dir[f].by = "user"
      BY DEF Init, InitLocals
    <3>2. QED
      BY <3>1, ShelfHas
  <2>3. QED
    BY <2>1, <2>2, DownloadAssumption DEF Promise!Init, DownloadAssumption
<1>2. ASSUME DInv, DInv', [Next]_vars PROVE [Promise!Next]_<<Shelf, outcome>>
  <2>1. CASE UNCHANGED vars
    BY <2>1 DEF vars, Shelf, OnShelf, Unfinished
  <2>2. ASSUME NEW p \in Procs, Request(p) \/ Body(p) \/ Interrupt(p)
        PROVE  [Promise!Next]_<<Shelf, outcome>>
    <3>1. Kept(p) /\ Framed(p)
      BY <1>2, <2>2, StepKeeps, StepFramed DEF DInv
    <3>2. /\ Only(outcome, outcome', p) /\ Only(strayed, strayed', p)
          /\ SameElse(dir, dir', p) /\ DirOK(dir)'
          /\ Counted(p) /\ Ended(p)' /\ Tables /\ names' = names
      BY <1>2, <3>1 DEF Kept, Framed, DInv, Local
    <3>3. pc[p] # "over" /\ (Failed(p) \/ Done(p) \/ \E label : Goto(p, label))
      BY <2>2, StepAnswers
    <3>4. outcome[p] = "none"
      BY <3>2, <3>3 DEF Counted
    <3>5. CASE \E label : Goto(p, label)
      <4>1. outcome' = outcome
        BY <3>5 DEF Goto
      <4>2. Shelf' = Shelf
        BY <1>2, <3>2, <3>4, <4>1, ShelfStays
      <4>3. QED
        BY <4>1, <4>2
    <3>6. CASE Failed(p)
      <4>1. outcome' = [outcome EXCEPT ![p] = "failed"] /\ pc' = [pc EXCEPT ![p] = "over"]
        BY <3>6 DEF Failed, Over
      <4>2. outcome'[p] = "failed" /\ pc'[p] = "over"
        BY <3>2, <4>1 DEF Tables, Table
      <4>3. Promise!Adds(p)
        BY <1>2, <3>2, <3>4, <4>2, ShelfGains
      <4>4. Promise!GiveUp(p)
        BY <3>4, <4>1, <4>3 DEF Promise!GiveUp
      <4>5. QED
        BY <4>4 DEF Promise!Next
    <3>7. CASE Done(p)
      <4>1. outcome' = [outcome EXCEPT ![p] = "ok"] /\ pc' = [pc EXCEPT ![p] = "over"]
        BY <3>7 DEF Done, Over
      <4>2. outcome'[p] = "ok" /\ pc'[p] = "over"
        BY <3>2, <4>1 DEF Tables, Table
      <4>3. Promise!Adds(p) /\ Promise!New # {}
        BY <1>2, <3>2, <3>4, <4>2, ShelfGains
      <4>4. Promise!Deliver(p)
        BY <3>4, <4>1, <4>3 DEF Promise!Deliver
      <4>5. QED
        BY <4>4 DEF Promise!Next
    <3>8. QED
      BY <3>3, <3>5, <3>6, <3>7
  <2>3. QED
    BY <1>2, <2>1, <2>2 DEF Next
<1>3. DInv /\ DInv' /\ [Next]_vars => [Promise!Next]_<<Shelf, outcome>>
  BY <1>2
<1>4. QED
  BY <1>1, <1>3, DownloadInvariant, PTL DEF Spec, DeliversAtOnce, Promise!Spec

\* Any number of downloads in one directory leave each other's files alone and each is one
\* step to the others (SharesDirectory).
THEOREM DirectoryIsShared == Spec => SharesDirectory
BY OwnFiles, DeliveryIsKept DEF SharesDirectory
=============================================================================
