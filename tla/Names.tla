------------------------------- MODULE Names -------------------------------
(***************************************************************************)
(* File names: download/naming.py and the unused names of fsutil.py.       *)
(*                                                                         *)
(* A name is a sequence of tokens, each with a length in bytes: "x" is an  *)
(* ordinary character, "w" one of two bytes, "bad" one that is not         *)
(* portable, "dev" a reserved device name (three bytes); "stl" and "step"  *)
(* stand for the supported extensions.  Budget scales the limit            *)
(* MAX_DOWNLOAD_FILENAME_LENGTH down.                                      *)
(***************************************************************************)
EXTENDS Naturals, Sequences, SequencesExt, FiniteSetsExt

CONSTANT Budget

Tokens == {"x", "w", ".", " ", "/", "bad", "dev", "stl"}
Extensions == {"stl", "step"}
AllExtensions == Extensions \cup {"zip"}
Fallback == <<"x", ".", "stl">>

TokenBytes(t) == CASE t = "dev" -> 3 [] t \in {"w", "-"} -> 2 [] OTHER -> 1
Bytes(name) == FoldLeft(LAMBDA sum, t : sum + TokenBytes(t), 0, name)

Truncate(name, budget) ==
  SubSeq(name, 1, Max({0} \cup {n \in 1..Len(name) : Bytes(SubSeq(name, 1, n)) <= budget}))

\* Without leading and trailing spaces and dots.
Strip(name) ==
  LET inner == {i \in DOMAIN name : name[i] \notin {" ", "."}}
  IN  IF inner = {} THEN <<>> ELSE SubSeq(name, Min(inner), Max(inner))

Basename(name) ==
  SubSeq(name, Max({0} \cup {i \in DOMAIN name : name[i] = "/"}) + 1, Len(name))

\* os.path.splitext: the last dot starts the extension, unless only dots precede it.
ExtensionAt(name) ==
  Max({0} \cup {i \in DOMAIN name : name[i] = "." /\ \E j \in 1..(i - 1) : name[j] # "."})
Stem(name) == IF ExtensionAt(name) = 0 THEN name ELSE SubSeq(name, 1, ExtensionAt(name) - 1)
Extension(name) ==
  IF ExtensionAt(name) = 0 THEN <<>> ELSE SubSeq(name, ExtensionAt(name), Len(name))

\* Reserved up to the first dot.
IsDevice(name) == Len(name) > 0 /\ name[1] = "dev" /\ (Len(name) = 1 \/ name[2] = ".")

\* What the printer-side commands accept, but for its length.
Portable(name) ==
  /\ name \notin {<<>>, <<".">>, <<".", ".">>}
  /\ Basename(name) = name
  /\ \A i \in DOMAIN name : name[i] # "bad"
  /\ Strip(name) = name
  /\ ~IsDevice(name)

SafeRemoteName(name) == Portable(name) /\ Bytes(name) <= Budget

Half(n) == n \div 2
Shorten(name) ==
  LET room == Min({Bytes(Extension(name)), Half(Budget)})
  IN  Truncate(Stem(name), Max({1, Budget - room})) \o Truncate(Extension(name), room)

Cleaned(raw) == Strip([i \in DOMAIN Basename(raw) |->
                         IF Basename(raw)[i] = "bad" THEN "_" ELSE Basename(raw)[i]])
Undeviced(name) == IF IsDevice(name) THEN <<"_">> \o name ELSE name

Sanitize(raw) ==
  IF Cleaned(raw) = <<>> THEN Fallback
  ELSE LET name == Undeviced(Cleaned(raw))
           short == Strip(IF Bytes(name) > Budget THEN Shorten(name) ELSE name)
       IN  IF SafeRemoteName(short) THEN short ELSE Fallback

\* The extension of the source, in the place of another supported one or after the name.
WithExtension(name, ext) ==
  IF Extension(name) \in {<<".", e>> : e \in AllExtensions}
  THEN Stem(name) \o <<".", ext>> ELSE name \o <<".", ext>>

Suffixed(name, n) ==
  IF n = 0 THEN name ELSE Stem(name) \o [i \in 1..n |-> "-"] \o Extension(name)
=============================================================================
