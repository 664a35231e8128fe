--------------------------- MODULE PortablePattern ---------------------------
(* The scanner of the patterns an administrator may give a text parameter: it *)
(* runs once over the source, refuses what two regular expression engines     *)
(* might read differently or take long over, and learns the length of the     *)
(* longest text the pattern can match.  A source is a sequence of branches,   *)
(* a branch a sequence of atoms: the characters an atom accepts (Dot for the  *)
(* dot), whether its spelling is sound, and its repetition, if it has one.    *)
EXTENDS Naturals, Sequences, FiniteSets, SequencesExt

CONSTANTS
  Sources,                \* the sources scanned
  Dot,                    \* what the dot accepts
  Hyphen, Open, Caret,    \* the characters - [ and ^
  Meta,                   \* the characters that may be escaped
  Forbidden,              \* those that must not stand for themselves
  MaxAlternatives, MaxAtoms, MaxQuantified, MaxRepetition, MaxLength

\* What the constants must satisfy.
PatternConstants ==
    /\ {MaxAlternatives, MaxAtoms, MaxQuantified, MaxRepetition, MaxLength} \subseteq Nat
    /\ {Hyphen, Open, Caret} \cup Meta \cup Forbidden \subseteq Nat

VARIABLES source,
          branch,    \* the branch being scanned
          atoms,     \* atoms of it scanned
          repeated,  \* those with a repetition
          length,    \* the longest text of the branch so far
          maxima,    \* the longest texts of the branches before
          verdict    \* "scanning", "invalid" or "compiled"

vars == <<source, branch, atoms, repeated, length, maxima, verdict>>

(* A character class is read from the left: three items make a range when the *)
(* middle one is a plain hyphen, and the others stand for themselves.         *)
IsRange(items, i) == /\ i + 2 <= Len(items) /\ items[i].char # Hyphen
                     /\ items[i + 1].char = Hyphen /\ ~items[i + 1].escaped
Turns(items) ==
    LET turn[n \in 0..Len(items)] ==
            IF n = 0 THEN 1 ELSE turn[n - 1] + IF IsRange(items, turn[n - 1]) THEN 3 ELSE 1
    IN {turn[n] : n \in 0..Len(items)} \cap DOMAIN items
ItemFits(items, i) ==
    IF IsRange(items, i)
    THEN items[i + 2].char # Hyphen /\ items[i].char <= items[i + 2].char
    ELSE items[i].char = Hyphen => items[i].escaped \/ i \in {1, Len(items)}
ClassFits(items) ==
    /\ items # <<>>
    /\ \A i \in DOMAIN items : IF items[i].escaped THEN items[i].char \in Meta
                             ELSE items[i].char # Open /\ ~(i = 1 /\ items[i].char = Caret)
    /\ \A i \in Turns(items) : ItemFits(items, i)
ClassAccepts(items) ==
    UNION {IF IsRange(items, i) THEN items[i].char..items[i + 2].char ELSE {items[i].char} :
              i \in Turns(items)}

Sound(a) == CASE a.kind = "dot" -> TRUE
              [] a.kind = "character" -> a.char \in (IF a.escaped THEN Meta ELSE Nat \ Forbidden)
              [] a.kind = "class" -> ClassFits(a.items)
Accepts(a) == CASE a.kind = "dot" -> Dot
                [] a.kind = "character" -> {a.char}
                [] a.kind = "class" -> ClassAccepts(a.items)

Overlaps(a, b) == a = Dot \/ b = Dot \/ a \cap b # {}

Init == /\ source \in Sources /\ branch = 1 /\ atoms = 0 /\ repeated = 0 /\ length = 0
        /\ maxima = <<>> /\ verdict = IF source = <<>> THEN "invalid" ELSE "scanning"

Atom == source[branch][atoms + 1]
Previous == source[branch][atoms]
Upper(a) == IF a.quantified THEN a.upper ELSE 1

Spelled(a) == Sound(a) /\ (a.quantified => a.lower <= a.upper /\ a.upper <= MaxRepetition)

AtomFits ==
    /\ atoms + 1 <= MaxAtoms
    /\ Spelled(Atom)
    /\ Atom.quantified => /\ repeated + 1 <= MaxQuantified
                          /\ atoms > 0 /\ Previous.quantified =>
                                 ~Overlaps(Accepts(Previous), Accepts(Atom))
    /\ length + Upper(Atom) <= MaxLength

ScanAtom ==
    /\ verdict = "scanning" /\ atoms < Len(source[branch])
    /\ IF AtomFits
       THEN /\ atoms' = atoms + 1 /\ length' = length + Upper(Atom)
            /\ repeated' = repeated + IF Atom.quantified THEN 1 ELSE 0
            /\ UNCHANGED verdict
       ELSE verdict' = "invalid" /\ UNCHANGED <<atoms, length, repeated>>
    /\ UNCHANGED <<source, branch, maxima>>

(* After the separator the number of branches so far may be one short of the  *)
(* limit and no more.                                                         *)
AtLimit(n) == n > MaxAlternatives
TooMany(n) == n >= MaxAlternatives
ScanSeparator ==
    /\ verdict = "scanning" /\ atoms = Len(source[branch]) /\ branch < Len(source)
    /\ maxima' = Append(maxima, length)
    /\ IF atoms = 0 \/ TooMany(Len(maxima) + 1)
       THEN verdict' = "invalid" /\ UNCHANGED <<branch, atoms, repeated, length>>
       ELSE branch' = branch + 1 /\ atoms' = 0 /\ repeated' = 0 /\ length' = 0 /\ UNCHANGED verdict
    /\ UNCHANGED source
Compile ==
    /\ verdict = "scanning" /\ atoms = Len(source[branch]) /\ branch = Len(source)
    /\ maxima' = Append(maxima, length) /\ verdict' = IF atoms = 0 THEN "invalid" ELSE "compiled"
    /\ UNCHANGED <<source, branch, atoms, repeated, length>>

Next == ScanAtom \/ ScanSeparator \/ Compile
Spec == Init /\ [][Next]_vars

MaxMatchLength == CHOOSE m \in ToSet(maxima) : \A n \in ToSet(maxima) : n <= m

-----------------------------------------------------------------------------
(* What a portable pattern is, and its texts, without the scan.               *)
Longest(b) == FoldLeft(LAMBDA sum, a : sum + Upper(a), 0, b)
PortableBranch(b) ==
    /\ Len(b) \in 1..MaxAtoms
    /\ \A a \in ToSet(b) : Spelled(a)
    /\ Cardinality({i \in DOMAIN b : b[i].quantified}) <= MaxQuantified
    /\ \A i \in DOMAIN b \ {1} :
           b[i].quantified /\ b[i - 1].quantified => ~Overlaps(Accepts(b[i]), Accepts(b[i - 1]))
    /\ Longest(b) <= MaxLength
Portable(s) == Len(s) \in 1..MaxAlternatives /\ \A b \in ToSet(s) : PortableBranch(b)

(* The scan compiles the portable patterns and no others, each limit counted  *)
(* to the very last branch, atom and repetition, and the length beyond which  *)
(* a text is refused unread is the length of the longest text there is        *)
(* (pattern.ts, PatternScanner and matches).                                  *)
ScanIsExact ==
    /\ verdict = "compiled" => /\ Portable(source)
                               /\ MaxMatchLength \in {Longest(b) : b \in ToSet(source)}
                               /\ \A b \in ToSet(source) : Longest(b) <= MaxMatchLength
    /\ verdict = "invalid" => ~Portable(source)
=============================================================================
