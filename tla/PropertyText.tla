---------------------------- MODULE PropertyText ----------------------------
(***************************************************************************)
(* The property files: how load_properties of property_service.c reads one *)
(* and how op_prop_file of system_properties.c rewrites one.  A file is a  *)
(* sequence of tokens; the prefixes that the code compares as a whole      *)
(* ("persist.", "ro.", "import ") are one token each, anything else is a   *)
(* character.                                                              *)
(***************************************************************************)
EXTENDS Integers, Sequences, FiniteSets, TLC, SequencesExt

CONSTANTS NameChars,    \* what a name is made of, besides the prefixes
          Files,        \* the files an import can name, and their texts
          KeyMax,       \* PROP_KEY_MAX
          ValueMax      \* PROP_VALUE_MAX

\* The tokens that end a line, and a name in it.
EOL == "\n"
Blank == " "
Equals == "="

Special == {"persist.", "ro.", "import ", Equals, EOL, Blank, "#", "*"}
Tokens == NameChars \cup Special
Text == Seq(Tokens)

\* Imports nest one level: no imported file imports another.
ASSUME TextAssumption ==
    /\ KeyMax \in Nat /\ ValueMax \in Nat
    /\ NameChars \cap Special = {}
    /\ \A f \in DOMAIN Files : Files[f] \in Text /\ ~Contains(Files[f], "import ")

Prefixed(k, p) == k # <<>> /\ k[1] = p
IsPersistent(k) == Prefixed(k, "persist.")
IsReadOnly(k) == Prefixed(k, "ro.")

\* A prefix ends in a dot, and a name does not.
is_legal_property_name(k) ==
    /\ Len(k) \in 1..KeyMax - 1
    /\ \A i \in 1..Len(k) : k[i] \in NameChars \cup {"persist.", "ro."}
    /\ Last(k) \in NameChars

-----------------------------------------------------------------------------
(* load_properties                                                          *)

\* read_file adds a newline, so that what follows the last one is a line too.
Starts(t) == {i \in 1..Len(t) + 1 : i = 1 \/ t[i - 1] = EOL}
End(t, i) == Min({j \in i..Len(t) + 1 : j = Len(t) + 1 \/ t[j] = EOL})
LineAt(t, i) == SubSeq(t, i, End(t, i) - 1)

Trim(s) == LET solid == {i \in 1..Len(s) : s[i] # Blank}
           IN  IF solid = {} THEN <<>> ELSE SubSeq(s, Min(solid), Max(solid))

\* The text before the first c, and the text after it.
First(s, c) == Min({i \in 1..Len(s) : s[i] = c})
Before(s, c) == SubSeq(s, 1, First(s, c) - 1)
After(s, c) == SubSeq(s, First(s, c) + 1, Len(s))

\* A filter is empty, a name, or a prefix with a star behind it.
Passes(k, filter) == \/ filter = <<>>
                     \/ Last(filter) = "*" /\ IsPrefix(Front(filter), k)
                     \/ filter = k

\* Mutant: the length of the value is not checked.
LinePutsAnyLength(l, filter) ==
    LET key  == Trim(Before(l, Equals))
        puts == /\ ~Prefixed(l, "#")
                /\ Contains(l, Equals)
                /\ Passes(key, filter)
                /\ is_legal_property_name(key)
    IN  [k \in IF puts THEN {key} ELSE {} |-> Trim(After(l, Equals))]

\* The property that a line puts, if it puts one: a function from its name to its value.
LinePuts(l, filter) ==
    LET key   == Trim(Before(l, Equals))
        value == Trim(After(l, Equals))
        puts  == /\ ~Prefixed(l, "#")
                 /\ Contains(l, Equals)
                 /\ Passes(key, filter)
                 /\ is_legal_property_name(key)
                 /\ Len(value) < ValueMax
    IN  [k \in IF puts THEN {key} ELSE {} |-> value]

\* What puts leave behind that are made in this order: the last one counts.
Latest(puts) ==
    [k \in UNION {DOMAIN puts[i] : i \in DOMAIN puts} |->
        puts[Max({i \in DOMAIN puts : k \in DOMAIN puts[i]})][k]]

FilteredPuts(t, filter) == Latest([i \in Starts(t) |-> LinePuts(Trim(LineAt(t, i)), filter)])

\* "import f" takes all of f, "import f filter" what passes.
ImportPuts(l) ==
    LET name   == IF Contains(l, Blank) THEN Before(l, Blank) ELSE l
        filter == IF Contains(l, Blank) THEN Trim(After(l, Blank)) ELSE <<>>
    IN  IF name \in DOMAIN Files THEN FilteredPuts(Files[name], filter) ELSE <<>>

\* What a line of a file loaded without a filter puts.
Puts(l) == IF Prefixed(l, "import ") THEN ImportPuts(Trim(Tail(l))) ELSE LinePuts(l, <<>>)

Loaded(t) == Latest([i \in Starts(t) |-> Puts(Trim(LineAt(t, i)))])

\* What is left of the puts of one file and then of another.
Then(f, g) == [k \in DOMAIN f \cup DOMAIN g |-> IF k \in DOMAIN g THEN g[k] ELSE f[k]]

-----------------------------------------------------------------------------
(* op_prop_file                                                             *)

\* Where the characters of the key are, be it in a line of that key or not.
Hits(t, k) == {i \in 1..Len(t) - Len(k) + 1 : SubSeq(t, i, i + Len(k) - 1) = k}

\* Mutant: move_len leaves out the character behind the key.
MoveLenShort(t, k) == Min(Hits(t, k)) - 1 + Len(k)

\* move_len: up to the first hit and the character behind it.
MoveLen(t, k) == Min(Hits(t, k)) - 1 + Len(k) + 1

\* Mutant: the terminator of the old value is counted.
RetLenTerminated(t, k, old) == Len(t) - MoveLen(t, k) - (old + 1)

\* What is left behind the old value; negative if there is not so much.
RetLen(t, k, old) == Len(t) - MoveLen(t, k) - old

\* The value behind the first hit, old characters of it, gives way to v; a file
\* without a hit is left empty.
Rewritten(t, k, old, v) ==
    IF Hits(t, k) = {} THEN <<>>
    ELSE SubSeq(t, 1, MoveLen(t, k)) \o v
         \o SubSeq(t, MoveLen(t, k) + old + 1, Len(t))

Appended(t, k, v) == t \o k \o <<Equals>> \o v \o <<EOL>>
=============================================================================
