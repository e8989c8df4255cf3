---------------------------- MODULE PropertyStore ----------------------------
(***************************************************************************)
(* The property service as the shell uses it: the commands of              *)
(* property_cmd.c with their static buffers, set_property and get_property,*)
(* the tree of system_properties.c and the file that persistent properties *)
(* are written through to, with power cuts at every step.  PropertyLock    *)
(* has the locks: one operation runs at a time here.                       *)
(***************************************************************************)
EXTENDS PropertyText

CONSTANTS Keys,         \* the names that are typed
          Values,       \* the values that are typed
          Leftovers,    \* what lies behind a typed word in the shell's memory
          Nul,          \* the terminator of a string in a buffer
          Disks,        \* build.prop as the device may come
          Overrides,    \* recovery.conf as the device may come
          MaxText,      \* bound: no set is typed once build.prop is longer
          NoFile        \* build.prop does not exist

Bytes == Tokens \cup {Nul}

\* The memory behind a word is readable as far as PROP_VALUE_MAX bytes are copied.
ASSUME StoreAssumption ==
    /\ Keys \subseteq Text /\ Values \subseteq Text
    /\ Disks \subseteq Text /\ Overrides \subseteq Text
    /\ Leftovers \subseteq Seq(Bytes) /\ \A rest \in Leftovers : Len(rest) >= ValueMax
    /\ MaxText \in Nat
    /\ NoFile \notin Text
    /\ Nul \notin Tokens

VARIABLES disk,         \* the text of build.prop
          ota,          \* the text of recovery.conf
          mem,          \* the tree: a function from the keys in it to their values
          prop_key,     \* the name in the buffer of the shell command
          prop_value,   \* the bytes of its other buffer
          text,         \* what op_prop_file has read before it truncates the file
          pc,           \* the next step of set_property
          tainted       \* history: since the boot a set has not reached the file as it
                        \* has the tree

vars == <<disk, ota, mem, prop_key, prop_value, text, pc, tainted>>

Stored(k) == k \in DOMAIN mem

\* The string in a buffer: all that is in it, if there is no terminator.
StringIn(buf) == Before(Append(buf, Nul), Nul)
Value == StringIn(prop_value)

\* Static data are zero at first.
Zeroed == [i \in 1..ValueMax |-> Nul]

\* What a boot reads: build.prop, then recovery.conf.
TextOf(d) == IF d = NoFile THEN <<>> ELSE d
Booted(t) == Then(Loaded(t), Loaded(ota))
Saved(d) == Booted(TextOf(d))

Init == /\ disk \in Disks \cup {NoFile}
        /\ ota \in Overrides
        /\ mem = Saved(disk)
        /\ prop_key = <<>> /\ prop_value = Zeroed
        /\ text = <<>>
        /\ pc = "idle"
        /\ tainted = FALSE

\* A power cut at any moment, and load_all_props.
Reboot == /\ pc # "crashed"
          /\ mem' = Saved(disk)
          /\ prop_key' = <<>> /\ prop_value' = Zeroed
          /\ text' = <<>>
          /\ pc' = "idle"
          /\ tainted' = FALSE
          /\ UNCHANGED <<disk, ota>>

-----------------------------------------------------------------------------
(* property get                                                             *)

\* "property get" alone lists the tree.
CmdList == /\ pc = "idle"
           /\ prop_key' = <<>>
           /\ UNCHANGED <<disk, ota, mem, prop_value, text, pc, tainted>>

\* strncpy of a value shorter than the buffer, without its terminator: whatever
\* lies behind it stays.
Overlaid(v, buf) == [i \in 1..ValueMax |-> IF i <= Len(v) THEN v[i] ELSE buf[i]]

\* memset of as many bytes as the string has: what lies behind it stays.
Cleared(buf) == [i \in 1..ValueMax |-> IF i <= Len(StringIn(buf)) THEN Nul ELSE buf[i]]

\* A persistent property that is not there is looked up as a read-only one, under
\* the name that PROP_KEY_MAX bytes hold.
ReadOnlyTwin(k) == IF IsPersistent(k) THEN <<"ro.">> \o SubSeq(k, 2, Min({Len(k), KeyMax}))
                   ELSE k

\* Mutant: the buffer is not cleared when there is no such property.
GetResultKept(k) == IF Stored(k) THEN Overlaid(mem[k], prop_value)
                    ELSE IF Stored(ReadOnlyTwin(k))
                         THEN Overlaid(mem[ReadOnlyTwin(k)], prop_value)
                    ELSE prop_value

\* __system_property_get: what is in the buffer afterwards.
GetResult(k) == IF Stored(k) THEN Overlaid(mem[k], prop_value)
                ELSE IF Stored(ReadOnlyTwin(k))
                     THEN Overlaid(mem[ReadOnlyTwin(k)], Cleared(prop_value))
                ELSE Cleared(prop_value)

\* A buffer without a terminator ends behind its last byte: the memset of a get
\* that finds nothing goes on there, and may clear the name before its twin is
\* looked up.
CmdGet(k) ==
    /\ pc = "idle"
    /\ \/ prop_key' = k /\ prop_value' = GetResult(k)
       \/ /\ ~Stored(k) /\ Len(Value) = ValueMax
          /\ prop_key' = <<>> /\ prop_value' = Zeroed
    /\ UNCHANGED <<disk, ota, mem, text, pc, tainted>>

-----------------------------------------------------------------------------
(* property set                                                             *)

\* PROP_VALUE_MAX bytes are copied from where the word begins: the word, its
\* terminator, and what lies behind it.
Copied(v, rest) == SubSeq(v \o <<Nul>> \o rest, 1, ValueMax)

CmdSet(k, v, rest) == /\ pc = "idle" /\ Len(TextOf(disk)) <= MaxText
                      /\ prop_key' = k /\ prop_value' = Copied(v, rest)
                      /\ pc' = "set"
                      /\ UNCHANGED <<disk, ota, mem, text, tainted>>

\* Too few arguments: the usage is printed, and set_property is called anyway
\* with what the buffers hold.
CmdSetUsage == /\ pc = "idle" /\ Len(TextOf(disk)) <= MaxText
               /\ pc' = "set"
               /\ UNCHANGED <<disk, ota, mem, prop_key, prop_value, text, tainted>>

\* set_property returns with wmutex locked, and the next command waits for it.
SetRefused == /\ pc = "set"
              /\ ~is_legal_property_name(prop_key)
              /\ pc' = "frozen"
              /\ UNCHANGED <<disk, ota, mem, prop_key, prop_value, text, tainted>>

\* Mutant: read-only properties are not looked at.
GivesUpOnLength == Len(Value) >= ValueMax

\* __system_property_set gives up: the value is too long, or the property is
\* there and read-only.
GivesUp == \/ Len(Value) >= ValueMax
           \/ IsReadOnly(prop_key) /\ Stored(prop_key)
SetGivesUp == /\ pc = "set"
              /\ is_legal_property_name(prop_key)
              /\ GivesUp
              /\ pc' = "idle"
              /\ UNCHANGED <<disk, ota, mem, prop_key, prop_value, text, tainted>>

Goes == is_legal_property_name(prop_key) /\ ~GivesUp

\* op_prop_file reads the file and opens it for writing, which empties it.
SetTruncates == /\ pc = "set" /\ Goes
                /\ IsPersistent(prop_key)
                /\ text' = TextOf(disk)
                /\ disk' = <<>>
                /\ pc' = "truncated"
                /\ disk = NoFile => ~Stored(prop_key)
                /\ UNCHANGED <<ota, mem, prop_key, prop_value, tainted>>

\* Without a file op_prop_file calls fclose(NULL), which some C libraries do not
\* survive; if it does, the search for a key that is in the tree (from
\* recovery.conf) reads from the null pointer.
SetWithoutFile == /\ pc = "set" /\ Goes
                  /\ IsPersistent(prop_key)
                  /\ disk = NoFile
                  /\ pc' = "crashed"
                  /\ UNCHANGED <<disk, ota, mem, prop_key, prop_value, text, tainted>>

\* The one line that defines the key is where op_prop_file will write: its first
\* hit begins the line, the old value follows, and no other line overrides it.
HitsItsLine ==
    LET at == Min(Hits(text, prop_key))
    IN  /\ Hits(text, prop_key) # {}
        /\ at \in Starts(text)
        /\ LineAt(text, at) = prop_key \o <<Equals>> \o mem[prop_key]
        /\ \A i \in Starts(text) \ {at} : prop_key \notin DOMAIN Puts(Trim(LineAt(text, i)))
        /\ prop_key \notin DOMAIN Loaded(ota)

\* A new line can be added where the last one has ended.
EndsItsLine == text = <<>> \/ Last(text) = EOL

\* A boot reads such a value as it was written.
Word(s) == /\ \A i \in 1..Len(s) : s[i] # EOL
           /\ s # <<>> => s[1] # Blank /\ s[Len(s)] # Blank

\* The old length that op_prop_file is given is that of the value in the tree.
SetAppends == /\ pc = "truncated" /\ ~Stored(prop_key)
              /\ disk' = Appended(text, prop_key, Value)
              /\ tainted' = (tainted \/ ~EndsItsLine \/ ~Word(Value))
              /\ pc' = "put"
              /\ UNCHANGED <<ota, mem, prop_key, prop_value, text>>

SetRewrites ==
    /\ pc = "truncated" /\ Stored(prop_key)
    /\ Hits(text, prop_key) # {} => RetLen(text, prop_key, Len(mem[prop_key])) >= 0
    /\ disk' = Rewritten(text, prop_key, Len(mem[prop_key]), Value)
    /\ tainted' = (tainted \/ ~HitsItsLine \/ ~Word(Value))
    /\ pc' = "put"
    /\ UNCHANGED <<ota, mem, prop_key, prop_value, text>>

\* ret_len is negative, and fwrite takes it for a huge length.
SetOverruns == /\ pc = "truncated" /\ Stored(prop_key)
               /\ Hits(text, prop_key) # {}
               /\ RetLen(text, prop_key, Len(mem[prop_key])) < 0
               /\ tainted' = (tainted \/ ~HitsItsLine)
               /\ pc' = "crashed"
               /\ UNCHANGED <<disk, ota, mem, prop_key, prop_value, text>>

TreeWithPut == [k \in DOMAIN mem \cup {prop_key} |->
                  IF k = prop_key THEN Value ELSE mem[k]]

PutsNow == \/ pc = "put"
           \/ pc = "set" /\ Goes /\ ~IsPersistent(prop_key)

SetPuts == /\ PutsNow
           /\ mem' = TreeWithPut
           /\ pc' = "idle"
           /\ text' = <<>>
           /\ UNCHANGED <<disk, ota, prop_key, prop_value, tainted>>

\* The pool has no room for a new value or a longer one (see ValuePool), and
\* set_property does not learn of it.
SetDropped ==
    /\ PutsNow
    /\ Stored(prop_key) => Len(Value) > Len(mem[prop_key])
    /\ tainted' = (tainted \/ IsPersistent(prop_key))
    /\ pc' = "idle"
    /\ text' = <<>>
    /\ UNCHANGED <<disk, ota, mem, prop_key, prop_value>>

Next == \/ Reboot \/ CmdList \/ CmdSetUsage
        \/ \E k \in Keys : \/ CmdGet(k)
                        \/ \E v \in Values, rest \in Leftovers : CmdSet(k, v, rest)
        \/ SetRefused \/ SetGivesUp \/ SetTruncates \/ SetWithoutFile
        \/ SetAppends \/ SetRewrites \/ SetOverruns \/ SetPuts \/ SetDropped

Spec == Init /\ [][Next]_vars
-----------------------------------------------------------------------------
TypeOK == /\ disk \in Text \cup {NoFile} /\ ota \in Overrides /\ text \in Text
          /\ \A k \in DOMAIN mem : /\ is_legal_property_name(k)
                                   /\ mem[k] \in Text /\ Len(mem[k]) < ValueMax
          /\ prop_key \in Keys \cup {<<>>}
          /\ prop_value \in [1..ValueMax -> Bytes]
          /\ pc \in {"idle", "set", "truncated", "put", "frozen", "crashed"}
          /\ tainted \in BOOLEAN

Persistent(m) == [k \in {j \in DOMAIN m : IsPersistent(j)} |-> m[k]]

\* The tree once the set that has written the file is through.
Intended == IF pc = "put" THEN TreeWithPut ELSE mem

\* A reboot brings back exactly the persistent properties the tree has, at every
\* step but between the truncation and the writing of the file, as long as
\* every set found the key's own line with the old value in it (or a finished
\* last line to append to) and the pool had room: there is no other way for
\* the file and the tree to part, over any number of sets and reboots.
FileFollowsMemory ==
    ~tainted /\ pc \notin {"truncated", "crashed"}
        => Persistent(Saved(disk)) = Persistent(Intended)

\* op_prop_file's lengths stay inside the file it has read, unless it has hit
\* another place than the key's line or a length that is not the old value's.
RewriteInBounds == pc = "crashed" => disk = NoFile \/ tainted

\* Between two boots no command changes a read-only property that is there.
ReadOnlyKept ==
    [][(\A k \in DOMAIN mem : IsReadOnly(k) =>
           k \in DOMAIN mem' /\ mem'[k] = mem[k]) \/ Reboot]_vars

\* What get_property owes its caller.
Owed(k) == IF Stored(k) THEN mem[k]
           ELSE IF Stored(ReadOnlyTwin(k)) THEN mem[ReadOnlyTwin(k)] ELSE <<>>

Shown(k) == StringIn(GetResult(k))

\* What a get prints begins with what it owes; what follows is what commands
\* before it have left in the buffer at that very place, and where nothing is owed
\* nothing is printed.  A set's own value is printed as it was set, whatever lay
\* behind the typed word, if no command comes in between.
GetShowsTheValue ==
    [][/\ \A k \in Keys : CmdGet(k) =>
             LET owed == Owed(prop_key')
                 shown == StringIn(prop_value')
             IN  /\ Len(owed) <= Len(shown)
                 /\ \A i \in 1..Len(shown) :
                       shown[i] = IF i <= Len(owed) THEN owed[i] ELSE prop_value[i]
                 /\ Stored(k) \/ Stored(ReadOnlyTwin(prop_key')) \/ shown = <<>>
       /\ SetPuts => (Shown(prop_key) = Owed(prop_key))']_vars

\* "Usage : property set <prop_key> <prop_value>": a command line that was not
\* understood does nothing.  While every name typed is a legal one, nobody
\* stops the service.
NeverFrozen == pc # "frozen"
=============================================================================
