----------------------------- MODULE UnixConfig -----------------------------
(***************************************************************************)
(* framework/unix_config.{h,cpp}: a hash table of chained nodes that is    *)
(* read from text, a line per pair, and written to a file.  The file is    *)
(* not truncated when it is written: what was behind the new end stays.    *)
(*                                                                         *)
(* Lines are as long as each other, shorter than MAX_LINE_SIZE, and have a *)
(* key and a value without delimiters; a line of another form, which       *)
(* parse_line refuses, is Junk.                                            *)
(***************************************************************************)
EXTENDS Integers, Sequences, SequencesExt

CONSTANTS Keys, Settings, NoSetting,
          Buckets,     \* BUCKETS_SIZE
          BucketOf,    \* bucket(hash(key))
          Junk,
          MaxText,     \* bound: lines of a block of data that is loaded
          MaxPairs     \* bound: lines of the file

ASSUME ConfigAssumption ==
    /\ NoSetting \notin Settings
    /\ Buckets \in Nat \ {0} /\ BucketOf \in [Keys -> 1 .. Buckets]
    /\ MaxText \in 0 .. MaxPairs /\ MaxPairs \in Nat

VARIABLES chains,      \* m_buckets: the nodes from the head of each list on
          configFile   \* the lines of the file

configVars == <<chains, configFile>>

Pairs == [key : Keys, value : Settings]

ASSUME JunkAssumption == Junk \notin Pairs

NoChains == [b \in 1 .. Buckets |-> << >>]

ConfigInit ==
    /\ chains = NoChains
    /\ configFile = << >>

\* get_node: the place of a key in its list, or 0.
NodeAt(cs, k) == SelectInSeq(cs[BucketOf[k]], LAMBDA node : node.key = k)

Get(cs, k) ==
    IF NodeAt(cs, k) = 0 THEN NoSetting ELSE cs[BucketOf[k]][NodeAt(cs, k)].value

\* A fault in the code that the property must catch: set does not look for an old node.
StoredTwice(cs, node) == [cs EXCEPT ![BucketOf[node.key]] = <<node>> \o @]

\* set: a node takes the place of an old one with its key, or is put in front.
Stored(cs, node) ==
    LET at == NodeAt(cs, node.key)
    IN  IF at # 0 THEN [cs EXCEPT ![BucketOf[node.key]] = ReplaceAt(@, at, node)]
        ELSE [cs EXCEPT ![BucketOf[node.key]] = <<node>> \o @]

SetConfig(node) ==
    /\ chains' = Stored(chains, node)
    /\ UNCHANGED configFile

RemoveConfig(k) ==
    /\ NodeAt(chains, k) # 0
    /\ chains' = [chains EXCEPT ![BucketOf[k]] = RemoveAt(@, NodeAt(chains, k))]
    /\ UNCHANGED configFile

ClearConfig ==
    /\ chains' = NoChains
    /\ UNCHANGED configFile

\* load of a file or of a block of data: parse_line sets the pairs it finds.
Parsed(cs, line) == IF line = Junk THEN cs ELSE Stored(cs, line)

Loaded(cs, text) ==
    LET after[n \in 0 .. Len(text)] == IF n = 0 THEN cs ELSE Parsed(after[n - 1], text[n])
    IN  after[Len(text)]

LoadConfig ==
    /\ chains' = Loaded(chains, configFile)
    /\ UNCHANGED configFile

LoadText(text) ==
    /\ chains' = Loaded(chains, text)
    /\ UNCHANGED configFile

\* dump writes the lists one after the other, over the beginning of the file.
Dump == FlattenSeq(chains)

SaveConfig ==
    /\ configFile' = Dump \o SubSeq(configFile, Len(Dump) + 1, Len(configFile))
    /\ Len(configFile') <= MaxPairs
    /\ UNCHANGED chains

\* What may be loaded from a block of data.
Texts == UNION {[1 .. n -> Pairs \cup {Junk}] : n \in 0 .. MaxText}

ConfigNext ==
    \/ \E node \in Pairs : SetConfig(node)
    \/ \E k \in Keys : RemoveConfig(k)
    \/ \E text \in Texts : LoadText(text)
    \/ ClearConfig \/ LoadConfig \/ SaveConfig

ConfigSpec == ConfigInit /\ [][ConfigNext]_configVars
-----------------------------------------------------------------------------
\* The lists of a bucket are searched, changed in the middle and rebuilt as if they were
\* one map: every operation changes what get returns as Dictionary says (cpp:44-278).
Map == INSTANCE Dictionary WITH dict <- [k \in Keys |-> Get(chains, k)]

PairsOf(text) ==
    LET pairs[n \in 0 .. Len(text)] ==
            IF n = 0 THEN << >>
            ELSE IF text[n] = Junk THEN pairs[n - 1] ELSE Append(pairs[n - 1], text[n])
    IN  pairs[Len(text)]

ConfigIsMap ==
    /\ Map!DictInit
    /\ [][/\ \A node \in Pairs : SetConfig(node) => Map!SetPair(node)
          /\ \A k \in Keys : RemoveConfig(k) => Map!RemoveKey(k)
          /\ \A text \in Texts : LoadText(text) => Map!LoadPairs(PairsOf(text))
          /\ LoadConfig => Map!LoadPairs(PairsOf(configFile))
          /\ ClearConfig => Map!ClearAll
          /\ SaveConfig => Map!SavePairs]_configVars
=============================================================================
