----------------------------- MODULE ExportNames -----------------------------
(***************************************************************************)
(* The exports and how clients find them: loading, and the resolution of   *)
(* names, by ExportsManager (src/src/exports.rs), the MOUNT protocol       *)
(* (src/src/nfs/mount.rs) and the pseudo-root of NFSv4                     *)
(* (src/src/nfs/nfs4.rs).                                                  *)
(*                                                                         *)
(* A name is a word behind some slashes.  The words are whole names: an    *)
(* alias, the last component of a path, or a full (Windows) path.          *)
(***************************************************************************)
EXTENDS Integers, FiniteSets

CONSTANTS
    Entry,      \* the [[exports.entries]] of the configuration
    Client,     \* client addresses
    PathOf,     \* the full path of each, a word
    Dir,        \* what the last component of a path may be, words
    Alias,      \* what an alias may be, NoName included: see Init
    NoName,     \* no alias
    NoExport    \* no export goes by that name

Word == {PathOf[e] : e \in Entry} \cup Dir \cup {a.word : a \in Alias \ {NoName}}
MaxSlashes == 2
Name == [slashes: 0..MaxSlashes, word: Word]

ASSUME ConstantsAssumption ==
    /\ NoExport \notin Entry
    /\ NoName \notin Name
    /\ \A e, f \in Entry : PathOf[e] = PathOf[f] => e = f
    /\ \A a \in Alias \ {NoName} : a = [slashes |-> a.slashes, word |-> a.word]
    /\ \A a \in Alias \ {NoName} : a.slashes \in 0..(MaxSlashes - 1)

VARIABLES
    dir,        \* the last component of the path of each entry
    alias,      \* alias of each entry
    allowed,    \* the clients its allowed_clients cover
    rank,       \* the order in which the hash map of exports is read
    loaded,     \* the entries in the map
    given       \* handles of exported directories: to whom, of which, by whom

config == <<dir, alias, allowed, rank>>
vars == <<config, loaded, given>>

Given == [client: Client, entry: Entry, by: {"MNT", "LOOKUP"}]

TypeOK ==
    /\ dir \in [Entry -> Dir]
    /\ alias \in [Entry -> Alias]
    /\ allowed \in [Entry -> SUBSET Client]
    /\ rank \in [Entry -> Nat]
    /\ loaded \subseteq Entry
    /\ given \subseteq Given
    /\ \A g \in given : g.entry \in loaded

Init ==
    /\ dir \in [Entry -> Dir]
    /\ alias \in [Entry -> Alias]
    /\ allowed \in [Entry -> SUBSET Client]
    /\ rank \in [Entry -> 1..Cardinality(Entry)]
    /\ \A e, f \in Entry : rank[e] = rank[f] => e = f
    /\ loaded = {}
    /\ given = {}

-----------------------------------------------------------------------------

Plain(w) == [slashes |-> 0, word |-> w]
Stripped(n) == Plain(n.word)
Slashed(n) == [slashes |-> n.slashes + 1, word |-> n.word]

\* The first of some exports in the order of the map.
First(es) == CHOOSE e \in es : \A f \in es : rank[e] <= rank[f]

ByAlias(n) == {e \in loaded : alias[e] # NoName /\ n \in {alias[e], Slashed(alias[e])}}
ByLastComponent(n) == {e \in loaded : Stripped(n) \in {Plain(dir[e]), alias[e]}}
ByPath(n) == {e \in loaded : n = Plain(PathOf[e])}

ResolveDirectoryFirst(n) ==
    IF ByLastComponent(n) # {} THEN First(ByLastComponent(n))
    ELSE IF ByAlias(n) # {} THEN First(ByAlias(n))
    ELSE IF ByPath(n) # {} THEN First(ByPath(n))
    ELSE NoExport

ResolveAliasOrPath(n) ==
    IF ByAlias(n) # {} THEN First(ByAlias(n))
    ELSE IF ByPath(n) # {} THEN First(ByPath(n))
    ELSE NoExport

\* resolve_export_path: alias, with or without a slash, then the last component
\* of the path, then the path itself.
Resolve(n) ==
    IF ByAlias(n) # {} THEN First(ByAlias(n))
    ELSE IF ByLastComponent(n) # {} THEN First(ByLastComponent(n))
    ELSE IF ByPath(n) # {} THEN First(ByPath(n))
    ELSE NoExport

IsClientAllowed(c, n) == Resolve(n) # NoExport /\ c \in allowed[Resolve(n)]

-----------------------------------------------------------------------------

\* reload_exports_async, once, before any client is served.  Entries whose path
\* is missing are left out; one that cannot be parsed leaves the map empty, as
\* it is before.
Load ==
    /\ loaded = {}
    /\ loaded' \in SUBSET Entry
    /\ UNCHANGED <<config, given>>

Hand(c, e, by) ==
    /\ e # NoExport
    /\ given' = given \cup {[client |-> c, entry |-> e, by |-> by]}
    /\ UNCHANGED <<config, loaded>>

\* MNT: the name is resolved to check the client and once more for the handle.
\* A name nothing goes by is refused like a client that is not allowed.
Mnt(c, n) ==
    /\ IsClientAllowed(c, n)
    /\ Hand(c, Resolve(n), "MNT")

\* LOOKUP in the pseudo-root: the handle is made from the path of the export
\* that was found.
RootLookup(c, n) ==
    /\ Resolve(n) # NoExport
    /\ Hand(c, Resolve(Plain(PathOf[Resolve(n)])), "LOOKUP")

Next ==
    \/ Load
    \/ \E c \in Client, n \in Name : Mnt(c, n) \/ RootLookup(c, n)

Spec == Init /\ [][Next]_vars

-----------------------------------------------------------------------------

\* What MOUNT's EXPORT calls an export, and what READDIR of the pseudo-root does.
ExportName(e) == IF alias[e] # NoName THEN alias[e] ELSE Plain(PathOf[e])
RootEntryName(e) == IF alias[e] # NoName THEN alias[e] ELSE Plain(dir[e])

\* EXPORT shows a client the exports it may mount, looked up by their paths.
Listed(c) == {e \in loaded : IsClientAllowed(c, Plain(PathOf[e]))}

-----------------------------------------------------------------------------

\* No two aliases are the same but for their slashes, and none is a full path.
DistinctAliases ==
    \A e, f \in Entry :
        alias[e] # NoName =>
            /\ alias[e].word # PathOf[f]
            /\ alias[f] # NoName /\ alias[e].word = alias[f].word => e = f

\* No full path is the last component of a path.
PathsAreNotComponents == \A e, f \in Entry : PathOf[e] # dir[f]

\* No two names in the pseudo-root are the same.
DistinctRootNames ==
    /\ DistinctAliases
    /\ \A e, f \in Entry :
          /\ dir[e] = dir[f] => e = f
          /\ alias[e] # NoName /\ alias[e].word = dir[f] => e = f

\* What EXPORT tells a client of, it can mount by that name, and gets that
\* export and no other, whatever the order of the map and whatever the other
\* exports are called.
ListedMountsItself ==
    DistinctAliases /\ PathsAreNotComponents =>
        \A c \in Client : \A e \in Listed(c) :
            Resolve(ExportName(e)) = e /\ c \in allowed[e]

\* "mount <server-ip>:/<alias>": an alias leads to its export, by MOUNT with a
\* slash in front and by NFSv4 without.
AliasLeadsToItsExport ==
    DistinctAliases =>
        \A e \in loaded :
            alias[e] # NoName => Resolve(alias[e]) = e /\ Resolve(Slashed(alias[e])) = e

\* Every entry of the pseudo-root can be looked up, and leads to its export.
RootEntriesLeadToTheirExports ==
    DistinctRootNames /\ PathsAreNotComponents =>
        \A e \in loaded :
            /\ Resolve(RootEntryName(e)) = e
            /\ Resolve(Plain(PathOf[e])) = e

\* MOUNT gives handles to the clients of an export only.
MountsOnlyAllowed == \A g \in given : g.by = "MNT" => g.client \in allowed[g.entry]
=============================================================================
