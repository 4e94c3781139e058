------------------------------- MODULE Paging -------------------------------
(***************************************************************************)
(* READDIR: a client reads a directory page by page while others create    *)
(* and remove entries.  NFSv4 directories and the pseudo-root              *)
(* (src/src/nfs/nfs4.rs) and NFSv3 (src/src/nfs/protocol.rs).              *)
(*                                                                         *)
(* Nothing is kept between calls: a cookie is a position in a listing that *)
(* is read and sorted anew by each call.  The cookie verifier is constant  *)
(* and not compared.                                                       *)
(***************************************************************************)
EXTENDS Integers, Sequences, FiniteSets, SequencesExt

CONSTANTS
    Name,       \* names, as numbers in the order they sort
    EntrySize,  \* bytes an entry takes in a reply
    Overhead,   \* 16 bytes around the entries
    MaxCount,   \* maxcount of the client's requests
    Kinds,      \* what the listing may be of
    MaxChanges  \* bound: creations and removals during the listing

ASSUME PagingAssumption ==
    /\ Name \subseteq Nat /\ IsFiniteSet(Name)
    /\ EntrySize \in [Name -> Nat \ {0}]
    /\ Overhead \in Nat /\ MaxCount \in Nat
    /\ Kinds \subseteq {"v4", "root", "v3"}
    /\ MaxChanges \in Nat

VARIABLES
    kind,       \* of a directory by NFSv4, of the pseudo-root, or by NFSv3
    dir,        \* the names in the directory
    cookie,     \* the cookie of the client's next READDIR
    listed,     \* the names answered to it so far
    state,      \* of the client: listing, at the end, or answered an error
    present,    \* the names present since the listing began
    created,    \* whether a name was created since
    removed,    \* whether a name was removed since
    changes     \* how many were

history == <<present, created, removed, changes>>
pagingVars == <<kind, dir, cookie, listed, state, history>>

CookieBase == 3

PagingTypeOK ==
    /\ kind \in Kinds
    /\ dir \subseteq Name
    /\ cookie \in {0} \cup CookieBase..(CookieBase + Cardinality(Name) - 2)
    /\ listed \in Seq(Name)
    /\ state \in {"listing", "end", "error"}
    /\ present \subseteq Name
    /\ created \in BOOLEAN /\ removed \in BOOLEAN
    /\ changes \in 0..MaxChanges

PagingInit ==
    /\ kind \in Kinds
    /\ dir \in SUBSET Name
    /\ cookie = 0
    /\ listed = <<>>
    /\ state = "listing"
    /\ present = dir
    /\ created = FALSE /\ removed = FALSE
    /\ changes = 0

-----------------------------------------------------------------------------

\* How many names of the directory sort before n.
Before(n) == Cardinality({m \in dir : m < n})

\* The listing of the present call: the names as they sort.
Listing == [i \in 1..Cardinality(dir) |-> CHOOSE n \in dir : Before(n) = i - 1]

StartAtEntry(c) == IF c < CookieBase THEN 0 ELSE c - CookieBase
StartTwoOn(c) == IF c < CookieBase THEN 0 ELSE (c - CookieBase) + 2

\* How many entries a READDIR with cookie c passes over: all up to the one whose
\* position the cookie is.  Cookies below the base start anew.
StartIndex(c) == IF c < CookieBase THEN 0 ELSE (c - CookieBase) + 1

Rest(c) == SubSeq(Listing, StartIndex(c) + 1, Len(Listing))

Bytes(s) == FoldSeq(LAMBDA n, sum : EntrySize[n] + sum, Overhead, s)

\* As many entries as fit into maxcount, which may be none.
Fitting(s) ==
    LET n == CHOOSE k \in 0..Len(s) :
                /\ \A j \in 1..k : Bytes(SubSeq(s, 1, j)) <= MaxCount
                /\ k = Len(s) \/ ~(Bytes(SubSeq(s, 1, k + 1)) <= MaxCount)
    IN  SubSeq(s, 1, n)

\* A page is its entries, the cookie of the last of them, and whether it ends
\* the listing.
Page(entries, last, eof) == [entries |-> entries, last |-> last, eof |-> eof]

EofByPageAlone(c) ==
    LET entries == Fitting(Rest(c)) IN
    Page(entries, CookieBase + StartIndex(c) + Len(entries) - 1,
         Len(entries) >= Len(Listing))

CookieWithoutBase(c) ==
    LET entries == Fitting(Rest(c)) IN
    Page(entries, StartIndex(c) + Len(entries),
         StartIndex(c) + Len(entries) >= Len(Listing))

\* op_readdir: eof when the position behind the page is the listing's end.
DirectoryPage(c) ==
    LET entries == Fitting(Rest(c)) IN
    Page(entries, CookieBase + StartIndex(c) + Len(entries) - 1,
         StartIndex(c) + Len(entries) >= Len(Listing))

\* op_readdir_root: every export behind the cookie, whatever maxcount says.
RootPage(c) == Page(Rest(c), CookieBase + Len(Listing) - 1, TRUE)

\* handle_readdir of NFSv3: everything, whatever the cookie and count.
V3Page(c) == Page(Listing, Len(Listing), TRUE)

PageOf(c) ==
    CASE kind = "v4" -> DirectoryPage(c)
      [] kind = "root" -> RootPage(c)
      [] kind = "v3" -> V3Page(c)

-----------------------------------------------------------------------------

\* One call.  The client goes on from the cookie of the last entry, if any.
Readdir ==
    /\ state = "listing"
    /\ LET page == PageOf(cookie) IN
       /\ listed' = listed \o page.entries
       /\ cookie' = IF page.entries = <<>> \/ page.eof THEN cookie ELSE page.last
       /\ state' = IF page.eof THEN "end" ELSE state
    /\ UNCHANGED <<kind, dir, history>>

\* The handle is stale or the directory cannot be read.  (NFSv3 answers an empty
\* listing then: see Nfs3.)
ReaddirFails ==
    /\ state = "listing"
    /\ kind = "v4"
    /\ state' = "error"
    /\ UNCHANGED <<kind, dir, cookie, listed, history>>

\* Others change the directory between two calls; the exports stay as they are.
Change ==
    /\ state = "listing"
    /\ kind # "root"
    /\ changes < MaxChanges
    /\ changes' = changes + 1
    /\ UNCHANGED <<kind, cookie, listed, state>>

CreateName(n) ==
    /\ Change
    /\ n \notin dir
    /\ dir' = dir \cup {n}
    /\ created' = TRUE
    /\ UNCHANGED <<present, removed>>

RemoveName(n) ==
    /\ Change
    /\ n \in dir
    /\ dir' = dir \ {n}
    /\ present' = present \ {n}
    /\ removed' = TRUE
    /\ UNCHANGED created

\* The client starts the listing over.
Rewind ==
    /\ state # "listing"
    /\ cookie' = 0
    /\ listed' = <<>>
    /\ state' = "listing"
    /\ present' = dir
    /\ created' = FALSE /\ removed' = FALSE
    /\ UNCHANGED <<kind, dir, changes>>

PagingNext ==
    \/ Readdir
    \/ ReaddirFails
    \/ \E n \in Name : CreateName(n) \/ RemoveName(n)
    \/ Rewind

PagingSpec == PagingInit /\ [][PagingNext]_pagingVars

\* The client goes on calling until the end.
FairPagingSpec == PagingSpec /\ WF_pagingVars(Readdir)

-----------------------------------------------------------------------------

Times(n) == Cardinality({i \in DOMAIN listed : listed[i] = n})

\* While names are only created, no name that was there all along is left out:
\* positions only move up, and a cookie points at or before where it was made.
GrowingSkipsNothing ==
    state = "end" /\ ~removed => \A n \in present : Times(n) >= 1

\* While names are only removed, no name is answered twice.
ShrinkingRepeatsNothing ==
    ~created => \A n \in Name : Times(n) <= 1

\* If every entry fits into a reply, a client that goes on reaches the end, or
\* an error, every time it starts.
ListingEnds == []<>(state # "listing")
=============================================================================
