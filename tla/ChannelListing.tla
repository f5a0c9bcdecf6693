--------------------------- MODULE ChannelListing ---------------------------
(***************************************************************************)
(* A screen that needs all the channels of a selection asks for them page by *)
(* page (listAllDashboardChannels and the cards of                           *)
(* apps/web/src/components/dashboard-screen.tsx, listAllChannels of           *)
(* channel-groups-screen.tsx): each page is a request of its own, between     *)
(* which channels may be added, archived or scanned.                         *)
(***************************************************************************)
EXTENDS Basics, Sequences, FiniteSetsExt

CONSTANTS
    RowChannels,        \* numbered in the order they were created
    RowFigures,         \* what a scan may find
    RowsPerRequest

ASSUME ListingAssumption ==
    /\ IsFiniteSet(RowChannels) /\ RowChannels \subseteq Int
    /\ RowFigures \subseteq Int /\ NULL \notin Int
    /\ RowsPerRequest \in Nat \ {0}

VARIABLES
    selection,        \* selection[c]: NULL, or [figure] of a channel of the selection
    inquiry,          \* [items, page, total, ended] so far
    moved            \* something changed since its first page

inquiryVars == <<selection, inquiry, moved>>

NotListed == [items |-> <<>>, page |-> 1, total |-> NULL, ended |-> FALSE]

ListingInit ==
    /\ selection \in [RowChannels -> {NULL} \cup {[figure |-> f] : f \in RowFigures \cup {NULL}}]
    /\ inquiry = NotListed
    /\ moved = FALSE

InSelection == {c \in RowChannels : selection[c] # NULL}

\* list: newest first.
NewestFirst == Ordered(InSelection, {k \in InSelection \X InSelection : k[1] > k[2]})

Page(p) ==
    LET n == Len(NewestFirst)
    IN  SubSeq(NewestFirst, (p - 1) * RowsPerRequest + 1,
               IF p * RowsPerRequest < n THEN p * RowsPerRequest ELSE n)

Changes(c) ==
    /\ ~inquiry.ended
    /\ \E row \in {NULL} \cup {[figure |-> f] : f \in RowFigures} :
         row # selection[c] /\ selection' = [selection EXCEPT ![c] = row]
    /\ moved' = (inquiry # NotListed)
    /\ UNCHANGED inquiry

\* A page that fails ends the inquiry with an error.
AsksPage ==
    /\ ~inquiry.ended
    /\ LET rows == Page(inquiry.page)
           items == inquiry.items \o [i \in DOMAIN rows |-> [id |-> rows[i], figure |-> selection[rows[i]].figure]]
           total == Cardinality(InSelection)
       IN  inquiry' = [items |-> items, total |-> total, page |-> inquiry.page + 1,
                       ended |-> Len(items) >= total \/ rows = <<>>]
    /\ UNCHANGED <<selection, moved>>

ListsAgain ==
    /\ inquiry.ended
    /\ inquiry' = NotListed
    /\ moved' = FALSE
    /\ UNCHANGED selection

ListingNext == AsksPage \/ ListsAgain \/ \E c \in RowChannels : Changes(c)

ListingSpec == ListingInit /\ [][ListingNext]_inquiryVars

----------------------------------------------------------------------------
\* hasCompleteChannelCoverage.
AllListed == Len(inquiry.items) >= inquiry.total

ListedFigures == [i \in DOMAIN inquiry.items |-> inquiry.items[i].figure]

KnownItems == {i \in DOMAIN ListedFigures : ListedFigures[i] # NULL}

\* sumMetrics: NULL when there are channels and none of them is known.
SumOfKnown ==
    IF KnownItems = {} /\ inquiry.items # <<>> THEN NULL
    ELSE MapThenSumSet(LAMBDA i : ListedFigures[i], KnownItems)

WholeTotal == AllListed /\ Cardinality(KnownItems) = Len(inquiry.items)

\* What a card shows: nothing, the sum, or that it is at least the sum.
CardTotal == IF ~AllListed THEN NULL ELSE IF SumOfKnown = NULL THEN 0 ELSE SumOfKnown

\* An inquiry that nothing came between has every channel of the selection once, and its
\* card says the sum of all their figures, or at least it where one is not known.
ListsTheSelection ==
    inquiry.ended /\ ~moved =>
        /\ {inquiry.items[i].id : i \in DOMAIN inquiry.items} = InSelection
        /\ Len(inquiry.items) = Cardinality(InSelection)
        /\ LET figure == [c \in InSelection |-> selection[c].figure]
               known == {c \in InSelection : figure[c] # NULL}
               sum == MapThenSumSet(LAMBDA c : figure[c], known)
           IN  /\ CardTotal = sum
               /\ WholeTotal <=> known = InSelection
=============================================================================
