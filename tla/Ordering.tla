------------------------------ MODULE Ordering -------------------------------
(* The order administrators give to a list: the entries of a visa type, the   *)
(* sections of a country page or of a form, slides, the images of a page,     *)
(* questions, help articles.  Rows are shown by their numbers.  A request     *)
(* reads and checks in one step and writes in another; a transaction is one.  *)
(* (X_Bug is X with a plausible mistake.)                                     *)
EXTENDS Integers, FiniteSets

CONSTANTS
  OrderRequests,  \* requests there can be at a time
  Items,          \* rows there can be
  MaxPlace,       \* bound: numbers
  ListOffers      \* lists to explore, one per behaviour, and whether requests overlap

ASSUME OrderingAssumption == MaxPlace \in Nat /\ IsFiniteSet(Items)

VARIABLES
  list,      \* the list that is followed
  parent,    \* the visa type, page or form it belongs to is there
  row,       \* none, live, deleted, or (a question, an article) elsewhere: in another category
  place,     \* the number of a row
  sorting,   \* requests in flight
  muddled    \* since the whole list was put in order, a row was given a number, came in from
             \* another category with the one it had, or requests overlapped

orderVars == <<list, parent, row, place, sorting, muddled>>

Lists == {"entries", "sections", "formSections", "slides", "images", "questions", "articles"}
Filed == {"questions", "articles"}  \* lists whose rows change category
NoSort == [op |-> "idle"]
Places == 0 .. MaxPlace

OrderingTypeOK ==
  /\ list \in ListOffers /\ {parent, muddled} \subseteq BOOLEAN
  /\ row \in [Items -> {"none", "live", "elsewhere", "deleted"}] /\ place \in [Items -> Nat]
  /\ \A h \in OrderRequests :
       sorting[h].op \in {"idle", "add", "set", "join", "leave", "rescue", "delete", "order"}

\* No list has a row yet.
OrderingInit ==
  /\ list \in ListOffers
  /\ parent = TRUE /\ muddled = FALSE
  /\ row = [i \in Items |-> "none"] /\ place = [i \in Items |-> 0]
  /\ sorting = [h \in OrderRequests |-> NoSort]

Rows == {i \in Items : row[i] = "live"}
Elsewhere == {i \in Items : row[i] = "elsewhere"}
Fresh == {i \in Items : row[i] = "none" /\ \A h \in OrderRequests :
            sorting[h].op = "add" => i \notin DOMAIN sorting[h].to}

\* A request that sets the numbers "to"; the others in flight are not alone any more.
Sort(h, op, to, byHand) ==
  LET others == {g \in OrderRequests : sorting[g] # NoSort}
  IN /\ sorting[h] = NoSort
     /\ list[2] \/ others = {}
     /\ sorting' = [g \in OrderRequests |->
          IF g = h THEN [op |-> op, to |-> to, byHand |-> byHand, alone |-> others = {}]
          ELSE IF g \in others THEN [sorting[g] EXCEPT !.alone = FALSE] ELSE NoSort]
     /\ UNCHANGED <<list, parent, row, place, muddled>>

Of(l) == list[1] = l

-----------------------------------------------------------------------------
(* Adding, changing and deleting a row.                                       *)

One(i, p) == [x \in {i} |-> p]

AddEntry_ByCount(h) ==
  /\ Of("entries") /\ parent
  /\ \E i \in Fresh :
       \/ Sort(h, "add", One(i, Cardinality(Rows)), FALSE)
       \/ \E p \in Places : Sort(h, "add", One(i, p), TRUE)

\* Behind the last row there is.
AtEnd(h, i) ==
  \E p \in Places :
    /\ IF Rows = {} THEN p = 0
       ELSE \E j \in Rows : p = place[j] + 1 /\ \A k \in Rows : place[k] <= place[j]
    /\ Sort(h, "add", One(i, p), FALSE)

\* Where the request says, or else first.
Anywhere(h, i) == \E p \in Places : Sort(h, "add", One(i, p), TRUE)

\* At the end, unless the request says where.
AddEntry(h) == Of("entries") /\ parent /\ \E i \in Fresh : AtEnd(h, i) \/ Anywhere(h, i)
AddQuestion(h) == Of("questions") /\ \E i \in Fresh : AtEnd(h, i) \/ Anywhere(h, i)
AddSlide(h) == Of("slides") /\ \E i \in Fresh : AtEnd(h, i)
AddImage(h) == Of("images") /\ parent /\ \E i \in Fresh : AtEnd(h, i)
AddCountrySection(h) == Of("sections") /\ parent /\ \E i \in Fresh : Anywhere(h, i)
AddFormSection(h) == Of("formSections") /\ parent /\ \E i \in Fresh : Anywhere(h, i)
AddArticle(h) == Of("articles") /\ \E i \in Fresh : Anywhere(h, i)

SetPlace(h) == \E i \in Rows : \E p \in Places \ {place[i]} : Sort(h, "set", One(i, p), TRUE)

\* To another category and from there: the row keeps its number, unless the request has one.
ChangeCategory(h) ==
  /\ list[1] \in Filed
  /\ \E i \in Rows \cup Elsewhere : \E byHand \in BOOLEAN : \E p \in IF byHand THEN Places ELSE {place[i]} :
       Sort(h, IF i \in Rows THEN "leave" ELSE "join", One(i, p), byHand)

\* (Slides and images get their numbers from reordering only.)
UpdateCountrySection(h) == Of("sections") /\ SetPlace(h)
UpdateItem(h) == list[1] \in Filed \cup {"entries", "formSections"} /\ (SetPlace(h) \/ ChangeCategory(h))

Delete(h) == \E i \in Rows : Sort(h, "delete", One(i, place[i]), FALSE)

DeleteCountrySection(h) == Of("sections") /\ Delete(h)
DeleteImage(h) == Of("images") /\ parent /\ Delete(h)
DeleteItem(h) == list[1] \in Lists \ {"sections", "images"} /\ Delete(h)

\* The row is written; a row that is deleted keeps being so.
SaveItem(h) ==
  LET t == sorting[h]
      after == [add |-> "live", delete |-> "deleted", join |-> "live", leave |-> "elsewhere"]
  IN /\ t.op \in DOMAIN after \cup {"set"}
     /\ \E i \in DOMAIN t.to :
          /\ row' = [row EXCEPT ![i] = IF t.op = "set" \/ @ = "deleted" THEN @ ELSE after[t.op]]
          /\ place' = [place EXCEPT ![i] = IF t.op = "add" \/ t.byHand THEN t.to[i] ELSE @]
     /\ muddled' = (muddled \/ ~t.alone \/ t.byHand \/ t.op = "join")
     /\ sorting' = [sorting EXCEPT ![h] = NoSort]
     /\ UNCHANGED <<list, parent>>

\* A row is filed in another category.
FileElsewhere ==
  /\ list[1] \in Filed
  /\ \E i \in Fresh : \E p \in Places :
       /\ row' = [row EXCEPT ![i] = "elsewhere"]
       /\ place' = [place EXCEPT ![i] = p]
  /\ UNCHANGED <<list, parent, sorting, muddled>>

\* A category is deleted by force: its rows go to the rescue category with their numbers,
\* into this list or out of it.
DeleteCategory(h) == list[1] \in Filed /\ Sort(h, "rescue", [i \in {} |-> 0], FALSE)

RescueRows(h) ==
  /\ sorting[h].op = "rescue"
  /\ \E S \in (SUBSET Elsewhere) \cup {Rows} :
       /\ row' = [i \in Items |-> IF i \notin S THEN row[i] ELSE IF i \in Rows THEN "elsewhere" ELSE "live"]
       /\ muddled' = (muddled \/ ~sorting[h].alone \/ S \cap Elsewhere # {})
  /\ sorting' = [sorting EXCEPT ![h] = NoSort]
  /\ UNCHANGED <<list, parent, place>>

-----------------------------------------------------------------------------
(* Putting the rows in order.                                                 *)

\* Ids in an order: their numbers, the later one for an id that comes twice.
Numbered(q) ==
  [i \in {q[k] : k \in DOMAIN q} |->
     (CHOOSE k \in DOMAIN q : q[k] = i /\ \A l \in DOMAIN q : q[l] = i => l <= k) - 1]

InOrder(h, q) == Sort(h, "order", Numbered(q), FALSE)

\* Exactly the entries there are.
ReorderEntries(h) ==
  /\ Of("entries") /\ parent /\ Rows # {}
  /\ \E q \in [1 .. Cardinality(Rows) -> Rows] :
       /\ Rows = {q[k] : k \in DOMAIN q}
       /\ InOrder(h, q)

\* As many ids as there are sections, each one of a section: one may come twice.
Counted(h) == parent /\ Rows # {} /\ \E q \in [1 .. Cardinality(Rows) -> Rows] : InOrder(h, q)

ReorderCountrySections(h) == Of("sections") /\ Counted(h)
ReorderFormSections(h) == Of("formSections") /\ Counted(h)

\* Some of the rows, of whatever category, no one twice, with any numbers.
Pairs(h) ==
  \E S \in (SUBSET (Rows \cup Elsewhere)) \ {{}} : \E to \in [S -> Places] : Sort(h, "order", to, FALSE)

ReorderSlides(h) == Of("slides") /\ Pairs(h)
ReorderImages(h) == Of("images") /\ parent /\ Pairs(h)
ReorderQuestions(h) == Of("questions") /\ Pairs(h)

\* Nothing is checked: deleted articles are numbered too, one may come twice.
ReorderArticles(h) ==
  /\ Of("articles")
  /\ \E n \in 1 .. Cardinality(Items) :
       \E q \in [1 .. n -> {i \in Items : row[i] # "none"}] : InOrder(h, q)

\* One transaction.
SaveOrder(h) ==
  LET t == sorting[h]
      whole == Rows \subseteq DOMAIN t.to /\ \A i, j \in Rows : t.to[i] = t.to[j] => i = j
  IN /\ t.op = "order"
     /\ place' = [i \in Items |-> IF i \in DOMAIN t.to THEN t.to[i] ELSE place[i]]
     /\ muddled' = IF t.alone /\ whole THEN FALSE ELSE TRUE
     /\ sorting' = [sorting EXCEPT ![h] = NoSort]
     /\ UNCHANGED <<list, parent, row>>

-----------------------------------------------------------------------------
DropParent ==
  /\ parent /\ list[1] \in {"entries", "sections", "formSections", "images"}
  /\ parent' = FALSE
  /\ UNCHANGED <<list, row, place, sorting, muddled>>

OrderStep(h) ==
  \/ AddEntry(h) \/ AddQuestion(h) \/ AddSlide(h) \/ AddImage(h)
  \/ AddCountrySection(h) \/ AddFormSection(h) \/ AddArticle(h)
  \/ UpdateCountrySection(h) \/ UpdateItem(h)
  \/ DeleteCountrySection(h) \/ DeleteImage(h) \/ DeleteItem(h) \/ SaveItem(h)
  \/ DeleteCategory(h) \/ RescueRows(h)
  \/ ReorderEntries(h) \/ ReorderCountrySections(h) \/ ReorderFormSections(h) \/ ReorderSlides(h)
  \/ ReorderImages(h) \/ ReorderQuestions(h) \/ ReorderArticles(h) \/ SaveOrder(h)

OrderingNext == (\E h \in OrderRequests : OrderStep(h)) \/ DropParent \/ FileElsewhere

OrderingSpec == OrderingInit /\ [][OrderingNext]_orderVars

-----------------------------------------------------------------------------
\* Once the whole list has been put in order, no two rows share a place, which would
\* leave the order between them to the database, until a row is given a number by hand,
\* comes in from another category (with the number it had there) or requests overlap:
\* what is deleted or moved out leaves no trap for what is added at the end.
PlacesAreDistinct == ~muddled => \A i, j \in Rows : place[i] = place[j] => i = j
=============================================================================
