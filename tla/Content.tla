------------------------------- MODULE Content -------------------------------
(* What administrators write: questions of the FAQ and articles of the help,  *)
(* each filed under a category, content pages, and the single rows of contact *)
(* details and of the payment page.  A request reads and checks in one step   *)
(* and writes in a later one; a transaction is one step.  Several requests    *)
(* are in flight at a time.  (X_Bug is X with a plausible mistake.)           *)
EXTENDS Integers, FiniteSets

CONSTANTS
  SiteRequests,    \* requests there can be at a time
  Categories,      \* keys of categories, of the FAQ and of the help
  SystemCategories,\* those nobody may delete
  Rescue,          \* the one that takes over what is left of a deleted one
  Questions,       \* items of the FAQ
  Articles, Slugs, \* articles, and the addresses of articles and pages
  MaxSingles,      \* bound: rows of contact details, of the payment page
  SiteOffers       \* the sets of operations to explore, one per behaviour

Unfiled == "unfiled"

ASSUME ContentAssumption ==
  /\ SystemCategories \subseteq Categories /\ Rescue \in SystemCategories
  /\ Unfiled \notin Categories /\ Questions \cap Articles = {}
  /\ MaxSingles \in Nat \ {0}

VARIABLES
  faqCategory, helpCategory,  \* none, live or deleted
  question,   \* state, category (a key, which need not exist), published
  lesson,     \* articles: state, category, slug, published
  contentPage,       \* content pages by slug: state, published, first published
  contact,    \* rows of contact details
  payPage,    \* rows of the payment page, the newest last: active?
  late,       \* questions and articles filed under what was deleted or being deleted
  draft,      \* requests in flight
  siteOffer

faqVars == <<faqCategory, question>>
helpVars == <<helpCategory, lesson>>
singles == <<contact, payPage>>
pages == <<contentPage, contact>>
siteVars == <<faqVars, helpVars, pages, payPage, late, draft, siteOffer>>

RowState == {"none", "live", "deleted"}
Filing == Categories \cup {Unfiled}

NoDraft == [op |-> "none"]
SiteOps == {"createFaqCategory", "deleteFaqCategory", "createQuestion", "updateQuestion", "deleteQuestion",
            "createHelpCategory", "deleteHelpCategory", "createArticle", "updateArticle", "deleteArticle",
            "createPage", "updatePage", "deletePage", "contact", "payPage"}

ContentTypeOK ==
  /\ faqCategory \in [Categories -> RowState] /\ helpCategory \in [Categories -> RowState]
  /\ question \in [Questions -> [state : RowState, in : Filing, published : BOOLEAN]]
  /\ lesson \in [Articles -> [state : RowState, in : Filing, slug : Slugs, published : BOOLEAN]]
  /\ contentPage \in [Slugs -> [state : RowState, published : BOOLEAN, stamped : BOOLEAN]]
  /\ contact \in 0 .. MaxSingles
  /\ payPage \in UNION {[1 .. n -> BOOLEAN] : n \in 0 .. MaxSingles}
  /\ late \subseteq Questions \cup Articles
  /\ \A h \in SiteRequests : draft[h].op \in SiteOps \cup {"none"}
  /\ siteOffer \in SiteOffers

\* The migrations have made the system categories.
Seeded == [c \in Categories |-> IF c \in SystemCategories THEN "live" ELSE "none"]

ContentInit ==
  /\ faqCategory = Seeded /\ helpCategory = Seeded
  /\ question = [q \in Questions |-> [state |-> "none", in |-> Unfiled, published |-> FALSE]]
  /\ lesson \in [Articles -> {[state |-> "none", in |-> Unfiled, slug |-> s, published |-> FALSE] : s \in Slugs}]
  /\ contentPage = [s \in Slugs |-> [state |-> "none", published |-> FALSE, stamped |-> FALSE]]
  /\ contact = 0 /\ payPage = << >>
  /\ late = {}
  /\ draft = [h \in SiteRequests |-> NoDraft]
  /\ siteOffer \in SiteOffers

\* A request has read and checked; what it will write.
Plan(h, d) ==
  /\ d.op \in siteOffer
  /\ draft[h] = NoDraft
  /\ draft' = [draft EXCEPT ![h] = d]
  /\ UNCHANGED siteOffer

Close(h) == draft' = [draft EXCEPT ![h] = NoDraft] /\ UNCHANGED siteOffer

Untouched == UNCHANGED <<faqVars, helpVars, contentPage, singles, late>>

\* Filed under what is deleted, or has been looked at by a deletion.
TooLate(category, op, c) ==
  c # Unfiled /\ (category[c] = "deleted" \/ \E h \in SiteRequests : draft[h].op = op /\ draft[h].of = c)

Refile(e, c, category, op) == late' = (late \ {e}) \cup IF TooLate(category, op, c) THEN {e} ELSE {}

-----------------------------------------------------------------------------
(* FaqItemsService: categories.                                               *)

InUse(shelf, c) == {e \in DOMAIN shelf : shelf[e].state = "live" /\ shelf[e].in = c}

\* A key of a live category is refused; a deleted one is revived.
CreateFaqCategory(h) ==
  \E c \in Categories :
    /\ faqCategory[c] # "live"
    /\ Plan(h, [op |-> "createFaqCategory", of |-> c])
    /\ Untouched

\* Update by id, or insert, which fails if there is a row with that key by now.
SaveFaqCategory(h) ==
  /\ draft[h].op = "createFaqCategory"
  /\ faqCategory' = [faqCategory EXCEPT ![draft[h].of] = "live"]
  /\ Close(h)
  /\ UNCHANGED <<question, helpVars, contentPage, singles, late>>

\* Published ones only.
DeleteFaqCategory_Bug(h) ==
  \E c \in Categories \ SystemCategories, force \in BOOLEAN :
    LET used == {q \in InUse(question, c) : question[q].published} # {}
    IN /\ faqCategory[c] = "live"
       /\ used => force /\ faqCategory[Rescue] = "live"
       /\ Plan(h, [op |-> "deleteFaqCategory", of |-> c, move |-> used])
       /\ Untouched

\* Questions that are filed under it are counted; they stop the deletion or, by force,
\* are moved.
DeleteFaqCategory(h) ==
  \E c \in Categories \ SystemCategories, force \in BOOLEAN :
    LET used == InUse(question, c) # {}
    IN /\ faqCategory[c] = "live"
       /\ used => force /\ faqCategory[Rescue] = "live"
       /\ Plan(h, [op |-> "deleteFaqCategory", of |-> c, move |-> used])
       /\ Untouched

\* One transaction.
DropFaqCategory(h) ==
  LET d == draft[h]
      moved == IF d.move THEN InUse(question, d.of) ELSE {}
  IN /\ d.op = "deleteFaqCategory"
     /\ question' = [q \in Questions |-> [question[q] EXCEPT !.in = IF q \in moved THEN Rescue ELSE @]]
     /\ faqCategory' = [faqCategory EXCEPT ![d.of] = "deleted"]
     /\ late' = late \ moved
     /\ Close(h)
     /\ UNCHANGED <<helpVars, contentPage, singles>>

(* FaqItemsService: questions.  Nothing looks whether the category exists.    *)

CreateQuestion(h) ==
  \E q \in Questions, c \in Filing, p \in BOOLEAN :
    /\ question[q].state = "none"
    /\ "createQuestion" \in siteOffer /\ draft[h] = NoDraft
    /\ question' = [question EXCEPT ![q] = [state |-> "live", in |-> c, published |-> p]]
    /\ Refile(q, c, faqCategory, "deleteFaqCategory")
    /\ UNCHANGED <<faqCategory, helpVars, contentPage, singles, draft, siteOffer>>

\* A category that is not given stays.
UpdateQuestion(h) ==
  \E q \in Questions, c \in Filing, p \in BOOLEAN :
    /\ question[q].state = "live"
    /\ Plan(h, [op |-> "updateQuestion", of |-> q, in |-> c, published |-> p])
    /\ Untouched

SaveQuestion(h) ==
  LET d == draft[h]
  IN /\ d.op = "updateQuestion"
     /\ question' = [question EXCEPT ![d.of] =
          [@ EXCEPT !.in = IF d.in = Unfiled THEN question[d.of].in ELSE d.in, !.published = d.published]]
     /\ IF d.in = Unfiled THEN UNCHANGED late ELSE Refile(d.of, d.in, faqCategory, "deleteFaqCategory")
     /\ Close(h)
     /\ UNCHANGED <<faqCategory, helpVars, contentPage, singles>>

DeleteQuestion(h) ==
  \E q \in Questions :
    /\ question[q].state = "live"
    /\ Plan(h, [op |-> "deleteQuestion", of |-> q])
    /\ Untouched

DropQuestion(h) ==
  /\ draft[h].op = "deleteQuestion"
  /\ question' = [question EXCEPT ![draft[h].of].state = "deleted"]
  /\ Close(h)
  /\ UNCHANGED <<faqCategory, helpVars, contentPage, singles, late>>

-----------------------------------------------------------------------------
(* HelpArticlesService: categories.                                           *)

CreateHelpCategory(h) ==
  \E c \in Categories :
    /\ helpCategory[c] # "live"
    /\ Plan(h, [op |-> "createHelpCategory", of |-> c])
    /\ Untouched

SaveHelpCategory(h) ==
  /\ draft[h].op = "createHelpCategory"
  /\ helpCategory' = [helpCategory EXCEPT ![draft[h].of] = "live"]
  /\ Close(h)
  /\ UNCHANGED <<faqVars, lesson, contentPage, singles, late>>

DeleteHelpCategory(h) ==
  \E c \in Categories \ SystemCategories, force \in BOOLEAN :
    LET used == InUse(lesson, c) # {}
    IN /\ helpCategory[c] = "live"
       /\ used => force /\ helpCategory[Rescue] = "live"
       /\ Plan(h, [op |-> "deleteHelpCategory", of |-> c, move |-> used])
       /\ Untouched

DropHelpCategory(h) ==
  LET d == draft[h]
      moved == IF d.move THEN InUse(lesson, d.of) ELSE {}
  IN /\ d.op = "deleteHelpCategory"
     /\ lesson' = [a \in Articles |-> [lesson[a] EXCEPT !.in = IF a \in moved THEN Rescue ELSE @]]
     /\ helpCategory' = [helpCategory EXCEPT ![d.of] = "deleted"]
     /\ late' = late \ moved
     /\ Close(h)
     /\ UNCHANGED <<faqVars, contentPage, singles>>

(* HelpArticlesService: articles.  A category must have a row, deleted or not. *)

SlugTaken(s, a) == \E b \in Articles \ {a} : lesson[b].state = "live" /\ lesson[b].slug = s

CreateArticle(h) ==
  \E a \in Articles, s \in Slugs, c \in Filing, p \in BOOLEAN :
    /\ lesson[a].state = "none" /\ ~SlugTaken(s, a)
    /\ \A g \in SiteRequests : draft[g].op = "createArticle" => draft[g].of # a
    /\ Plan(h, [op |-> "createArticle", of |-> a, in |-> c, slug |-> s, published |-> p])
    /\ Untouched

\* A category that is not given stays; an empty one takes the article out of it.
EditArticle(h) ==
  \E a \in Articles, s \in Slugs, c \in Filing, p \in BOOLEAN :
    /\ lesson[a].state = "live" /\ ~SlugTaken(s, a)
    /\ Plan(h, [op |-> "updateArticle", of |-> a, in |-> c, slug |-> s, published |-> p])
    /\ Untouched

\* The database refuses a slug that a live article has and a category without a row.
StoreArticle(h) ==
  LET d == draft[h]
  IN /\ d.op \in {"createArticle", "updateArticle"}
     /\ IF SlugTaken(d.slug, d.of) \/ (d.in # Unfiled /\ helpCategory[d.in] = "none")
        THEN UNCHANGED <<lesson, late>>
        ELSE /\ lesson' = [lesson EXCEPT ![d.of] =
                  [state |-> IF d.op = "createArticle" THEN "live" ELSE @.state,
                   in |-> d.in, slug |-> d.slug, published |-> d.published]]
             /\ Refile(d.of, d.in, helpCategory, "deleteHelpCategory")
     /\ Close(h)
     /\ UNCHANGED <<faqVars, helpCategory, contentPage, singles>>

DeleteArticle(h) ==
  \E a \in Articles :
    /\ lesson[a].state = "live"
    /\ Plan(h, [op |-> "deleteArticle", of |-> a])
    /\ Untouched

DropArticle(h) ==
  /\ draft[h].op = "deleteArticle"
  /\ lesson' = [lesson EXCEPT ![draft[h].of].state = "deleted"]
  /\ Close(h)
  /\ UNCHANGED <<faqVars, helpCategory, contentPage, singles, late>>

-----------------------------------------------------------------------------
(* ContentPagesService.                                                       *)

\* Only a live page stops it here; the index on the slug knows deleted ones too.
CreateContentPage(h) ==
  \E s \in Slugs, p \in BOOLEAN :
    /\ contentPage[s].state # "live"
    /\ Plan(h, [op |-> "createPage", of |-> s, published |-> p])
    /\ Untouched

InsertContentPage(h) ==
  LET d == draft[h]
  IN /\ d.op = "createPage"
     /\ contentPage' = IF contentPage[d.of].state # "none" THEN contentPage
                ELSE [contentPage EXCEPT ![d.of] = [state |-> "live", published |-> d.published, stamped |-> d.published]]
     /\ Close(h)
     /\ UNCHANGED <<faqVars, helpVars, singles, late>>

\* The date of publication is stamped when the page read was not published.
UpdateContentPage(h) ==
  \E s \in Slugs, p \in BOOLEAN :
    /\ contentPage[s].state = "live"
    /\ Plan(h, [op |-> "updatePage", of |-> s, published |-> p, stamp |-> p /\ ~contentPage[s].published])
    /\ Untouched

SaveContentPage(h) ==
  LET d == draft[h]
  IN /\ d.op = "updatePage"
     /\ contentPage' = [contentPage EXCEPT ![d.of] = [@ EXCEPT !.published = d.published, !.stamped = @ \/ d.stamp]]
     /\ Close(h)
     /\ UNCHANGED <<faqVars, helpVars, singles, late>>

DeleteContentPage(h) ==
  \E s \in Slugs :
    /\ contentPage[s].state = "live"
    /\ Plan(h, [op |-> "deletePage", of |-> s])
    /\ Untouched

DropContentPage(h) ==
  /\ draft[h].op = "deletePage"
  /\ contentPage' = [contentPage EXCEPT ![draft[h].of].state = "deleted"]
  /\ Close(h)
  /\ UNCHANGED <<faqVars, helpVars, singles, late>>

-----------------------------------------------------------------------------
(* The single rows.                                                           *)

\* ContactInfoService.get: a row is made if none was found.
FindContact(h) ==
  /\ contact = 0
  /\ Plan(h, [op |-> "contact", of |-> 0])
  /\ Untouched

SeedContact(h) ==
  /\ draft[h].op = "contact" /\ contact < MaxSingles
  /\ contact' = contact + 1
  /\ Close(h)
  /\ UNCHANGED <<faqVars, helpVars, contentPage, payPage, late>>

\* The active row of the payment page, the newest: getConfig, updateConfig.
ActiveRow == {i \in DOMAIN payPage : payPage[i] /\ \A j \in DOMAIN payPage : payPage[j] => j <= i}

FindConfig(h) ==
  \E active \in BOOLEAN :
    \E row \in IF ActiveRow = {} THEN {0} ELSE ActiveRow :
      /\ Plan(h, [op |-> "payPage", of |-> row, active |-> active])
      /\ Untouched

\* None was active: another row, with what was sent.
SaveConfig(h) ==
  LET d == draft[h]
      n == Cardinality(DOMAIN payPage)
  IN /\ d.op = "payPage"
     /\ d.of = 0 => n < MaxSingles
     /\ payPage' = IF d.of = 0 THEN [i \in 1 .. n + 1 |-> IF i <= n THEN payPage[i] ELSE d.active]
                   ELSE [payPage EXCEPT ![d.of] = d.active]
     /\ Close(h)
     /\ UNCHANGED <<faqVars, helpVars, contentPage, contact, late>>

-----------------------------------------------------------------------------
\* A query fails or the process stops: the request ends as it is.
SiteRequestFails(h) ==
  /\ draft[h] # NoDraft
  /\ Close(h)
  /\ Untouched

SiteStep(h) ==
  \/ CreateFaqCategory(h) \/ SaveFaqCategory(h) \/ DeleteFaqCategory(h) \/ DropFaqCategory(h)
  \/ CreateQuestion(h) \/ UpdateQuestion(h) \/ SaveQuestion(h) \/ DeleteQuestion(h) \/ DropQuestion(h)
  \/ CreateHelpCategory(h) \/ SaveHelpCategory(h) \/ DeleteHelpCategory(h) \/ DropHelpCategory(h)
  \/ CreateArticle(h) \/ EditArticle(h) \/ StoreArticle(h) \/ DeleteArticle(h) \/ DropArticle(h)
  \/ CreateContentPage(h) \/ InsertContentPage(h) \/ UpdateContentPage(h) \/ SaveContentPage(h)
  \/ DeleteContentPage(h) \/ DropContentPage(h)
  \/ FindContact(h) \/ SeedContact(h) \/ FindConfig(h) \/ SaveConfig(h) \/ SiteRequestFails(h)

ContentNext == \E h \in SiteRequests : SiteStep(h)

ContentSpec == ContentInit /\ [][ContentNext]_siteVars

-----------------------------------------------------------------------------
\* A question or an article that visitors could look for under a deleted category was
\* filed there when the category was deleted or already being deleted; what was there
\* before stopped the deletion or was moved to the category that cannot be deleted.
StragglersAreLate ==
  /\ \A q \in Questions : question[q].state = "live" /\ question[q].in # Unfiled
       /\ faqCategory[question[q].in] = "deleted" => q \in late
  /\ \A a \in Articles : lesson[a].state = "live" /\ lesson[a].in # Unfiled
       /\ helpCategory[lesson[a].in] = "deleted" => a \in late
=============================================================================
