-------------------------------- MODULE Page --------------------------------
(***************************************************************************)
(* The two pages of web/site: app.js asks how long New York took to close   *)
(* complaints of one type in one area, westchester/app.js the same of five  *)
(* towns; lib.js builds their plans and reads and writes their addresses.   *)
(*                                                                         *)
(* A handler runs to its end before the next one, so a step is a whole      *)
(* handler, and is written like one: an operator takes the page and gives   *)
(* the page after it.  What the page says is kept as what it is about: the  *)
(* question an answer is of, the complaint a verdict is of.                 *)
(***************************************************************************)
EXTENDS Integers, FiniteSets

CONSTANTS
    Records,     \* of each site, its complaints by number: [type, board,
                 \* borough, town, zip, state]
    Types,       \* names of complaint types, as numbers in the order of names
    Preferred,   \* the type "Noise - Residential"
    Boroughs, Districts,  \* BOROUGHS, and codes that parseDistrict reads
    Zips,        \* texts of five digits
    Null, Malformed,      \* no value, and a text of another form
    TYPES, PAGE, LIST_MAX,
    Keys         \* bound: what is typed in to be looked up

\* Some complaint of either site has a type: the menu of types is not empty.
ASSUME PageAssumption ==
    /\ TYPES \in Nat \ {0} /\ PAGE \in Nat \ {0} /\ LIST_MAX \in Nat
    /\ Types \subseteq Nat /\ Null \notin Types \cup {Malformed}
    /\ Null \notin {"closed", "forwards", "open", "backwards", "elsewhere"}
    /\ Null \notin Boroughs \cup Districts
    /\ DOMAIN Records = {"nyc", "westchester"}
    /\ \A site \in DOMAIN Records :
          /\ IsFiniteSet(DOMAIN Records[site])
          /\ {Null, Malformed} \cap DOMAIN Records[site] = {}
          /\ \A k \in DOMAIN Records[site] :
                Records[site][k].type \in Types \cup {Null}
          /\ \E k \in DOMAIN Records[site] : Records[site][k].type # Null

VARIABLE page

City == [kind |-> "city"]
Area(kind, value) == [kind |-> kind, value |-> value]
\* The entry "a ZIP code" of the menu of areas.
SomeZip == Area("zip", Null)
Question(type, area) == [type |-> type, area |-> area]

Rows(site) == DOMAIN Records[site]

----------------------------------------------------------------------------
(* lib.js: the plans a question becomes, and what they find.               *)

\* AREA_COLUMN: an area's kind names the column it is about ("board" is the
\* kind "district").
Within(r, area) == area.kind = "city" \/ r[area.kind] = area.value

\* The filters of waitPlan, in its order.
WaitFilters(q) ==
    IF q.area.kind = "city" THEN <<"type", "closed", "forwards">>
    ELSE <<"type", "area", "closed", "forwards">>

Passes(filter, r, q) ==
    CASE filter = "type" -> r.type = q.type
      [] filter = "area" -> Within(r, q.area)
      [] filter = "closed" -> r.state # "open"
      [] filter = "forwards" -> r.state # "backwards"

\* The filter of waitPlan that drops row r of the data, or Null.
DroppedBy(r, q) ==
    LET filters == WaitFilters(q)
        dropping == {i \in DOMAIN filters : ~ Passes(filters[i], r, q)}
    IN  IF dropping = {} THEN Null
        ELSE filters[CHOOSE i \in dropping : \A j \in dropping : i <= j]

Counted(site, q) == {k \in Rows(site) : DroppedBy(Records[site][k], q) = Null}

WhyNotCounted(filter) ==
    CASE filter = Null -> Null
      [] filter = "closed" -> "open"
      [] filter = "forwards" -> "backwards"
      [] OTHER -> "elsewhere"

\* topTypesPlan: the most common types, those of equal count by name.
Count(site, t) == Cardinality({k \in Rows(site) : Records[site][k].type = t})
MoreCommon(site, t, u) ==
    \/ Count(site, t) > Count(site, u)
    \/ Count(site, t) = Count(site, u) /\ t < u
TypesOf(site) == {t \in Types : Count(site, t) > 0}
TopTypes(site) ==
    {t \in TypesOf(site) :
        Cardinality({u \in TypesOf(site) : MoreCommon(site, u, t)}) < TYPES}
MostCommon(site) == CHOOSE t \in TopTypes(site) :
                        \A u \in TopTypes(site) \ {t} : MoreCommon(site, t, u)

ValuesOf(site, column) == {Records[site][k][column] : k \in Rows(site)} \ {Null}

\* The menu of areas; "a ZIP code" is apart.
AreaMenu(site) ==
    {City} \cup
    IF site = "nyc"
    THEN {Area("borough", b) : b \in Boroughs} \cup
         {Area("board", d) : d \in ValuesOf(site, "board") \cap Districts}
    ELSE {Area("town", t) : t \in ValuesOf(site, "town")}

\* The areas that a question may be about.
Areas(site) ==
    AreaMenu(site) \cup
    IF site = "nyc" THEN {Area("zip", z) : z \in Zips} ELSE {}

\* What an address may hold for an area.
AreaTexts == {Null, Malformed} \cup Areas("nyc") \cup Areas("westchester")

ASSUME AreaAssumption ==
    {Null, Malformed} \cap (Areas("nyc") \cup Areas("westchester")) = {}

\* The borough of a district is part of its code.
BoroughOf(d) == d[1]

\* The areas of the comparison: the districts of the question's borough, or
\* all boroughs; every town.
Compared(site, q) ==
    LET Groups(area, column) ==
            {Records[site][k][column] :
                k \in Counted(site, Question(q.type, area))}
        borough == CASE q.area.kind = "borough" -> q.area.value
                     [] q.area.kind = "board" -> BoroughOf(q.area.value)
                     [] OTHER -> Null
    IN  CASE site # "nyc" ->
               {Area("town", t) : t \in Groups(City, "town") \ {Null}}
          [] site = "nyc" /\ borough # Null ->
               {Area("board", d) : d \in
                   Groups(Area("borough", borough), "board") \cap Districts}
          [] OTHER ->
               {Area("borough", b) : b \in Groups(City, "borough") \cap Boroughs}

\* The question a complaint belongs to.
QuestionFor(r) ==
    Question(r.type, IF r.board \in Districts THEN Area("board", r.board)
                     ELSE IF r.borough \in Boroughs
                     THEN Area("borough", r.borough) ELSE City)

\* An address: the type, the area's key unless it is the city's, and the
\* complaint, each Null when it is left out.
ToSearch(q, complaint) ==
    [type |-> q.type,
     area |-> IF q.area.kind = "city" THEN Null ELSE q.area,
     complaint |-> complaint]

\* What an address asks for: a malformed area or number is as good as none.
FromSearch(search) ==
    LET a == search.area
    IN  [type |-> search.type,
         area |-> IF a \in {Null, Malformed} THEN City
                  ELSE IF a.kind = "zip" /\ a.value \notin Zips THEN City
                  ELSE a,
         complaint |-> IF search.complaint = Malformed THEN Null
                       ELSE search.complaint]

----------------------------------------------------------------------------
(* app.js: what the handlers are made of.                                  *)

UpdateUrl(s) == [s EXCEPT !.search = ToSearch(s.q, s.complaint)]

\* The next PAGE complaints of the list.
ShowMore(s) ==
    [s EXCEPT !.shown = IF s.list.size - @ < PAGE THEN s.list.size
                        ELSE @ + PAGE]

\* listComplaints.
ListComplaints(s) ==
    LET n == Cardinality(Counted(s.site, s.q))
    IN  ShowMore([s EXCEPT !.list = [q |-> s.q, order |-> s.order,
                                     size |-> IF n < LIST_MAX THEN n
                                              ELSE LIST_MAX],
                           !.shown = 0])

\* The whole page for the current question.
Answer(s) ==
    UpdateUrl(ListComplaints([s EXCEPT !.answer = s.q,
                                       !.compare = Compared(s.site, s.q)]))

\* Mutant of SetArea: the menu is left to the person who chose from it.
SetArea_MenuStale(s, area) ==
    Answer([s EXCEPT !.q.area = area, !.zip_shown = area.kind = "zip",
                     !.zip = IF area.kind = "zip" THEN area.value ELSE @])

SetArea(s, area) ==
    Answer([s EXCEPT !.q.area = area,
                     !.area_menu = IF area.kind = "zip" THEN SomeZip ELSE area,
                     !.zip_shown = area.kind = "zip",
                     !.zip = IF area.kind = "zip" THEN area.value ELSE @])

\* Points the menus at q, whose type is added to the menu.
SetQuestion(s, q) ==
    SetArea([s EXCEPT !.type_menu = q.type, !.types = @ \cup {q.type},
                      !.q.type = q.type], q.area)

\* Mutant of ForgetComplaint: only what is said of it is hidden.
ForgetComplaint_HideOnly(s) == [s EXCEPT !.yours.hidden = TRUE]

ForgetComplaint(s) == [s EXCEPT !.yours.hidden = TRUE, !.complaint = Null]

\* `yours` says that a text is no number, or no number of a complaint.
Saying(raw) == [of |-> raw, q |-> Null, why |-> Null]

\* ... or why complaint `key` is not in the answer to q, which
\* is Null if it is.
Verdict(site, key, q) ==
    [of |-> key, q |-> q, why |-> WhyNotCounted(DroppedBy(Records[site][key], q))]

\* Mutant of LookUp: the complaint is looked at under the old question.
LookUp_OldQuestion(s, raw) ==
    LET shown == [s EXCEPT !.yours.hidden = FALSE]
    IN  IF raw \in Rows(s.site)
        THEN UpdateUrl([shown EXCEPT !.yours.says = Verdict(s.site, raw, s.q),
                                     !.complaint = raw])
        ELSE UpdateUrl([shown EXCEPT !.yours.says = Saying(raw),
                                     !.complaint = Null])

\* "Check it".  What is typed in is no number, a number of no complaint, or
\* one of a complaint.  Naming the type of one without a type throws.
LookUp(s, raw) ==
    LET shown == [s EXCEPT !.yours.hidden = FALSE]
        q == QuestionFor(Records[s.site][raw])
        asked == SetQuestion(shown, q)
    IN  IF raw = Malformed
        THEN [shown EXCEPT !.yours.says = Saying(raw)]
        ELSE IF raw \notin Rows(s.site)
        THEN UpdateUrl([shown EXCEPT !.yours.says = Saying(raw),
                                     !.complaint = Null])
        ELSE IF q.type = Null
        THEN shown
        ELSE UpdateUrl([asked EXCEPT !.yours.says = Verdict(s.site, raw, q),
                                     !.complaint = raw])

\* The page when its menus are filled.
Filled(site) ==
    LET type == IF site = "nyc" /\ Preferred \in TopTypes(site)
                THEN Preferred ELSE MostCommon(site)
    IN  [site |-> site, q |-> Question(type, City), complaint |-> Null,
         types |-> TopTypes(site), type_menu |-> type, area_menu |-> City,
         zip_shown |-> FALSE, zip |-> Null,
         yours |-> [hidden |-> TRUE, says |-> Saying(Null)],
         order |-> "slowest", list |-> [q |-> Null, order |-> Null, size |-> 0],
         shown |-> 0, answer |-> Null, compare |-> {}, search |-> Null]

\* load of app.js: the question of the address, if the data has its type,
\* and then the complaint it names.
LoadCity(search) ==
    LET s == Filled("nyc")
        want == FromSearch(search)
        area == IF want.area.kind = "zip" \/ want.area \in AreaMenu("nyc")
                THEN want.area ELSE City
        asked == IF want.type \in TypesOf("nyc")
                 THEN SetQuestion(s, Question(want.type, area)) ELSE Answer(s)
    IN  IF want.complaint = Null THEN asked ELSE LookUp(asked, want.complaint)

\* load of westchester/app.js: a type must be in the menu.
LoadTowns(search) ==
    LET s == Filled("westchester")
        want == FromSearch(search)
        type == IF want.type \in TopTypes("westchester") THEN want.type
                ELSE s.q.type
        area == IF want.area \in AreaMenu("westchester") THEN want.area ELSE City
    IN  Answer([s EXCEPT !.q = Question(type, area), !.type_menu = type,
                         !.area_menu = area])

Load(site, search) == IF site = "nyc" THEN LoadCity(search) ELSE LoadTowns(search)

----------------------------------------------------------------------------
(* What a person does.                                                     *)

Texts == {Null, Malformed} \cup Zips

Addresses ==
    [type : Types \cup {Null}, area : AreaTexts, complaint : {Null} \cup Keys]

Init == \E site \in DOMAIN Records, search \in Addresses :
            page = Load(site, search)

ChooseType ==
    \E t \in page.types :
        LET s == ForgetComplaint(page)
        IN  page' = Answer([s EXCEPT !.type_menu = t, !.q.type = t])

ChooseArea ==
    \E a \in AreaMenu(page.site) :
        page' = IF page.site = "nyc" THEN SetArea(ForgetComplaint(page), a)
                ELSE Answer([page EXCEPT !.q.area = a, !.area_menu = a])

\* "a ZIP code": asked at once if the box holds one.
ChooseZip ==
    LET s == [ForgetComplaint(page) EXCEPT !.area_menu = SomeZip,
                                           !.zip_shown = TRUE]
    IN  /\ page.site = "nyc"
        /\ page' = IF s.zip \in Zips THEN SetArea(s, Area("zip", s.zip)) ELSE s

TypeZip ==
    \E text \in Texts :
        LET s == [page EXCEPT !.zip = text]
        IN  /\ page.site = "nyc" /\ page.zip_shown
            /\ page' = IF text \in Zips
                       THEN SetArea(ForgetComplaint(s), Area("zip", text)) ELSE s

\* Enter in the box sends its form, whose fields have no names.
SubmitZip ==
    /\ page.site = "nyc" /\ page.zip_shown
    /\ page' = Load("nyc", [type |-> Null, area |-> Null, complaint |-> Null])

\* A row of the comparison.
PickCompared ==
    \E a \in page.compare :
        page' = IF page.site = "nyc" THEN SetArea(ForgetComplaint(page), a)
                ELSE Answer([page EXCEPT !.q.area = a, !.area_menu = a])

ChooseOrder ==
    \E o \in {"slowest", "fastest", "recent"} :
        page' = ListComplaints([page EXCEPT !.order = o])

More == page.shown < page.list.size /\ page' = ShowMore(page)

CheckComplaint ==
    \E raw \in Keys : page.site = "nyc" /\ page' = LookUp(page, raw)

Reload == page' = Load(page.site, page.search)

Next ==
    \/ ChooseType \/ ChooseArea \/ ChooseZip \/ TypeZip \/ SubmitZip
    \/ PickCompared \/ ChooseOrder \/ More \/ CheckComplaint \/ Reload

Spec == Init /\ [][Next]_page

----------------------------------------------------------------------------
\* A copied link opens the page that was copied: its question, and the
\* complaint being checked if there is one ("Keeps the address bar on the
\* current question, so it can be shared", app.js).
AddressOpensThePage ==
    LET opened == Load(page.site, page.search)
    IN  /\ opened.q = page.q
        /\ page.complaint # Null => opened.complaint = page.complaint

\* Everything on the page is of one question: the menus (a ZIP's while its
\* box holds one), the answer, the comparison, and the list in the order
\* that is chosen, as far as it was asked for.
OneQuestion ==
    /\ page.type_menu = page.q.type
    /\ \/ page.area_menu = page.q.area
       \/ page.area_menu = SomeZip /\ page.zip \notin Zips
       \/ page.area_menu = SomeZip /\ page.q.area = Area("zip", page.zip)
    /\ page.answer = page.q
    /\ page.compare = Compared(page.site, page.q)
    /\ page.list.q = page.q /\ page.list.order = page.order
    /\ page.shown <= page.list.size
    /\ page.shown % PAGE = 0 \/ page.shown = page.list.size

\* What is said of a complaint is said of the answer above it, and right:
\* "it is one of the complaints counted above", or why it is not (lookUp).
VerdictIsOfAnswer ==
    LET told == page.yours.says
    IN  (~ page.yours.hidden /\ told.q # Null) =>
           /\ told.q = page.answer
           /\ told.why = Null <=> told.of \in Counted(page.site, page.answer)
           /\ told.why # "elsewhere"
=============================================================================
