------------------------------ MODULE GroceryLists ------------------------------
(* Grocery lists of a recipe overview (pkg/notetype/recipeoverview/actions.go):*)
(* generated from recipes that may be edited or deleted meanwhile, then edited *)
(* and deleted from several tabs. One action is one statement or transaction.  *)
(*                                                                             *)
(* A number of an amount is its value in the base unit (mg, ml, pieces, cups), *)
(* counted in steps of which Fine are a hundredth; converting between units of *)
(* a kind keeps it.  The steps are fine enough for what the scaling divides;   *)
(* what binary fractions add to that is left out.                              *)
EXTENDS Integers, Sequences, FiniteSets, Folds

CONSTANTS
    Recipes, Planners, Tabs,
    Kilo,            \* mg in a g, g in a kg, ml in a l
    Fine,            \* steps in a hundredth of a base unit
    MaxLists,        \* bound
    Configs          \* [meta, rows, people, picks, edits, lists, updates]: the
                     \* recipes at first, what is asked for, what may happen

VARIABLES
    meta,       \* ct_recipe_meta: recipe -> [servings, preCook], 0 where unset; or Gone
    rows,       \* ct_recipe_ingredients: recipe -> sequence of ingredients
    planner,    \* planner -> a generate_grocery_list under way
    lists,      \* id -> [recipes, items], the list and its links
    tab,        \* tab -> the list it edits a copy of
    made,       \* per list, what its planner read and was asked for
    config, used

vars == <<meta, rows, planner, lists, tab, made, config, used>>

Gone == [servings |-> -1, preCook |-> 0]
Exists(r) == meta[r] # Gone

(* Amounts: pieces joined by "+"; a number, a range ("1-2") or a word.         *)
Number(n) == <<[low |-> n, rest |-> ""]>>
Range_(n, high) == <<[low |-> n, rest |-> high]>>
Word(w) == <<[low |-> -1, rest |-> w]>>
Nothing == <<>>
Numeric(a) == Len(a) = 1 /\ a[1].low >= 0
Plain(a) == Numeric(a) /\ a[1].rest = ""

(* scaleAmountFloat: what follows the number stays as it is. *)
Scaled(a, factor) ==
    IF Numeric(a) THEN <<[a[1] EXCEPT !.low = (@ * factor.times) \div factor.by]>> ELSE a

\* Mutant: an amount that is not a number is lost next to one.
Merged_Numbers(a, b) ==
    IF Numeric(a) /\ Numeric(b) /\ a[1].rest = b[1].rest
    THEN <<[a[1] EXCEPT !.low = @ + b[1].low]>>
    ELSE IF Numeric(a) THEN a ELSE b
(* mergeAmounts *)
Merged(a, b) ==
    IF Numeric(a) /\ Numeric(b) /\ a[1].rest = b[1].rest
    THEN <<[a[1] EXCEPT !.low = @ + b[1].low]>>
    ELSE a \o b

(* canonicalMetricAmount: the unit in which amounts are added. *)
Canonical(a, unit) ==
    CASE Plain(a) /\ unit \in {"mg", "g", "kg"} -> "mg"
      [] Plain(a) /\ unit \in {"ml", "l"} -> "ml"
      [] OTHER -> unit

(* formatAmountFinal: a number has two decimals in the unit it is written with *)
(* (of what is halfway between two, the binary fraction decides in the code).  *)
Cent(unit) ==
    CASE unit = "kg" -> Fine * Kilo * Kilo [] unit \in {"g", "l"} -> Fine * Kilo [] OTHER -> Fine
\* Mutant: a number is written without decimals.
Rounded_Whole(a, unit) ==
    LET one == 100 * Cent(unit) IN
    IF Plain(a) THEN <<[a[1] EXCEPT !.low = ((@ + one \div 2) \div one) * one]>> ELSE a
Rounded(a, unit) ==
    LET cent == Cent(unit) IN
    IF Plain(a) THEN <<[a[1] EXCEPT !.low = ((@ + cent \div 2) \div cent) * cent]>> ELSE a

(* normalizeMetricAmount: the unit in which the sum is shown ...  *)
ShownUnit(a, unit) ==
    LET thousand == 100 * Fine * Kilo
        million == thousand * Kilo IN
    CASE ~Plain(a) -> unit
      [] unit = "mg" /\ a[1].low >= million -> "kg"
      [] unit = "mg" /\ a[1].low >= thousand -> "g"
      [] unit = "g" /\ a[1].low >= million -> "kg"
      [] unit = "g" /\ 0 < a[1].low /\ a[1].low < thousand -> "mg"
      [] unit = "kg" /\ 0 < a[1].low /\ a[1].low < million -> "g"
      [] unit = "ml" /\ a[1].low >= thousand -> "l"
      [] unit = "l" /\ 0 < a[1].low /\ a[1].low < thousand -> "ml"
      [] OTHER -> unit
(* ... and the sum, rounded in it. *)
Shown(a, unit) == [unit |-> ShownUnit(a, unit), amount |-> Rounded(a, ShownUnit(a, unit))]

(* An ingredient has a metric amount, a kitchen amount (cups, spoons) or both; *)
(* of two the metric one counts when it was validated.  Kitchen amounts are    *)
(* rounded before they are added.                                              *)
HasMetric(x) == x.amount # Nothing /\ x.unit # ""
HasKitchen(x) == x.kitchen # Nothing /\ x.kitchenUnit # ""

(* effectiveGroceryListAmountUnit *)
Effective(x, factor) ==
    LET metric == Scaled(x.amount, factor) IN
    CASE HasMetric(x) /\ (~HasKitchen(x) \/ x.validated) -> [amount |-> metric, unit |-> Canonical(metric, x.unit)]
      [] ~(HasMetric(x) /\ (~HasKitchen(x) \/ x.validated)) /\ HasKitchen(x)
            -> [amount |-> Rounded(Scaled(x.kitchen, factor), x.kitchenUnit), unit |-> x.kitchenUnit]
      [] OTHER -> [amount |-> x.amount, unit |-> x.unit]

\* Mutant: recipes to cook in advance are scaled for the people too.
Factor_People(m, people, advance) ==
    [times |-> people, by |-> IF m.servings > 0 THEN m.servings ELSE 1]
Factor(m, people, advance) ==
    [times |-> IF advance /\ m.preCook > 0 THEN m.preCook ELSE people,
     by |-> IF m.servings > 0 THEN m.servings ELSE 1]

First(S) == CHOOSE x \in S : \A y \in S : x <= y
Last(S) == CHOOSE x \in S : \A y \in S : y <= x

(* One line for each category, name and unit; units are chosen when all is     *)
(* added. Lines as loadGroceryListByID sorts them are a set here.              *)
Lines(read) ==
    LET found == [i \in DOMAIN read.rows |->
            LET x == read.rows[i]
                e == Effective(x.item, Factor(read.meta[x.recipe], read.people, x.recipe \in read.advance)) IN
            [key |-> <<x.item.category, x.item.name, e.unit>>, amount |-> e.amount]]
        keys == {found[i].key : i \in DOMAIN found}
        Sum(k) == MapThenFoldSet(LAMBDA a, sum : Merged(sum, a), Nothing, LAMBDA i : found[i].amount, Last,
                                 {i \in DOMAIN found : found[i].key = k}) IN
    {[category |-> k[1], name |-> k[2], amount |-> Shown(Sum(k), k[3]).amount, unit |-> Shown(Sum(k), k[3]).unit] :
        k \in keys}

-------------------------------------------------------------------------------
(* State machine                                                               *)

Idle == [at |-> "idle", left |-> {}, meta |-> [r \in {} |-> 0], rows |-> <<>>, people |-> 0, advance |-> {}]
NoTab == [id |-> 0, items |-> {}]
Empty == [x \in {} |-> 0]

Init ==
    /\ config \in Configs
    /\ meta = config.meta /\ rows = config.rows
    /\ planner = [p \in Planners |-> Idle]
    /\ lists = Empty /\ made = Empty
    /\ tab = [b \in Tabs |-> NoTab]
    /\ used = [lists |-> 0, edits |-> 0, updates |-> 0]

Use(k) == used[k] < config[k] /\ used' = [used EXCEPT ![k] = @ + 1]
Go(p, v) == planner' = [planner EXCEPT ![p] = v]

(* generate_grocery_list: recipes to cook in advance may be named once or twice. *)
Generate(p) ==
    /\ planner[p].at = "idle" /\ Use("lists")
    /\ \E chosen \in SUBSET Recipes \ {{}}, people \in config.people :
       \E advance \in SUBSET chosen :
          Go(p, [Idle EXCEPT !.at = "recipes", !.left = chosen, !.people = people, !.advance = advance])
    /\ UNCHANGED <<meta, rows, lists, tab, made, config>>

(* Title and servings, recipe by recipe in no order; one that is gone is an error. *)
ReadRecipe(p) ==
    /\ planner[p].at = "recipes" /\ planner[p].left # {}
    /\ \E r \in planner[p].left :
          Go(p, IF Exists(r)
                THEN [planner[p] EXCEPT !.left = @ \ {r},
                                        !.meta = [s \in DOMAIN @ \cup {r} |-> IF s = r THEN meta[r] ELSE @[s]]]
                ELSE Idle)
    /\ UNCHANGED <<meta, rows, lists, tab, made, config, used>>

(* Then the ingredients of all of them at once. *)
ReadIngredients(p) ==
    LET v == planner[p]
        found == MapThenFoldSet(LAMBDA s, rest : s \o rest, <<>>,
                                LAMBDA r : [i \in DOMAIN rows[r] |-> [recipe |-> r, item |-> rows[r][i]]], First,
                                DOMAIN v.meta) IN
    /\ v.at = "recipes" /\ v.left = {}
    /\ Go(p, [v EXCEPT !.at = "store", !.rows = found])
    /\ UNCHANGED <<meta, rows, lists, tab, made, config, used>>

\* Mutant: without the transaction the list and the links before the failing stay.
Storable_All(rs) == TRUE
Storable(rs) == \A r \in rs : Exists(r)

(* List and links in one transaction; a recipe deleted by then makes it fail. *)
StoreList(p) ==
    LET v == planner[p]
        id == Cardinality(DOMAIN made) + 1 IN
    /\ v.at = "store" /\ id <= MaxLists
    /\ IF Storable(DOMAIN v.meta)
       THEN /\ lists' = [i \in DOMAIN lists \cup {id} |->
                            IF i = id THEN [recipes |-> DOMAIN v.meta, items |-> Lines(v)] ELSE lists[i]]
            /\ made' = [i \in DOMAIN made \cup {id} |-> IF i = id THEN [read |-> v, edited |-> FALSE] ELSE made[i]]
       ELSE UNCHANGED <<lists, made>>
    /\ Go(p, Idle)
    /\ UNCHANGED <<meta, rows, tab, config, used>>

(* An overview tab shows a list and edits its lines as a whole. *)
OpenList(b) ==
    /\ tab[b] = NoTab /\ used.updates < config.updates
    /\ \E id \in DOMAIN lists : tab' = [tab EXCEPT ![b] = [id |-> id, items |-> lists[id].items]]
    /\ UNCHANGED <<meta, rows, planner, lists, made, config, used>>

(* update_grocery_list writes all lines; of a list that is gone it is an error. *)
UpdateList(b) ==
    LET id == tab[b].id IN
    /\ tab[b] # NoTab /\ Use("updates")
    /\ \E items \in {tab[b].items \ {x} : x \in tab[b].items}
                    \cup {tab[b].items \cup {[category |-> "other", name |-> "typed", amount |-> Nothing, unit |-> ""]}} :
          IF id \in DOMAIN lists
          THEN /\ lists' = [lists EXCEPT ![id].items = items]
               /\ made' = [made EXCEPT ![id].edited = TRUE]
          ELSE UNCHANGED <<lists, made>>
    /\ tab' = [tab EXCEPT ![b] = NoTab]
    /\ UNCHANGED <<meta, rows, planner, config>>

DeleteList(id) ==
    /\ id \in DOMAIN lists /\ Use("updates")
    /\ lists' = [i \in DOMAIN lists \ {id} |-> lists[i]]
    /\ UNCHANGED <<meta, rows, planner, tab, made, config>>

(* A recipe is saved with other servings and one ingredient less. *)
EditRecipe(r) ==
    /\ Exists(r) /\ Use("edits")
    /\ meta' = [meta EXCEPT ![r].servings = 1]
    /\ rows' = [rows EXCEPT ![r] = IF @ = <<>> THEN @ ELSE Tail(@)]
    /\ UNCHANGED <<planner, lists, tab, made, config>>

(* A deleted recipe leaves the links of the lists, not their lines. *)
DeleteRecipe(r) ==
    /\ Exists(r) /\ Use("edits")
    /\ meta' = [meta EXCEPT ![r] = Gone] /\ rows' = [rows EXCEPT ![r] = <<>>]
    /\ lists' = [i \in DOMAIN lists |-> [lists[i] EXCEPT !.recipes = @ \ {r}]]
    /\ UNCHANGED <<planner, tab, made, config>>

Next ==
    \/ \E p \in Planners : Generate(p) \/ ReadRecipe(p) \/ ReadIngredients(p) \/ StoreList(p)
    \/ \E b \in Tabs : OpenList(b) \/ UpdateList(b)
    \/ \E id \in 1 .. MaxLists : DeleteList(id)
    \/ \E r \in Recipes : EditRecipe(r) \/ DeleteRecipe(r)

Spec == Init /\ [][Next]_vars

-------------------------------------------------------------------------------
TypeOK ==
    /\ DOMAIN lists \subseteq DOMAIN made /\ DOMAIN made \subseteq 1 .. MaxLists
    /\ \A i \in DOMAIN lists : lists[i].recipes \subseteq Recipes
    /\ \A p \in Planners : planner[p].at \in {"idle", "recipes", "store"}

(* A generated list asks for what its recipes need: for each category,         *)
(* ingredient and kind of unit the numbers on its lines add up to those of the *)
(* recipes, scaled for the people or the portions cooked in advance, and every *)
(* amount in words is there (actions.go: units are converted, amounts merged   *)
(* and units chosen again).  The rounding takes or adds half a hundredth of    *)
(* its unit at most for each kitchen amount and each line shown.               *)
Kind(unit) == IF unit \in {"mg", "g", "kg"} THEN "mass" ELSE IF unit \in {"ml", "l"} THEN "volume" ELSE unit
Asked(read) ==
    {LET x == read.rows[i].item
         m == read.meta[read.rows[i].recipe]
         kitchen == HasKitchen(x) /\ ~(HasMetric(x) /\ x.validated)
         a == IF kitchen THEN x.kitchen ELSE x.amount
         portions == IF read.rows[i].recipe \in read.advance /\ m.preCook # 0 THEN m.preCook ELSE read.people IN
     [i |-> i, line |-> <<x.category, x.name, Kind(IF kitchen THEN x.kitchenUnit ELSE x.unit)>>,
      slack |-> IF kitchen THEN Cent(x.kitchenUnit) ELSE 0,
      number |-> IF Plain(a) THEN (a[1].low * portions) \div (IF m.servings = 0 THEN 1 ELSE m.servings) ELSE 0,
      word |-> IF Plain(a) \/ a = Nothing THEN "" ELSE a[1].rest] : i \in DOMAIN read.rows}
Total(S, Value(_)) == MapThenFoldSet(LAMBDA x, sum : x + sum, 0, Value, LAMBDA T : CHOOSE x \in T : TRUE, S)
Pieces(items, line) ==
    UNION {{[item |-> x, i |-> i, piece |-> x.amount[i]] : i \in DOMAIN x.amount} :
              x \in {y \in items : <<y.category, y.name, Kind(y.unit)>> = line}}
TotalsMatch ==
    \A id \in {i \in DOMAIN lists : ~made[i].edited} :
        LET asked == Asked(made[id].read)
            items == lists[id].items IN
        /\ {a.line : a \in asked} = {<<x.category, x.name, Kind(x.unit)>> : x \in items}
        /\ \A line \in {a.line : a \in asked} :
              LET mine == {a \in asked : a.line = line}
                  got == Pieces(items, line)
                  more == Total({g \in got : g.piece.rest = ""}, LAMBDA g : g.piece.low)
                             - Total(mine, LAMBDA a : a.number)
                  slack == Total(mine, LAMBDA a : a.slack)
                             + Total({x \in items : <<x.category, x.name, Kind(x.unit)>> = line}, LAMBDA x : Cent(x.unit)) IN
              /\ -slack <= 2 * more /\ 2 * more <= slack
              /\ {a.word : a \in mine} \ {""} = {g.piece.rest : g \in got} \ {""}

(* A list is stored with all its recipes or not at all: its links are those it *)
(* was made for that still exist.                                              *)
LinksAreWhole ==
    \A id \in DOMAIN lists : lists[id].recipes = {r \in DOMAIN made[id].read.meta : Exists(r)}

(* By hand, and both fail: what is needed is never rounded to nothing; a range *)
(* such as "1-2" (recipe.go:40, amounts are strings "to support" it) is scaled *)
(* at both ends or not at all.                                                 *)
NothingVanishes ==
    \A id \in {i \in DOMAIN lists : ~made[i].edited} :
        \A a \in Asked(made[id].read) : a.number > 0 =>
            \E g \in Pieces(lists[id].items, a.line) : g.piece.low > 0
RangeIsWhole ==
    \A id \in {i \in DOMAIN lists : ~made[i].edited} :
        \A x \in lists[id].items : \A i \in DOMAIN x.amount :
            (x.amount[i].low >= 0 /\ x.amount[i].rest # "") =>
                \E j \in DOMAIN made[id].read.rows : x.amount[i] = made[id].read.rows[j].item.amount[1]
================================================================================
