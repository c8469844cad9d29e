--------------------------- MODULE MCProcessTools ---------------------------
(* The default configurations, tighter optics and short-lived consumables,  *)
(* refused configurations, layers on both sides of every limit.             *)
(* Recipes share nothing with the tools, so either the tools are used or    *)
(* recipes are checked: every behaviour of each is there.                   *)
EXTENDS ProcessTools, RecipeDrift

(* NaN in the field f. *)
NaN(c, f) == [c EXCEPT ![f] = 0, !.nan = {f}]

MCConfigs ==
  {Duv(scheme, 135, 25, 3000) : scheme \in {"Lele", "Lelele", "Sadp"}}
  \cup {Duv("Lele", 160, 25, 3000), Duv("Lele", 170, 25, 3000), Duv("Lele", 135, 0, 3000)}
  \cup {Euv(33, 4500, 2, 20), Euv(55, 4500, 2, 3), Euv(33, 4500, 2, 0)}
  \cup {Nil(2000, 50, 250, 3, 10), Nil(2000, 50, 250, 10, 10), Nil(2000, 250, 50, 3, 10)}
  \cup {Ebeam(10, 500, 10, 4), Ebeam(5, 500, 10, 1), Ebeam(10, 500, 15, 4)}
  \cup {NaN(Duv("Lele", 135, 25, 3000), f) : f \in {"na", "overlay", "dose"}}
  \cup {NaN(Euv(33, 4500, 2, 3), f) : f \in {"wavelength", "latitude"}}
  \cup {NaN(Nil(2000, 50, 250, 3, 10), f) : f \in {"low", "limit"}}
  \cup {NaN(Ebeam(10, 500, 10, 4), f) : f \in {"current", "subfield"}}
  \cup {[Euv(33, 4500, 2, 3) EXCEPT !.wavelength = w] : w \in {0, -135}}

Layer(pitch, corners, overlay, dose) ==
  [pitch |-> pitch, corners |-> corners, overlay |-> overlay, dose |-> dose]
MCRequests ==
  {Layer(pitch, corners, overlay, dose) :
     pitch \in {8, 9, 31, 36, 140}, corners \in {0, 30},
     overlay \in {25, 40, 60}, dose \in {1990, 4600, 9000}}

MCFilms ==
  {Deposition(target, nu, Window(95, 105)) : target \in {94, 100, 103, 105, 106}, nu \in {0, 3, 6}}
  \cup {Etch(target, nu, Window(285, 315), cd, Window(125, 135)) :
          target \in {285, 300, 315}, nu \in {0, 3, 6}, cd \in {124, 130, 135}}

(* Configurations whose optics are not the reference ones are left out. *)
FewConfigs == {Euv(33, 4500, 2, 3), Euv(55, 4500, 2, 3), Duv("Sadp", 135, 25, 3000),
               Duv("Lele", 160, 25, 3000), Ebeam(10, 500, 10, 4)}

MCParameterSets ==
  {<<>>, "temp" :> Numeric(0), "temp" :> Numeric(-5000),
   ("temp" :> Numeric(10000)) @@ ("gas" :> Text("N2")), ("temp" :> NotANumber) @@ ("lock" :> Flag(TRUE))}
MCToleranceSets ==
  {<<>>, "temp" :> [kind |-> "Absolute", v |-> 100], "temp" :> [kind |-> "Relative", v |-> 0]}
MCReadings ==
  {("temp" :> Numeric(x)) @@ ("gas" :> Text("N2")) :
     x \in {-10000, -5200, -5101, -5100, -5000, 0, 100, 200, 201, 9600, 9800, 10000, 10200, 10201}}
  \cup {<<>>, "gas" :> Text("Ar"), ("temp" :> NotANumber) @@ ("lock" :> Flag(TRUE)),
        ("temp" :> Text("N2")) @@ ("gas" :> Numeric(0)), "temp" :> Numeric(10100)}

MCInit == ToolsInit /\ RecipeInit
UseTools == versions = NewRecipe(<<>>, <<>>) /\ check = NoCheck
            /\ ToolsNext /\ UNCHANGED recipeVars
UseRecipes == ToolsInit /\ config = Ebeam(10, 500, 10, 4)
              /\ RecipeNext /\ UNCHANGED toolsVars
MCNext == UseTools \/ UseRecipes
MCSpec == MCInit /\ [][MCNext]_<<toolsVars, recipeVars>>

=============================================================================
