------------------------------- MODULE Resolve -------------------------------
(* How a configuration text becomes the theme in effect (config.rs,         *)
(* parse_with): a preset file, the inline preset of the same name and the   *)
(* user's [theme] are merged in that order, "$name" references are resolved *)
(* against the merged palette, and the result is deserialized or refused.   *)
(*                                                                          *)
(* A theme has a colour "text" and a background, which is a colour or a     *)
(* table with a base.  A value is <<"colour", c>>, <<"ref", name>>,         *)
(* <<"bad", s>> or <<"table", t>>; a table is a function on its keys.  The  *)
(* tables of [modules] are resolved alike, and merged alike with the config *)
(* of a placement.                                                          *)
EXTENDS Integers

CONSTANTS
  Leaves,      \* scalar values a theme key may have
  Palettes,    \* [palette] tables a source may have
  Absent       \* a source that is not there

VARIABLES
  layers,      \* <<presets/<name>.toml, [presets.<name>], [theme]>>, each a table or Absent
  palettes,    \* <<top-level [palette], then that of each layer>>
  named,       \* is the preset selected (state.toml, else [theme].preset)?
  result       \* what parse_with returns

themeVars == <<layers, palettes, named, result>>

Table(t) == <<"table", t>>
Ref(v) == v[1] = "ref"
EMPTY == [k \in {} |-> Absent]

(* The tables of a source: text and background set or not. *)
Tables(K, V) == UNION {[S -> V] : S \in SUBSET K}
Grounds == Leaves \cup {Table(t) : t \in Tables({"base"}, Leaves)}
Themes == {t \in Tables({"text", "background"}, Grounds) : "text" \in DOMAIN t => t["text"] \in Leaves}

Scalar(v) == v[1] \in {"colour", "ref", "bad"}
ASSUME ThemeAssumption ==
  /\ \A v \in Leaves : Scalar(v)
  /\ \A p \in Palettes : \A n \in DOMAIN p : Scalar(p[n]) /\ p[n] # Absent
  /\ Absent \notin Grounds

ThemeTypeOK ==
  /\ layers \in [1..3 -> Themes \cup {Absent}]
  /\ palettes \in [1..4 -> Palettes \cup {Absent}]
  /\ named \in BOOLEAN

ThemeInit ==
  /\ layers \in [1..3 -> Themes \cup {Absent}]
  /\ palettes \in [1..4 -> Palettes \cup {Absent}]
  /\ \A n \in 1..3 : layers[n] = Absent => palettes[n + 1] = Absent
  /\ named \in BOOLEAN
  /\ result = Absent

-----------------------------------------------------------------------------
(* The keys of s, and those of d that s does not have. *)
Over(s, d) == [k \in DOMAIN s \cup DOMAIN d |-> IF k \in DOMAIN s THEN s[k] ELSE d[k]]

(* Tables deep-merge, anything else overwrites. *)
(* Faulty variant: the later table replaces the earlier. *)
MergeKey_Shallow(d, s, k) == IF k \in DOMAIN s THEN s[k] ELSE d[k]
MergeKey(d, s, k) ==
  IF k \notin DOMAIN s THEN d[k]
  ELSE IF k \in DOMAIN d /\ d[k][1] = "table" /\ s[k][1] = "table" THEN Table(Over(s[k][2], d[k][2]))
  ELSE s[k]

MergeInto(d, s) == [k \in DOMAIN d \cup DOMAIN s |-> MergeKey(d, s, k)]

Merged(d, s) == IF s = Absent THEN d ELSE MergeInto(d, s)

LoadPresetTable == Merged(Merged(EMPTY, layers[1]), layers[2])
ThemeTable == Merged(IF named THEN LoadPresetTable ELSE EMPTY, layers[3])

(* The preset's palettes come with its table; later ones win. *)
(* Faulty variant: what is there already stays. *)
Extended_Earlier(d, p) == IF p = Absent THEN d ELSE Over(d, p)
Extended(d, p) == IF p = Absent THEN d ELSE Over(p, d)
Palette ==
  LET top == Extended(EMPTY, palettes[1])
      preset == IF named THEN Extended(Extended(top, palettes[2]), palettes[3]) ELSE top
  IN Extended(preset, palettes[4])

-----------------------------------------------------------------------------
(* A reference is replaced by the palette's entry, once; one the palette    *)
(* does not have fails the whole text.                                      *)
RefsOf(t) ==
  LET direct == {k \in DOMAIN t : Ref(t[k])}
      nested == {k \in DOMAIN t : t[k][1] = "table" /\ \E j \in DOMAIN t[k][2] : Ref(t[k][2][j])}
  IN {t[k][2] : k \in direct}
       \cup UNION {{t[k][2][j][2] : j \in {i \in DOMAIN t[k][2] : Ref(t[k][2][i])}} : k \in nested}

ResolveValue(v) == IF Ref(v) THEN Palette[v[2]] ELSE v
ResolveTable(t) ==
  [k \in DOMAIN t |-> IF t[k][1] = "table"
                      THEN Table([j \in DOMAIN t[k][2] |-> ResolveValue(t[k][2][j])])
                      ELSE ResolveValue(t[k])]

(* serde: a colour parses, or the text is refused; a table of a background  *)
(* needs its base; a key nobody set has its default.                        *)
Colour(v) == v[1] = "colour"
Deserializes(t) ==
  \A k \in DOMAIN t :
    \/ Colour(t[k])
    \/ k = "background" /\ t[k][1] = "table" /\ "base" \in DOMAIN t[k][2] /\ Colour(t[k][2]["base"])

ParseWith ==
  IF ~(RefsOf(ThemeTable) \subseteq DOMAIN Palette) THEN <<"err">>
  ELSE IF ~Deserializes(ResolveTable(ThemeTable)) THEN <<"err">>
  ELSE <<"ok", ResolveTable(ThemeTable)>>

ThemeNext == result = Absent /\ result' = ParseWith /\ UNCHANGED <<layers, palettes, named>>
ThemeSpec == ThemeInit /\ [][ThemeNext]_themeVars

-----------------------------------------------------------------------------
(* What is promised ("built-in defaults < active preset < [theme]"), said   *)
(* without a merge: the layers that speak for the background are those down *)
(* to the first that is not a table, and of the tables each gives the keys  *)
(* that no later one has.                                                   *)
Says(n, k) == (n < 3 => named) /\ layers[n] # Absent /\ k \in DOMAIN layers[n]
Top(S) == CHOOSE n \in S : \A m \in S : m <= n
Speaks(n, k) ==
  Says(n, k) /\ \A m \in (n + 1)..3 : Says(m, k) => layers[m][k][1] = "table" /\ layers[n][k][1] = "table"

Meant(name) ==
  LET has == {n \in 1..4 : palettes[n] # Absent /\ name \in DOMAIN palettes[n] /\ (n \in {2, 3} => named)}
  IN IF has = {} THEN Absent ELSE palettes[Top(has)][name]

Value(v) == IF Ref(v) THEN Meant(v[2]) ELSE v
Leaf(k) == LET on == {n \in 1..3 : Says(n, k)} IN IF on = {} THEN Absent ELSE layers[Top(on)][k]
BaseLeaf ==
  LET on == {n \in 1..3 : Speaks(n, "background") /\ layers[n]["background"][1] = "table"
                            /\ "base" \in DOMAIN layers[n]["background"][2]}
  IN IF on = {} THEN Absent ELSE layers[Top(on)]["background"][2]["base"]

Usable(v) == v = Absent \/ (Value(v) # Absent /\ Value(v)[1] = "colour")
IsTable == Leaf("background") # Absent /\ Leaf("background")[1] = "table"

(* A text is accepted exactly if every value in effect is a colour, however *)
(* broken what it overrides is, and then each key has the value of the last *)
(* layer that sets it and each reference that of the last palette.          *)
Precedence ==
  result # Absent =>
    LET fine == Usable(Leaf("text"))
                  /\ IF IsTable THEN BaseLeaf # Absent /\ Usable(BaseLeaf) ELSE Usable(Leaf("background"))
    IN /\ (result[1] = "ok") <=> fine
       /\ fine => LET t == result[2]
                  IN /\ ("text" \in DOMAIN t) <=> (Leaf("text") # Absent)
                     /\ "text" \in DOMAIN t => t["text"] = Value(Leaf("text"))
                     /\ IsTable => t["background"][2]["base"] = Value(BaseLeaf)
                     /\ "background" \in DOMAIN t /\ ~IsTable =>
                          t["background"] = Value(Leaf("background"))

=============================================================================
