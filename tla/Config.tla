-------------------------------- MODULE Config --------------------------------
(***************************************************************************)
(* ait/core/cfg.py: the configuration of a process, merged from the levels *)
(* of a YAML file (the defaults, those of the platform, those of the host) *)
(* and the path variables, and read again by reload().                     *)
(*                                                                         *)
(* A level gives names values or sections, and a section gives names       *)
(* values.  A value is a set of strings, a string the names it is made of; *)
(* a path may still have a variable in it.                                 *)
(***************************************************************************)
EXTENDS Naturals, Sequences

CONSTANTS ConfigFiles,      \* what the file may hold: its levels
          VariablesGiven,   \* what add_path_variables() may be given
          DefaultVariables, \* year, doy, platform and hostname
          PathKeys,         \* directory, file, filename, path, pathname
          NoVariable,
          MaxReloads        \* bound: reloads

\* A variable is not itself one of the parameters that are expanded: what it stands for
\* would depend on their order in the file.
Plain(value) == value.section = FALSE /\ value.variable \notin PathKeys
IsLevel(l) == \A k \in DOMAIN l : \/ Plain(l[k])
                                  \/ l[k].section = TRUE /\ \A j \in DOMAIN l[k].values : Plain(l[k].values[j])

ASSUME ConfigAssumption ==
    /\ MaxReloads \in Nat
    /\ \A ls \in ConfigFiles : /\ ls \in Seq({ls[n] : n \in DOMAIN ls})
                               /\ \A n \in DOMAIN ls : IsLevel(ls[n])
    /\ \A v \in VariablesGiven \cup {DefaultVariables} : \A k \in DOMAIN v : Plain(v[k])

Section(f) == [section |-> TRUE, values |-> f]
PathValue(strings, variable) == [section |-> FALSE, strings |-> strings, variable |-> variable]
Value(strings) == PathValue(strings, NoVariable)
NoLevel == [k \in {} |-> Value({})]

VARIABLES config,    \* AitConfig._config
          pathvars,  \* AitConfig._pathvars
          ended,     \* how the last reload() ended: "right", "empty" or "raised"
          levels,    \* history: the levels it read, and the path variables it had
          reloads

configVars == <<config, pathvars, ended, levels, reloads>>

-----------------------------------------------------------------------------
(* merge() and flatten()                                                   *)

Over(d, o) == [k \in DOMAIN d \cup DOMAIN o |-> IF k \in DOMAIN o THEN o[k] ELSE d[k]]

\* mutated: a section replaces the one that is there.
mergeFlat(d, o) == Over(d, o)

\* A section is merged into the one that is there, anything else takes its place.
merge(d, o) ==
    Over(d, [k \in DOMAIN o |-> IF k \in DOMAIN d /\ o[k].section
                                THEN Section(Over(d[k].values, o[k].values)) ELSE o[k]])

\* A section that is merged into a value raises.
MergeRaises(d, o) == \E k \in DOMAIN o \cap DOMAIN d : o[k].section /\ ~d[k].section

\* What the levels up to each one are merged to.
Merged(ls) == LET merged[n \in 0 .. Len(ls)] == IF n = 0 THEN NoLevel ELSE merge(merged[n - 1], ls[n])
              IN  merged

FlattenRaises(ls) == \E n \in DOMAIN ls : MergeRaises(Merged(ls)[n - 1], ls[n])

flatten(ls) == Merged(ls)[Len(ls)]

-----------------------------------------------------------------------------
(* expand_config_paths(): the values of keys that name paths, at any depth.*)

\* replace_variables(): a variable that is a section raises, one that is not known stays.
Refers(name, value) == name \in PathKeys /\ ~value.section /\ value.variable # NoVariable
ReplaceRaises(name, value, variables) ==
    /\ Refers(name, value)
    /\ value.variable \in DOMAIN variables
    /\ variables[value.variable].section

\* A path for each value of the variable.
Joined(paths, values) == {p \o v : p \in paths, v \in values}

replace_variables(name, value, variables) ==
    IF Refers(name, value) /\ value.variable \in DOMAIN variables
    THEN Value(Joined(value.strings, variables[value.variable].strings))
    ELSE value

Expanded(c, k) ==
    IF c[k].section
    THEN Section([j \in DOMAIN c[k].values |-> replace_variables(j, c[k].values[j], c)])
    ELSE replace_variables(k, c[k], c)

ExpandRaises(c, k) ==
    IF c[k].section THEN \E j \in DOMAIN c[k].values : ReplaceRaises(j, c[k].values[j], c)
                    ELSE ReplaceRaises(k, c[k], c)

-----------------------------------------------------------------------------
(* AitConfig                                                               *)

\* __init__() reads the file first of all.
ConfigInit == /\ config = NoLevel
              /\ pathvars = DefaultVariables
              /\ ended = "empty"
              /\ levels = <<>>
              /\ reloads = 0

Reloading(ls) == /\ reloads < MaxReloads
                 /\ reloads' = reloads + 1
                 /\ levels' = Append(ls, pathvars)
                 /\ UNCHANGED pathvars

\* reload(): the path variables become part of the configuration, above all its levels.
Reload(ls) == /\ Reloading(ls)
              /\ ~FlattenRaises(ls)
              /\ LET merged == merge(flatten(ls), pathvars) IN
                    /\ \A k \in DOMAIN merged : ~ExpandRaises(merged, k)
                    /\ config' = [k \in DOMAIN merged |-> Expanded(merged, k)]
              /\ ended' = "right"

\* The file cannot be read, which load_yaml() only logs.
ReloadMissing == /\ Reloading(<<>>)
                 /\ config' = NoLevel
                 /\ ended' = "empty"

\* What is left of the file's levels holds no parameter; or the paths before the one that
\* raises are replaced.
ReloadRaises(ls) ==
    /\ Reloading(ls)
    /\ IF FlattenRaises(ls) THEN config' = NoLevel
       ELSE LET merged == merge(flatten(ls), pathvars) IN
            \E k \in DOMAIN merged, before \in SUBSET DOMAIN merged :
               /\ ExpandRaises(merged, k)
               /\ \A b \in before : ~ExpandRaises(merged, b)
               /\ config' = [n \in DOMAIN merged |-> IF n \in before THEN Expanded(merged, n) ELSE merged[n]]
    /\ ended' = "raised"

\* The next reload will use them.
add_path_variables(variables) == /\ reloads < MaxReloads
                                 /\ pathvars' = merge(pathvars, variables)
                                 /\ pathvars' # pathvars
                                 /\ UNCHANGED <<config, ended, levels, reloads>>

\* get("k.j"), and get("k") for what is no section.
Has(c, k, j) == k \in DOMAIN c /\ c[k].section /\ j \in DOMAIN c[k].values
get(c, k, j) == c[k].values[j]

ConfigNext == \/ \E ls \in ConfigFiles : Reload(ls) \/ ReloadRaises(ls)
              \/ ReloadMissing
              \/ \E v \in VariablesGiven : add_path_variables(v)

ConfigSpec == ConfigInit /\ [][ConfigNext]_configVars

-----------------------------------------------------------------------------
ConfigTypes == /\ ended \in {"right", "empty", "raised"}
               /\ \A k \in DOMAIN pathvars : ~pathvars[k].section
               /\ reloads \in 0 .. MaxReloads

\* A parameter is as a level gives it, up to the variables of a path: they are replaced by
\* the values that the whole configuration gives them.
IsAs(name, value, stated) ==
    IF Refers(name, stated) /\ stated.variable \in DOMAIN config
    THEN /\ value.variable = NoVariable
         /\ value.strings = Joined(stated.strings, config[stated.variable].strings)
    ELSE value = stated

Names == UNION {DOMAIN levels[n] : n \in DOMAIN levels}
LastOf(ns) == CHOOSE n \in ns : \A m \in ns : m <= n
LevelsWith(k) == {n \in DOMAIN levels : k \in DOMAIN levels[n]}
LevelsWithin(k, j) == {n \in LevelsWith(k) : Has(levels[n], k, j)}

\* After a reload every parameter has the value of the most specific level that gives one,
\* the path variables coming last, and nothing is there that no level gives (AitConfig,
\* "each taking precedence over the previous one": cfg.py:221-224; merge, reload: :191, :352).
MostSpecificWins ==
    ended = "right" =>
       /\ DOMAIN config = Names
       /\ \A k \in Names :
             LET last == levels[LastOf(LevelsWith(k))][k] IN
             /\ config[k].section = last.section
             /\ last.section =>
                   /\ DOMAIN config[k].values = UNION {DOMAIN levels[n][k].values : n \in LevelsWith(k)}
                   /\ \A j \in DOMAIN config[k].values :
                         IsAs(j, get(config, k, j), get(levels[LastOf(LevelsWithin(k, j))], k, j))
             /\ ~last.section => IsAs(k, config[k], last)
=============================================================================
