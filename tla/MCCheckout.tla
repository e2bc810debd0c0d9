----------------------------- MODULE MCCheckout -----------------------------
(***************************************************************************)
(* One checkout: its build files (Checkout), the arms of its builds (Arms) *)
(* and its commits (Commits).  They keep their state in different files,   *)
(* and so do the families of files a commit is checked for: a behaviour    *)
(* here is about one of them, its focus, and the others are at rest.       *)
(***************************************************************************)
EXTENDS Checkout, Commits

VARIABLE focus

MCDeclarations == {[head |-> TRUE, rows |-> r] : r \in {<<1>>, <<1, 2>>, <<2, 3>>, <<2, 1>>, <<9>>}}
                    \cup {[head |-> FALSE, rows |-> <<1>>]}
MCSpans == {[doc |-> "carry.md", target |-> "arm", bare |-> TRUE],
            [doc |-> "carry.md", target |-> "box", bare |-> FALSE]}
MCReadsAs == [t \in {"arm", "box"} |-> IF t = "arm" THEN {1, 2, Gone} ELSE {Exists, Gone}]

\* Nothing built, one arm declared, nothing cited and nothing found.
BuildsAtRest == tree = der /\ tree = CHOOSE s \in Src : TRUE
ArmsAtRest == Len(decl.rows) = 1
DocsAtRest == text = {} /\ pins # Nothing /\ \A t \in Targets : reads[t] = Gone
LintAtRest == base = found /\ \A x \in DOMAIN found : found[x] = 0
EnvAtRest == env = CHOOSE e \in Envs : TRUE

MCInit ==
  /\ Init /\ CommitsInit
  /\ focus \in {"builds", "arms", "units", "docs", "lint", "env"}
  /\ focus = "builds" \/ BuildsAtRest
  /\ focus \in {"arms", "units"} \/ ArmsAtRest
  /\ focus = "docs" \/ DocsAtRest
  /\ focus = "lint" \/ LintAtRest
  /\ focus = "env" \/ EnvAtRest

MCNext ==
  \/ focus = "builds" /\ Next /\ UNCHANGED commitVars
  \/ focus = "arms" /\ ArmsNext /\ UNCHANGED <<vars, docVars, lintVars, gateVars, changes>>
  \/ focus = "units" /\ (UnitWork \/ GitWork) /\ UNCHANGED vars
  \/ focus = "docs" /\ (DocWork \/ GitWork) /\ UNCHANGED vars
  \/ focus = "lint" /\ (LintWork \/ GitWork) /\ UNCHANGED vars
  \/ focus = "env" /\ (EnvWork \/ GitWork) /\ UNCHANGED vars

allVars == <<vars, commitVars, focus>>

MCSpec == MCInit /\ [][MCNext /\ UNCHANGED focus]_allVars
=============================================================================
