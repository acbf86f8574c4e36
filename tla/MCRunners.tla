------------------------------- MODULE MCRunners -------------------------------
EXTENDS Runners, TLC

CONSTANTS a, b, mirror, folder, h1, h2, j1, j2

MCLabel == [c \in {a, b} |-> "db.pkg"]
MCVersion == [c \in {a, b} |-> IF c = a THEN 1 ELSE 2]

\* Every catalogue of four releases.
MCReleases == 1..4
MCCatalogs == {k \in [MCReleases -> SUBSET MCReleases] : \A v \in MCReleases : \A n \in k[v] : n < v}

Story3(ks, n, e) == [kinds |-> ks, jobs |-> n, events |-> e]
Run(k, o, n) == [kind |-> k, other |-> o, events |-> n]
Syncs == {Story3({"sync", "upload", "delete"}, 4, 0), Story3({"sync", "bundle", "delete"}, 3, 0),
          Story3({"sync", "update", "upload"}, 3, 1), Story3({"sync", "save"}, 3, 1)}
Uploads == Story3({"upload", "delete"}, 2, 0)
Quiet == Story3({}, 0, 0)
MCStories == Syncs \cup {Uploads, Quiet}
MCPlots == (Syncs \X {Run("none", 0, 0)})
           \cup {<<Uploads, Run("signatures", 0, 1)>>, <<Uploads, Run("signatures", 2, 0)>>,
                 <<Quiet, Run("firmware", 0, 2)>>, <<Quiet, Run("script", 0, 3)>>}
ScriptPlots == {<<Quiet, Run("script", 0, 2)>>}
Symmetry == Permutations({h1, h2}) \cup Permutations({j1, j2})
===============================================================================
