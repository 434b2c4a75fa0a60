---------------------------- MODULE MCPublication ----------------------------
EXTENDS Publication, TLC

CONSTANTS t1, s1, s2

In(id, groups, enabled, form) ==
    [id |-> id, groups |-> groups, enabled |-> enabled, form |-> form]

MCGroup == {"g", "h"}
MCGroupSets == {{}, {"h"}}
MCEntry == {1, 2}
MCOne == {In("a", {"h"}, TRUE, "idToken"), In("b", {}, TRUE, "token"), In("d", {}, TRUE, "own")}
MCTwo == {In("a", {}, TRUE, "token"), In("b", {}, FALSE, "token"), In("c", {}, TRUE, "sealed"),
          In("e", {}, TRUE, "none")}
MCConfigs == {MCOne, MCTwo}

MCStoredAccounts == [a \in {1} |-> [token |-> t1, groups |-> MCGroup]]
MCStoredNodes == [n \in {1} |-> [groups |-> MCGroup, config |-> {}]]
MCStoredDrafts == [n \in {1} |-> [kind |-> "draft", config |-> MCOne]]
MCStoredRegistries == [e \in {1} |-> [service |-> s1, enabled |-> TRUE]]

\* Deployments under way are told apart by nothing but their state.
MCSymmetry == Permutations(Job)
==============================================================================
