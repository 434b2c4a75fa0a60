---------------------------- MODULE MCDraftEditor ----------------------------
\* Instances of DraftEditor: a padded name beside the plain ones, one account,
\* and a draft with an item of each kind, over the default one.
EXTENDS DraftEditor

MCText == {"", "default", "direct", "block", "VLESS", "MASQUE", "WARP", "r-outbound", "a", "b", " a"}
MCTrimmed == [t \in MCText |-> IF t = " a" THEN "a" ELSE t]
MCTyped == {"b", " a"}
MCAccount == {"u"}

Default == Sync([certs |-> <<>>, inbounds |-> <<>>, outbounds |-> <<>>, reverses |-> <<>>,
                 rules |-> <<[DefaultRule EXCEPT !.enabled = FALSE]>>, dns |-> <<>>])

Filled ==
    [Default EXCEPT
        !.certs = <<[id |-> 1, name |-> "a", acme |-> TRUE, issued |-> FALSE], [id |-> 2, name |-> "b", acme |-> FALSE, issued |-> FALSE]>>,
        !.inbounds = <<[id |-> 1, cert |-> "a"]>>,
        !.outbounds = Append(@, [id |-> 3, name |-> "b", type |-> "VLESS",
                                 enabled |-> TRUE, builtin |-> FALSE]),
        !.reverses = <<[tag |-> "a", enabled |-> TRUE]>>,
        !.rules = <<DefaultRule,
                    [tag |-> "b", users |-> {"u"}, enabled |-> TRUE, limited |-> TRUE]>>,
        !.dns = <<"b", "b">>]

MCLoaded == {Filled}
=============================================================================
