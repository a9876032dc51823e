-------------------- MODULE MCAccessibilityRequirements --------------------
\* Two nodes; keys 1 (zone) and 2 (rack), values 1 and 2.
EXTENDS AccessibilityRequirements

ZoneRack(z, r) == {<<1, z>>, <<2, r>>}
\* Nodes get the label of their zone after that of their rack.
TwoZones == {{<<2, 1>>}, ZoneRack(1, 1), ZoneRack(2, 1)}
ZonesAndRacks == {{<<1, z>>} : z \in 1..2} \cup {ZoneRack(z, r) : z, r \in 1..2}

Expression(k, vs) == [key |-> k, values |-> vs]
SomeAllowed == {<<>>, << <<>> >>, << <<Expression(1, {1, 2}), Expression(2, {1})>> >>,
                << <<Expression(1, {1})>>, <<Expression(1, {2})>> >>}

Claim(set, id) == [parts |-> <<"data", set>>, id |-> id]
Unnumbered == {Claim("web", none)}
Numbered == {Claim(set, id) : set \in {"web", "db"}, id \in {none, 0, 2, 16}}
\* The hash of one name is close to 2^W.
SomeHash(parts) == IF parts[1] = "db" THEN 2^W - 2 ELSE Len(parts)
============================================================================
