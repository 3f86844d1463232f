------------------------------ MODULE MCBleLink ------------------------------
EXTENDS BleLink

MCPreferences == {[min |-> 1, max |-> 1, latency |-> 0, timeout |-> 1]}
MCOffers == {[interval |-> 1, latency |-> 1, timeout |-> 1], [interval |-> 2, latency |-> 0, timeout |-> 1]}
MCConfigs == {[enabled |-> {1, 2, 3, 4}, whitelist |-> TRUE, extended |-> FALSE],
              [enabled |-> {3}, whitelist |-> FALSE, extended |-> TRUE]}
MCThemes == {{"params"}, {"gatt"}, {"writes"}, {"security", "advertising"}}
=============================================================================
