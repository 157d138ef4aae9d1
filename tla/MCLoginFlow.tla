---------------------------- MODULE MCLoginFlow -----------------------------
(* Small instances of LoginFlow.                                           *)
EXTENDS LoginConsent, TLC

URI(scheme, host) == [scheme |-> scheme, host |-> host, fragment |-> FALSE, userinfo |-> FALSE]

OneUri == {URI("https", "app")}

(* One URI of each kind Register and Authorize tell apart.                 *)
UriKinds == {URI("https", "app"), URI("https", "other"), URI("http", "localhost"),
             URI("http", "app"), URI("custom", "app"),
             [URI("https", "app") EXCEPT !.fragment = TRUE],
             [URI("https", "app") EXCEPT !.userinfo = TRUE]}

Localhost == {"localhost"}

NoAllowList == {{}}
TighterList == {{}, {"app"}}

Symmetry == Permutations(Reqs) \cup Permutations(Handles) \cup Permutations(Binders)
              \cup Permutations(Codes) \cup Permutations(Browsers)
              \cup Permutations(Clients) \cup Permutations(Challenges)
=============================================================================
