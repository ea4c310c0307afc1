---------------------------- MODULE MCTaskserver ----------------------------
(* Declarations that add and drop an organisation, its users and a group.  *)
EXTENDS TaskserverAccounts

CONSTANTS a, b, ann, ben

MCOrgs   == {a, b}
MCUsers  == {ann, ben}
MCGroups == {ann}

Declare(os, us, gs) == [orgs   |-> os,
                        users  |-> [o \in MCOrgs |-> IF o = a THEN us ELSE {}],
                        groups |-> [o \in MCOrgs |-> IF o = a THEN gs ELSE {}]]

MCConfigs == {Declare({}, {}, {}), Declare({a}, {ann}, {ann}),
              Declare({a}, {ann, ben}, {}), Declare({a, b}, {ben}, {})}
=============================================================================
