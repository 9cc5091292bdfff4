---------------------------- MODULE MCManagement ----------------------------
(* Values of the constants of Management for TLC.                          *)
EXTENDS Management, TLC

CONSTANTS wp, shop, secure, free, drop, wipe,
          save, again, back, purge, account, admin

Create(type, ssl, given, database) ==
  [op |-> "create", type |-> type, ssl |-> ssl, pem |-> given, db |-> database]

Sites6 == {wp, shop, secure, free, drop, wipe}
Request6 ==
     wp     :> Create("wordpress", "letsencrypt", {}, "valid")
  @@ shop   :> Create("wordpress", "none", {}, "invalid")
  @@ secure :> Create("static", "custom", {"cert", "key"}, "none")
  @@ free   :> Create("proxy", "custom", {"cert"}, "none")
  @@ drop   :> [op |-> "delete", delete_files |-> TRUE]
  @@ wipe   :> [op |-> "delete", delete_files |-> FALSE]

Apis6 == {save, again, back, purge, account, admin}
Op6 == save :> "backup" @@ again :> "backup" @@ back :> "restore"
    @@ purge :> "delete" @@ account :> "user" @@ admin :> "edit"

Loads9 ==
  { <<{wp, shop, drop}, {}>>, <<{secure, free, wipe}, {}>>, <<{wp, secure}, {}>>,
    <<{free, wp, wipe}, {}>>,
    <<{}, {save, again, back}>>, <<{}, {save, back, purge}>>,
    <<{}, {save, back, account}>>, <<{}, {save, back, admin}>>,
    <<{}, {save, account, purge}>> }

Load1 == { <<{}, {save, back, account}>> }
=============================================================================
