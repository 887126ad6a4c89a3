----------------------------- MODULE MCBackOffice -----------------------------
(* A small instance of BackOffice for TLC. *)
EXTENDS BackOffice

\* The kinds of request that are tried against each other, on the databases and
\* Redis deployments that make a difference to them.
SignUp == {"mysql"} \X {"memory", "redis"} \X {{"send_code", "register"}}
Restarting == {"mysql"} \X {"memory"} \X {{"send_code", "restart"}}
Enrolling == {"mysql"} \X {"memory"} \X {{"send_code", "register", "create_staff"}}
Staffing == {"mysql", "sqlite"} \X {"memory"} \X {{"create_staff", "toggle", "delete_staff"}}
SigningIn == {"mysql"} \X {"redis"} \X {{"login", "logout", "toggle"}}
SigningOut == {"mysql"} \X {"flaky"} \X {{"login", "logout", "delete_staff"}}
Numbering == {"mysql"} \X {"memory"} \X {{"create_room", "batch"}}
Rooms == {"mysql"} \X {"memory"} \X {{"create_room", "update_room", "delete_room"}}
Stays == {"mysql"} \X {"memory"}
    \X {{"stays", "update_room", "delete_room"}, {"stays", "create_staff", "delete_staff"}}
Types == {"mysql"} \X {"memory"} \X {{"create_type", "create_room"}, {"update_type", "create_hotel"}}
Starting == {"mysql"} \X {"memory"} \X {{"first_boot", "restart"}}
Untyped == {"mysql"} \X {"memory"} \X {{"untyped", "update_room"}}
Renaming == {"mysql"} \X {"memory"} \X {{"update_hotel", "restart"}}
MCDeployments == SignUp \cup Restarting \cup Enrolling \cup Staffing
    \cup SigningIn \cup SigningOut \cup Numbering \cup Rooms \cup Stays \cup Types
    \cup Starting \cup Untyped \cup Renaming
CodeDeployments == {<<"mysql", "memory", {"send_code", "register"}>>}
=============================================================================
