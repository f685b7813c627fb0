----------------------------- MODULE MCSettings -----------------------------
EXTENDS SettingsPages
CONSTANTS u1, u2
MCUser == {u1, u2}
MCPage == {"com", "func", "phone"}
MCMobile == {901, 902}
\* The files the repository ships.
MCStored == [p \in MCPage |->
  CASE p = "com" -> <<1, 8, 1, 0, 19200, 2, 8, 1, 0, 19200,
                      3, 8, 1, 0, 19200, 0, 8, 1, 0, 19200>>
    [] p = "func" -> <<255, 127, 50, -5, 2, 3, 4, 1>>
    [] OTHER -> <<901, 0, 0, 902, 0>>]
MCEdits == [p \in MCPage |->
  CASE p = "com" -> {<<3, 15>>, <<5, 9600>>, <<20, 115200>>}
    [] p = "func" -> {<<6, 0>>, <<9, 0>>, <<17, 0>>, <<21, 0>>}
    [] OTHER -> {<<1, 0>>, <<2, 110>>, <<4, 901>>}]
MCLeftovers == {0, 1, Junk}
=============================================================================
