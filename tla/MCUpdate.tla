------------------------------- MODULE MCUpdate -------------------------------
(* Instances of AutoUpdate for TLC.  Parts are doubled: <<2, 0>> is 1.0.     *)
EXTENDS AutoUpdate

MCVersions == {<<2, 0>>, <<2, 2>>, <<2, 2, 0>>}
MCFirst == <<2, 0>>
MCBroken == {<<2, 2, 0>>}
MCChecksummed == {<<2, 2>>}
MCTools == {"sudo", "exec", "sc", "schtasks", "wmic", "cmd"}
AllModes == {"unix_service", "unix_console", "windows_service", "windows_console",
             "takeover"}
=============================================================================
