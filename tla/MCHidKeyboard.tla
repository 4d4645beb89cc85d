---------------------------- MODULE MCHidKeyboard ----------------------------
(* HidKeyboard on small instances, one per hazard: what hosts may do and   *)
(* which faults the stack may have differs between the configurations.     *)
EXTENDS HidKeyboard, TLC

MCGateAndQuiesce == {"gate", "quiesce"}
MCAllCalls == AllCalls

MCNoActs == {}
MCHostActs == {"report_on", "report_off", "encrypted", "unencrypted", "congested",
               "uncongested"}
MCReportActs == {"report_on", "boot_on", "boot_off", "protocol", "encrypted", "congested",
                 "uncongested", "suspend", "wake"}
MCSymmetry == Permutations(Hosts)
MCLossFaults == {"dropped", "build_refused", "build_error", "start_refused"}
MCAnswers == {"send_error", "start_refused", "stop_refused"}
MCLostFaults == {"dropped", "start_refused"}
MCSyncFaults == {"send_error", "stop_error"}
MCRefusedStops == {"stop_refused"}

=============================================================================
