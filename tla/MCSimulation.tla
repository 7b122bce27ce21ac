------------------------------ MODULE MCSimulation ------------------------------
(* The panel in groups of parts that can get into each other's way.        *)
EXTENDS Simulation

MCPanels ==
  {{"button_menu_overlay", "dds_right", "cross_left_press_mask",
    "cross_right_press_mask"},
   {"button_nav_overlay", "volume_left", "cross_up_press_mask",
    "cross_down_press_mask"},
   {"button_media_overlay", "button_phone_overlay", "dds_left",
    "volume_button"},
   {"button_return_overlay", "dds_button", "volume_right"}}

BothDevices == {"key", "mouse"}
=============================================================================
