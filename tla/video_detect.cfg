SPECIFICATION Spec
CONSTANTS
  Cams = {"720P60", "1080P30"}
  FhdCams = {"1080P30"}
  Signals = {"HDMI1080P60"}
  FhdSignals = {"HDMI1080P60"}
  Unknown = {}
INVARIANTS
  
  ScreenOn
  VideoHasReceiver
  
  LayoutFits
  HdmiShown
