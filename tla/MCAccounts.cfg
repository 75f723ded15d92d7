SPECIFICATION Spec
CONSTANTS
  s1 = s1
  s2 = s2
  Sessions = {s1, s2}
  Names = {"sshd", "bob"}
  Root = "root"
  Logins = {"root", "bob"}
  Preset <- PresetValue
  FirstUid = 2
  Synth <- SynthValue
  Bits = {"i"}
  MaxUid = 4
SYMMETRY Symmetric
INVARIANTS AccountsSound AccountsAgree
