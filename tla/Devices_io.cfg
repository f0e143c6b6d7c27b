SPECIFICATION Spec
CONSTANTS
  MAX_VIRTIO_DEVICES = 2
  AUDIO_BUF_SIZE = 4
  FLUSH_THRESHOLD = 2
  Capacity = 2
  Values = {0, 1}
  Rate = 1
  Controls = {key}
  MaxSamples = 5
  MaxResets = 1
INVARIANTS
  SamplesAccounted
  NoStaleAudio
  StuckOnlyAfterFull
