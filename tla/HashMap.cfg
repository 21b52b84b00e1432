\* Four buckets of three slots; four keys share the first bucket.
SPECIFICATION Spec
CONSTANTS
  NULL = NULL
  Key = {0, 1, 4, 8, 12}
  Value = {v1, v2}
  s_min_hash_size = 2
  s_bucket_size = 3
  MapSize = 3
PROPERTY IsKeyedStacks
